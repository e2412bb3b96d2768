------------------------------- MODULE IdMap -------------------------------
(***************************************************************************)
(* id_map.c: the table of queries that wait for an upstream answer, as     *)
(* operators on a value m = [entries, count, next_id].  entries is the     *)
(* content of all hash buckets, a function from the upstream identifiers   *)
(* in use; left is the time until expire_at_ms.                            *)
(***************************************************************************)
EXTENDS Integers, FiniteSets, FiniteSetsExt, Functions

CONSTANTS MaxId,         \* the largest uint16_t, 65535
          MAX_PENDING,   \* DNS_ID_MAP_MAX_PENDING
          TIMEOUT        \* DNS_ID_MAP_TIMEOUT_MS, in units of time

ASSUME MaxIdIsPositive == MaxId \in Nat \ {0}
ASSUME PendingFits == MAX_PENDING \in Nat \ {0} /\ MAX_PENDING < MaxId
ASSUME TimeoutIsPositive == TIMEOUT \in Nat \ {0}

UpstreamId == 1 .. MaxId

id_map_create == [entries |-> [id \in {} |-> 0], count |-> 0, next_id |-> 1]

id_in_use(m, id) == id \in DOMAIN m.entries

\* k steps of next_id++, which wraps around and leaves out 0.
stepped(id, k) == ((id - 1 + k) % MaxId) + 1

\* How many identifiers alloc_upstream_id passes over before one is free.
tries(m) == Min({k \in 0 .. MaxId - 1 : ~id_in_use(m, stepped(m.next_id, k))})

\* A slip: the lowest identifier that is free, used again at once.
lowest_free_id(m) == Min(UpstreamId \ DOMAIN m.entries)

alloc_upstream_id(m) == stepped(m.next_id, tries(m))

full(m) == m.count >= MAX_PENDING

\* The entries with one more, e, under identifier id.
chained(entries, id, e) ==
    [i \in DOMAIN entries \cup {id} |-> IF i = id THEN e ELSE entries[i]]

\* A slip: next_id stays where it is.
id_map_insert_in_place(m, e) ==
    [m EXCEPT !.entries = chained(@, alloc_upstream_id(m), e), !.count = @ + 1]

\* The map with entry e under the identifier that alloc_upstream_id chooses.
id_map_insert(m, e) ==
    [entries |-> chained(m.entries, alloc_upstream_id(m), e),
     count   |-> m.count + 1,
     next_id |-> stepped(m.next_id, tries(m) + 1)]

id_map_take(m, id) ==
    IF id_in_use(m, id)
    THEN [m EXCEPT !.entries = Restrict(@, DOMAIN @ \ {id}), !.count = @ - 1]
    ELSE m

\* A slip: an entry whose time is just up is kept.
dead_for_some_time(m) == {id \in DOMAIN m.entries : m.entries[id].left < 0}

dead(m) == {id \in DOMAIN m.entries : m.entries[id].left <= 0}

\* A slip: the counter does not follow.
id_map_expire_uncounted(m) ==
    [m EXCEPT !.entries = Restrict(@, DOMAIN @ \ dead(m))]

id_map_expire(m) ==
    [m EXCEPT !.entries = Restrict(@, DOMAIN @ \ dead(m)),
              !.count = @ - Cardinality(dead(m))]

\* One unit of time later; an entry that is overdue stays overdue.
less_time(left) == IF left = 0 THEN 0 ELSE left - 1
later(m) ==
    [m EXCEPT !.entries = [id \in DOMAIN m.entries |->
        [m.entries[id] EXCEPT !.left = less_time(@)]]]
=============================================================================
