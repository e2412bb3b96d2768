------------------------------ MODULE DnsCache ------------------------------
(***************************************************************************)
(* dns_cache.c with its pointers: every entry is a node on two structures  *)
(* at once, the singly linked chain of its hash bucket and the circular    *)
(* doubly linked list, closed by a sentinel, that keeps the order of use.  *)
(* A node that is evicted is unlinked from the list twice, once by         *)
(* lru_pop_back and once by cache_remove_node.                             *)
(***************************************************************************)
EXTENDS LruList, FiniteSets, Functions

CONSTANTS Node,           \* addresses that calloc may return
          lru_sentinel,   \* the address of the sentinel inside the struct
          NULL,
          Bucket,
          hash,           \* dns_cache_hash(...) % bucket_count
          Spelling,       \* names as callers write them
          lower           \* qname_to_lower_inplace

ASSUME NodesAreFinite == IsFiniteSet(Node)
ASSUME EnoughNodes == capacity <= Cardinality(Node)
ASSUME PointersDiffer == lru_sentinel # NULL /\ {lru_sentinel, NULL} \cap Node = {}
ASSUME HashType == hash \in [Name -> Bucket]
ASSUME LowerType == lower \in [Spelling -> Name]

VARIABLES
    c,          \* the struct dns_cache and the heap its pointers lead into
    result      \* what the last call returned

cacheVars == <<c, result>>

Listed == Node \cup {lru_sentinel}
Result == {Miss, Expired} \cup {Hit(ipv4) : ipv4 \in Ipv4}

\* data holds the nodes that are allocated; the pointer fields of the others
\* keep what free left in them.
Struct == [data      : UNION {[ns -> Entry] : ns \in SUBSET Node},
           buckets   : [Bucket -> Node \cup {NULL}],
           hash_next : [Node -> Node \cup {NULL}],
           lru_prev  : [Listed -> Listed \cup {NULL}],
           lru_next  : [Listed -> Listed \cup {NULL}],
           size      : 0 .. capacity]

CacheTypeOK == c \in Struct /\ result \in Result

dns_cache_create ==
    [data      |-> [n \in {} |-> NULL],
     buckets   |-> [b \in Bucket |-> NULL],
     hash_next |-> [n \in Node |-> NULL],
     lru_prev  |-> [n \in Listed |-> IF n = lru_sentinel THEN n ELSE NULL],
     lru_next  |-> [n \in Listed |-> IF n = lru_sentinel THEN n ELSE NULL],
     size      |-> 0]

CacheInit == c = dns_cache_create /\ result = Miss

\* The nodes met from start along next until stop; a walk that is longer
\* than there are nodes has run into a cycle.
Walk(next, start, stop) ==
    LET at[k \in 0 .. Cardinality(Node)] ==
            IF k = 0 THEN start
            ELSE IF at[k - 1] = stop THEN stop ELSE next[at[k - 1]]
        length == Cardinality({k \in 0 .. Cardinality(Node) : at[k] # stop})
    IN  [k \in 1 .. length |-> at[k - 1]]

Chain(d, b) == Walk(d.hash_next, d.buckets[b], NULL)

(***************************************************************************)
(* The static functions of dns_cache.c, on the state d of the struct.      *)
(***************************************************************************)
lru_head(d) == d.lru_next[lru_sentinel]

lru_push_front(d, n) ==
    LET first == lru_head(d)
    IN  [d EXCEPT !.lru_prev = [@ EXCEPT ![n] = lru_sentinel, ![first] = n],
                  !.lru_next = [@ EXCEPT ![n] = first, ![lru_sentinel] = n]]

\* A slip: the list is mended in one direction only.
lru_remove_forward(d, n) ==
    [d EXCEPT !.lru_next = [@ EXCEPT ![d.lru_prev[n]] = d.lru_next[n]]]

lru_remove(d, n) ==
    [d EXCEPT !.lru_next = [@ EXCEPT ![d.lru_prev[n]] = d.lru_next[n]],
              !.lru_prev = [@ EXCEPT ![d.lru_next[n]] = d.lru_prev[n]]]

\* A slip: the node next to the sentinel on the wrong side.
lru_tail_is_first(d) ==
    IF lru_head(d) = lru_sentinel
    THEN NULL ELSE lru_head(d)

\* NULL when the list is empty.
lru_tail(d) ==
    IF d.lru_prev[lru_sentinel] = lru_sentinel
    THEN NULL ELSE d.lru_prev[lru_sentinel]

\* A slip: only the first node of a chain is ever unlinked.
unchained_if_first(d, n) ==
    LET b == hash[d.data[n].qname]
    IN  IF d.buckets[b] = n
        THEN [d EXCEPT !.buckets = [@ EXCEPT ![b] = d.hash_next[n]]]
        ELSE d

\* Bend the pointer that leads to n, a bucket's or the one of another node.
unchained(d, n) ==
    LET b == hash[d.data[n].qname]
        before == {m \in ToSet(Chain(d, b)) : d.hash_next[m] = n}
    IN  IF d.buckets[b] = n
        THEN [d EXCEPT !.buckets = [@ EXCEPT ![b] = d.hash_next[n]]]
        ELSE [d EXCEPT !.hash_next =
                 [m \in Node |-> IF m \in before THEN d.hash_next[n] ELSE @[m]]]

cache_remove_node(d, n) ==
    [lru_remove(unchained(d, n), n) EXCEPT
        !.data = Restrict(@, DOMAIN @ \ {n}),
        !.size = IF @ > 0 THEN @ - 1 ELSE 0]

cache_find_node(d, qname) ==
    LET chain == Chain(d, hash[qname])
        place == SelectInSeq(chain, LAMBDA n : d.data[n].qname = qname)
    IN  IF place = 0 THEN NULL ELSE chain[place]

\* while (size >= capacity): one turn is enough, the list has no more.
make_room(d) ==
    IF d.size < capacity \/ lru_tail(d) = NULL THEN d
    ELSE cache_remove_node(lru_remove(d, lru_tail(d)), lru_tail(d))

add_node(d, n, entry) ==
    LET b == hash[entry.qname]
    IN  lru_push_front(
            [d EXCEPT !.data = [m \in DOMAIN @ \cup {n} |->
                                   IF m = n THEN entry ELSE @[m]],
                      !.hash_next = [@ EXCEPT ![n] = d.buckets[b]],
                      !.buckets = [@ EXCEPT ![b] = n],
                      !.size = @ + 1], n)

(***************************************************************************)
(* The calls.                                                              *)
(***************************************************************************)
dns_cache_lookup(q) ==
    LET n == cache_find_node(c, lower[q])
    IN  \/ /\ n = NULL
           /\ result' = Miss
           /\ UNCHANGED c
        \/ /\ n # NULL
           /\ c.data[n].left = 0
           /\ c' = cache_remove_node(c, n)
           /\ result' = Expired
        \/ /\ n # NULL
           /\ c.data[n].left > 0
           /\ c' = lru_push_front(lru_remove(c, n), n)
           /\ result' = Hit(c.data[n].ipv4)

dns_cache_insert(q, ipv4, ttl) ==
    LET n == cache_find_node(c, lower[q])
        entry == [qname |-> lower[q], ipv4 |-> ipv4, left |-> ttl]
    IN  /\ result' = Miss
        /\ \/ /\ ttl = 0
              /\ UNCHANGED c
           \/ /\ ttl > 0
              /\ n # NULL
              /\ c' = lru_push_front(
                         lru_remove([c EXCEPT !.data[n] = entry], n), n)
           \/ /\ ttl > 0
              /\ n = NULL
              /\ \E fresh \in Node \ DOMAIN make_room(c).data :
                    c' = add_node(make_room(c), fresh, entry)

\* calloc fails: room has been made and is not used.
dns_cache_insert_fails(q) ==
    /\ cache_find_node(c, lower[q]) = NULL
    /\ c' = make_room(c)
    /\ result' = Miss

\* Nodes are removed from the front until the list is empty; the state after
\* k turns of that loop.
emptied(d) ==
    LET after[k \in 0 .. Cardinality(Node)] ==
            IF k = 0 THEN d
            ELSE IF lru_head(after[k - 1]) = lru_sentinel THEN after[k - 1]
            ELSE cache_remove_node(after[k - 1], lru_head(after[k - 1]))
    IN  after[Cardinality(Node)]

dns_cache_destroy == c' = emptied(c) /\ result' = Miss

CacheTick ==
    /\ c' = [c EXCEPT !.data = [n \in DOMAIN c.data |->
                                   [c.data[n] EXCEPT !.left = less(@)]]]
    /\ UNCHANGED result

CacheNext ==
    \/ \E q \in Spelling :
          \/ dns_cache_lookup(q)
          \/ dns_cache_insert_fails(q)
          \/ \E ipv4 \in Ipv4, ttl \in 0 .. MaxTtl :
                dns_cache_insert(q, ipv4, ttl)
    \/ dns_cache_destroy
    \/ CacheTick

CacheSpec == CacheInit /\ [][CacheNext]_cacheVars

(***************************************************************************)
(* Correctness.                                                            *)
(***************************************************************************)
UsedForward == Walk(c.lru_next, c.lru_next[lru_sentinel], lru_sentinel)
UsedBackward == Walk(c.lru_prev, c.lru_prev[lru_sentinel], lru_sentinel)

\* Every pointer is of its type, and the list of use is a proper ring: read
\* either way from the sentinel it meets the same nodes in opposite order,
\* each of them once, and each of them allocated, although eviction unlinks a
\* node twice.
ListWellFormed ==
    /\ CacheTypeOK
    /\ IsInjective(UsedForward)
    /\ ToSet(UsedForward) = DOMAIN c.data
    /\ UsedBackward = Reverse(UsedForward)

\* The chains of the buckets hold the same nodes, each in the bucket of its
\* name and once, no two nodes have the same name, no chain leads to a node
\* that has been freed, and size counts the nodes: a drift would make the
\* cache shrink for good or grow without bound.
ChainsHoldTheSame ==
    /\ UNION {ToSet(Chain(c, b)) : b \in Bucket} = DOMAIN c.data
    /\ \A b \in Bucket :
          /\ IsInjective(Chain(c, b))
          /\ \A n \in ToSet(Chain(c, b)) : hash[c.data[n].qname] = b
    /\ \A m, n \in DOMAIN c.data :
          c.data[m].qname = c.data[n].qname => m = n
    /\ c.size = Cardinality(DOMAIN c.data)

\* The order of use, without the pointers that keep it.
Lru == INSTANCE LruCache WITH
    cache <- [i \in 1 .. Len(UsedForward) |-> c.data[UsedForward[i]]]

\* Seen through its calls the structure is a bounded LRU cache.
ImplementsLruCache == Lru!Spec
=============================================================================
