------------------------------- MODULE Relay -------------------------------
(***************************************************************************)
(* relay.c: one thread, one UDP socket.  Every turn of the loop in         *)
(* relay_run waits in select, removes expired queries from the id map and  *)
(* handles at most one datagram, from a client or from the upstream        *)
(* server.  UDP loses, repeats, delays and reorders what the upstream      *)
(* sends; any sendto of the relay may fail.                                *)
(***************************************************************************)
EXTENDS IdMap, LruList

CONSTANTS Query,         \* records [client, id, qname, qtype]
          table,         \* the name list: per name "MISS", "BLOCK" or an address
          None,          \* no datagram
          SendMayFail,   \* whether sendto may fail
          Lifetime,      \* environment: an upstream answer is never delayed
                         \* beyond this many later queries
          MaxForwards    \* bound: queries relayed in a run

\* An answer is gone before its identifier comes round again.  The code
\* leaves 65535 - 256 queries for that.
ASSUME AnswersDieInTime ==
    Lifetime \in Nat /\ Lifetime <= MaxId - MAX_PENDING + 1

ASSUME QueryType == \A q \in Query : q.qname \in Name
ASSUME MaxForwardsIsNat == MaxForwards \in Nat
ASSUME TableType == table \in [Name -> Ipv4 \cup {"MISS", "BLOCK"}]

VARIABLES
    running,    \* the loop of relay_run has not ended
    map,        \* the id map; entries [query, left, nr]
    cache,      \* the cache, most recently used first
    reply,      \* the last datagram sent to a client, None in other turns
    upstream,   \* queries sent upstream that may still be answered
    fate,       \* per query relayed: "sent", "failed" or "answered"
    told        \* for how long upstream vouches for an address of a name

vars == <<running, map, cache, reply, upstream, fate, told>>

Fate == {"sent", "failed", "answered"}
Pending == [query : Query, left : 0 .. TIMEOUT, nr : 1 .. MaxForwards]
Waiting == UNION {[ids -> Pending] : ids \in SUBSET UpstreamId}
Asked == [id : UpstreamId, query : Query, nr : 1 .. MaxForwards]

TypeOK ==
    /\ running \in BOOLEAN
    /\ map \in [entries : Waiting, count : 0 .. MAX_PENDING,
               next_id : UpstreamId]
    /\ cache \in Seq(Entry) /\ Len(cache) <= capacity
    /\ upstream \subseteq Asked
    /\ fate \in Seq(Fate) /\ Len(fate) <= MaxForwards
    /\ told \in [Name \X Ipv4 -> 0 .. MaxTtl]

Init ==
    /\ running = TRUE
    /\ map = id_map_create
    /\ cache = <<>>
    /\ reply = None
    /\ upstream = {}
    /\ fate = <<>>
    /\ told = [na \in Name \X Ipv4 |-> 0]

\* What a client gets: to whom, under which identifier, about which query,
\* and what the answer is.
Reply(to, id, query, answer) ==
    [to |-> to, id |-> id, query |-> query, answer |-> answer]

\* A datagram to a client.
dns_socket_sendto(out) == reply' = out \/ (SendMayFail /\ reply' = None)

(***************************************************************************)
(* relay_forward, on the map m that the turn has cleaned.                  *)
(***************************************************************************)
\* A slip: the entry of a query that could not be sent stays in the map.
relay_forward_without_rollback(m, q) ==
    LET nr == Len(fate) + 1
        entry == [query |-> q, left |-> TIMEOUT, nr |-> nr]
    IN  \/ full(m) /\ map' = m /\ UNCHANGED <<upstream, fate>>
        \/ /\ ~full(m) /\ nr <= MaxForwards
           /\ map' = id_map_insert(m, entry)
           /\ fate' = Append(fate, "failed")
           /\ UNCHANGED upstream

relay_forward(m, q) ==
    LET nr == Len(fate) + 1
        id == alloc_upstream_id(m)
        entry == [query |-> q, left |-> TIMEOUT, nr |-> nr]
        alive(u) == nr - u.nr < Lifetime
    IN  \/ /\ full(m)
           /\ map' = m
           /\ UNCHANGED <<upstream, fate>>
        \/ /\ ~full(m) /\ nr <= MaxForwards
           /\ map' = id_map_insert(m, entry)
           /\ fate' = Append(fate, "sent")
           /\ upstream' = {u \in upstream : alive(u)} \cup
                          {[id |-> id, query |-> q, nr |-> nr]}
        \/ /\ ~full(m) /\ nr <= MaxForwards /\ SendMayFail
           /\ map' = id_map_take(id_map_insert(m, entry), id)
           /\ fate' = Append(fate, "failed")
           /\ upstream' = {u \in upstream : alive(u)}

(***************************************************************************)
(* handle_client_query.  Only queries of type A and class IN are looked up *)
(* locally; each local answer that cannot be sent falls through to what    *)
(* comes next.                                                             *)
(***************************************************************************)
local(q) == q.qtype = "A"
listed(q) == local(q) /\ table[q.qname] # "MISS"
hit(q) == local(q) /\ lookup_result(cache, q.qname).kind = "HIT"

AnswerFromTable(q) ==
    /\ listed(q)
    /\ reply' = Reply(q.client, q.id, q, table[q.qname])
    /\ map' = id_map_expire(map)
    /\ UNCHANGED <<running, cache, upstream, fate, told>>

AnswerFromCache(q) ==
    /\ listed(q) => SendMayFail
    /\ hit(q)
    /\ reply' = Reply(q.client, q.id, q, lookup_result(cache, q.qname).ipv4)
    /\ cache' = looked_up(cache, q.qname)
    /\ map' = id_map_expire(map)
    /\ UNCHANGED <<running, upstream, fate, told>>

AskUpstream(q) ==
    /\ listed(q) \/ hit(q) => SendMayFail
    /\ relay_forward(id_map_expire(map), q)
    /\ cache' = IF local(q) THEN looked_up(cache, q.qname) ELSE cache
    /\ reply' = None
    /\ UNCHANGED <<running, told>>

ClientQuery(q) ==
    /\ running
    /\ \/ AnswerFromTable(q)
       \/ AnswerFromCache(q)
       \/ AskUpstream(q)

(***************************************************************************)
(* handle_upstream_response.  The answer to u carries an A record for its  *)
(* name (ipv4 and ttl) or none (ipv4 = "NONE").                            *)
(***************************************************************************)
Answered(u, ipv4, ttl) ==
    LET m == id_map_expire(map)
        e == m.entries[u.id]
        has_a == ipv4 # "NONE" /\ e.query.qname = u.query.qname
    IN  /\ id_in_use(m, u.id)
        /\ map' = id_map_take(m, u.id)
        /\ cache' = IF has_a THEN inserted(cache, e.query.qname, ipv4, ttl)
                    ELSE cache
        /\ told' = IF has_a THEN [told EXCEPT ![<<u.query.qname, ipv4>>] = Max({@, ttl})]
                   ELSE told
        /\ dns_socket_sendto(Reply(e.query.client, e.query.id, u.query, ipv4))
        /\ fate' = [fate EXCEPT ![u.nr] = "answered"]

\* id_map_take finds nothing: the answer is late, or a second one.
Dropped(u) ==
    /\ ~id_in_use(id_map_expire(map), u.id)
    /\ map' = id_map_expire(map)
    /\ reply' = None
    /\ UNCHANGED <<cache, told, fate>>

UpstreamResponse(u) ==
    /\ running
    /\ \/ \E ipv4 \in Ipv4 \cup {"NONE"}, ttl \in 0 .. MaxTtl :
             Answered(u, ipv4, ttl)
       \/ Dropped(u)
    /\ UNCHANGED <<running, upstream>>

\* A turn without a datagram that counts: select timed out, recvfrom failed,
\* or the datagram is oversize or unparseable.
IdleTurn ==
    /\ running
    /\ map' = id_map_expire(map)
    /\ reply' = None
    /\ UNCHANGED <<running, cache, upstream, fate, told>>

\* relay_request_stop, or select fails: the loop ends and everything goes.
LoopEnds ==
    /\ running
    /\ running' = FALSE
    /\ map' = id_map_create
    /\ cache' = <<>>
    /\ reply' = None
    /\ UNCHANGED <<upstream, fate, told>>

Tick ==
    /\ running
    /\ map' = later(map)
    /\ cache' = aged(cache)
    /\ told' = [na \in Name \X Ipv4 |-> less(told[na])]
    /\ reply' = None
    /\ UNCHANGED <<running, upstream, fate>>

\* One turn of the loop: each of them removes expired queries first.
Turn ==
    \/ \E q \in Query : ClientQuery(q)
    \/ \E u \in upstream : UpstreamResponse(u)
    \/ IdleTurn

Next == Turn \/ LoopEnds \/ Tick

Spec == Init /\ [][Next]_vars

\* The clock runs, and select returns after at most RELAY_SELECT_MAX_MS: the
\* loop keeps turning, with or without datagrams.
FairSpec == Spec /\ WF_vars(Tick) /\ WF_vars(Turn)

(***************************************************************************)
(* Correctness.                                                            *)
(***************************************************************************)

\* An answer that still may arrive finds, under its identifier, the very
\* query it answers or nothing: identifiers are not used again while an
\* earlier answer to them is on its way.
AnswersFindTheirQuery == \A u \in upstream : id_in_use(map, u.id) =>
    /\ map.entries[u.id].nr = u.nr
    /\ map.entries[u.id].query = u.query

\* Everything that has a number was relayed before.
NumbersPast ==
    /\ \A id \in DOMAIN map.entries : map.entries[id].nr <= Len(fate)
    /\ \A u \in upstream : u.nr <= Len(fate)

\* The n identifiers that next_id comes to from id on.
Arc(id, n) == {stepped(id, i) : i \in 0 .. n - 1}

\* Since u was sent next_id has moved over d identifiers and has not come
\* back to that of u.  Len(fate) - u.nr of the d were given out, the others
\* were in use; these, and those that are in use on the rest of the way, had
\* places in the map next to u.
NotRoundYet(u) == \E d \in 0 .. MaxId - 1 :
    LET rest == Arc(map.next_id, MaxId - 1 - d)
    IN  /\ map.next_id = stepped(u.id, d + 1)
        /\ d - (Len(fate) - u.nr) + Cardinality(rest \cap DOMAIN map.entries)
              < MAX_PENDING

\* Every client gets answers to its own queries only, under the identifier
\* that it chose (FR-05).
ReplyMatchesQuery == reply # None =>
    /\ reply.to = reply.query.client
    /\ reply.id = reply.query.id

\* A query in the map has really been sent upstream, has had no answer yet
\* and is there once: a send that failed and an answer leave nothing behind.
PendingAwaitsAnswer == \A i, j \in DOMAIN map.entries :
    /\ fate[map.entries[i].nr] = "sent"
    /\ map.entries[i].nr = map.entries[j].nr => i = j

\* The counter that bounds the map agrees with what is in it.
CountIsExact == map.count = Cardinality(DOMAIN map.entries)

\* No answer reaches a client after the query's time is up, although the
\* datagram may have been waiting in the socket before that (FR-07).
LateAnswersDropped == [][\A k \in DOMAIN fate :
    fate[k] # "answered" /\ fate'[k] = "answered" =>
        \E id \in DOMAIN map.entries :
            map.entries[id].nr = k /\ map.entries[id].left > 0]_vars

\* What is cached is what upstream said of that very name, for no longer
\* than it said, whatever the order of the answers.
CacheIsVouchedFor == \A i \in 1 .. Len(cache) :
    cache[i].left <= told[<<cache[i].qname, cache[i].ipv4>>]

\* A name is cached once: no older address hides behind the one found.
OneEntryPerName == \A i, j \in 1 .. Len(cache) :
    cache[i].qname = cache[j].qname => i = j

\* The inductive invariant: types, numbers, and the way of next_id, from
\* which it follows that no answer meets another query's entry.
IInv ==
    /\ TypeOK
    /\ CountIsExact
    /\ NumbersPast
    /\ PendingAwaitsAnswer
    /\ AnswersFindTheirQuery
    /\ running => \A u \in upstream : NotRoundYet(u)
    /\ OneEntryPerName
    /\ CacheIsVouchedFor

\* A name on the list, blocked or not, is never asked upstream (FR-03, FR-04).
ListedNamesStayLocal == \A u \in upstream : ~listed(u.query)

\* A full map does not stay full: it takes queries again in the end, even if
\* upstream never answers (FR-07).
RoomReturns == full(map) ~> ~full(map)
=============================================================================
