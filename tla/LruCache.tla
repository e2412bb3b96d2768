------------------------------ MODULE LruCache ------------------------------
(***************************************************************************)
(* What dns_cache.c promises to the relay: a bounded map from names to     *)
(* addresses with a time to live, least recently used out first.           *)
(***************************************************************************)
EXTENDS LruList

VARIABLES cache,     \* the entries, most recently used first
          result     \* what the last call returned

vars == <<cache, result>>

Init == cache = <<>> /\ result = Miss

Lookup(qname) ==
    /\ cache' = looked_up(cache, qname)
    /\ result' = lookup_result(cache, qname)

Insert(qname, ipv4, ttl) ==
    /\ cache' = inserted(cache, qname, ipv4, ttl)
    /\ result' = Miss

\* Out of memory: room was made for an entry that then could not be added.
InsertFails(qname) ==
    /\ ~cached(cache, qname)
    /\ cache' = evicted(cache)
    /\ result' = Miss

Tick == cache' = aged(cache) /\ UNCHANGED result

Destroy == cache' = <<>> /\ result' = Miss

Next ==
    \/ \E qname \in Name :
          \/ Lookup(qname)
          \/ InsertFails(qname)
          \/ \E ipv4 \in Ipv4, ttl \in 0 .. MaxTtl : Insert(qname, ipv4, ttl)
    \/ Tick
    \/ Destroy

Spec == Init /\ [][Next]_vars
=============================================================================
