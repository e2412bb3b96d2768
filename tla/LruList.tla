------------------------------ MODULE LruList ------------------------------
(***************************************************************************)
(* The cache as a list of entries, most recently used first: what the      *)
(* operations of dns_cache.c compute, without the pointers they use.       *)
(* Times are relative: left is how long an entry has to live, 0 once       *)
(* expire_at_ms has been reached.                                          *)
(***************************************************************************)
EXTENDS Naturals, Sequences, SequencesExt

CONSTANTS Name,        \* lower-case names, as qname_to_lower_inplace leaves them
          Ipv4,
          MaxTtl,      \* bound: the longest time to live
          capacity

ASSUME CapacityIsPositive == capacity \in Nat \ {0}
ASSUME MaxTtlIsNat == MaxTtl \in Nat

Entry == [qname : Name, ipv4 : Ipv4, left : 0 .. MaxTtl]

\* What a lookup returns; HIT comes with an address.
Miss == [kind |-> "MISS"]
Expired == [kind |-> "EXPIRED"]
Hit(ipv4) == [kind |-> "HIT", ipv4 |-> ipv4]

cached(list, qname) == \E i \in 1 .. Len(list) : list[i].qname = qname

position(list, qname) == CHOOSE i \in 1 .. Len(list) : list[i].qname = qname

entry_of(list, qname) == list[position(list, qname)]

without(list, qname) ==
    IF cached(list, qname) THEN RemoveAt(list, position(list, qname)) ELSE list

lookup_result(list, qname) ==
    IF ~cached(list, qname) THEN Miss
    ELSE IF entry_of(list, qname).left = 0 THEN Expired
    ELSE Hit(entry_of(list, qname).ipv4)

\* The list after a lookup: a hit moves to the front, an expired entry goes.
looked_up(list, qname) ==
    IF lookup_result(list, qname).kind = "HIT"
    THEN <<entry_of(list, qname)>> \o without(list, qname)
    ELSE without(list, qname)

\* The list with room for one more entry.
evicted(list) ==
    IF Len(list) >= capacity THEN SubSeq(list, 1, capacity - 1) ELSE list

\* A slip: a time to live of 0 keeps new names out, but not new addresses.
inserted_address_anyway(list, qname, ipv4, ttl) ==
    LET entry(t) == [qname |-> qname, ipv4 |-> ipv4, left |-> t]
        left == IF ttl = 0 THEN entry_of(list, qname).left ELSE ttl
    IN  IF cached(list, qname) THEN <<entry(left)>> \o without(list, qname)
        ELSE IF ttl = 0 THEN list
        ELSE <<entry(ttl)>> \o evicted(list)

\* A name that is cached is updated in place, a new one evicts the tail; a
\* time to live of 0 is not cached at all.
inserted(list, qname, ipv4, ttl) ==
    LET entry == [qname |-> qname, ipv4 |-> ipv4, left |-> ttl]
    IN  IF ttl = 0 THEN list
        ELSE IF cached(list, qname) THEN <<entry>> \o without(list, qname)
        ELSE <<entry>> \o evicted(list)

\* One unit of time later.
less(left) == IF left = 0 THEN 0 ELSE left - 1
aged(list) == [i \in 1 .. Len(list) |-> [list[i] EXCEPT !.left = less(@)]]
=============================================================================
