----------------------------- MODULE RelayProofs -----------------------------
(***************************************************************************)
(* Proofs about Relay and the id map and cache list that it uses, for any  *)
(* number of identifiers and places, any clients, names and times to live, *)
(* and whatever upstream and the network do; and about DnsCache, the       *)
(* structure that keeps the cache, for any memory and any hash function,   *)
(* up to the theorem that it implements the list that Relay uses.          *)
(***************************************************************************)
EXTENDS Relay, DnsCache, TLAPS, FiniteSetTheorems, SequenceTheorems

(***************************************************************************)
(* Numbers.                                                                *)
(***************************************************************************)

\* A set of natural numbers that is not empty has a least element.
LEMMA LeastNumber ==
    ASSUME NEW S, S \subseteq Nat, S # {}
    PROVE  \E x \in S : \A y \in S : x <= y
<1>1. PICK x \in S : \A y \in S : ~ (<<y, x>> \in OpToRel(<, Nat))
  BY NatLessThanWellFounded, WFMin
<1>2. ASSUME NEW y \in S PROVE ~ (y < x)
  <2>1. <<y, x>> \in Nat \X Nat /\ <<y, x>>[1] = y /\ <<y, x>>[2] = x
    OBVIOUS
  <2>. QED
    BY <1>1, <2>1, Zenon DEF OpToRel
<1>3. ASSUME NEW y \in S PROVE x <= y
  BY <1>2
<1>. QED
  BY <1>3

\* What Min and Max choose.
LEMMA MinChosen ==
    ASSUME NEW S, S \subseteq Nat, S # {}
    PROVE  Min(S) \in S /\ \A y \in S : Min(S) <= y
BY LeastNumber DEF Min

LEMMA MaxOfTwo ==
    ASSUME NEW a \in Nat, NEW b \in Nat
    PROVE  Max({a, b}) = IF a >= b THEN a ELSE b
<1>. DEFINE top == IF a >= b THEN a ELSE b
<1>1. top \in {a, b} /\ \A y \in {a, b} : top >= y
  OBVIOUS
<1>2. \A x \in {a, b} : (\A y \in {a, b} : x >= y) => x = top
  OBVIOUS
<1>. QED
  BY <1>1, <1>2 DEF Max

\* A remainder is determined by its size.
LEMMA Remainder ==
    ASSUME NEW n \in Nat \ {0}, NEW x \in 0 .. 2 * n - 1
    PROVE  x % n = IF x < n THEN x ELSE x - n
OBVIOUS

(***************************************************************************)
(* The circle of identifiers.                                              *)
(***************************************************************************)

\* Moving over at most a whole circle wraps around once at most.
LEMMA Steps ==
    ASSUME NEW id \in UpstreamId, NEW k \in 0 .. MaxId
    PROVE  /\ stepped(id, k) = IF id + k <= MaxId THEN id + k
                               ELSE id + k - MaxId
           /\ stepped(id, k) \in UpstreamId
<1>. DEFINE x == id - 1 + k
<1>1. MaxId \in Nat \ {0}
  BY MaxIdIsPositive
<1>2. x \in 0 .. 2 * MaxId - 1
  BY <1>1 DEF UpstreamId
<1>3. x % MaxId = IF x < MaxId THEN x ELSE x - MaxId
  <2>. HIDE DEF x
  <2>. QED
    BY <1>1, <1>2, Remainder
<1>4. stepped(id, k) = (IF x < MaxId THEN x ELSE x - MaxId) + 1
  BY <1>3 DEF stepped
<1>. QED
  BY <1>1, <1>2, <1>4 DEF UpstreamId

LEMMA StepsAdd ==
    ASSUME NEW id \in UpstreamId, NEW j \in 0 .. MaxId, NEW k \in 0 .. MaxId,
           j + k <= MaxId
    PROVE  stepped(stepped(id, j), k) = stepped(id, j + k)
<1>1. MaxId \in Nat \ {0} /\ j + k \in 0 .. MaxId
  BY MaxIdIsPositive
<1>2. stepped(id, j) \in UpstreamId
  BY Steps
<1>. DEFINE a == stepped(id, j)
<1>3. stepped(a, k) = IF a + k <= MaxId THEN a + k ELSE a + k - MaxId
  BY <1>2, Steps
<1>4. a = IF id + j <= MaxId THEN id + j ELSE id + j - MaxId
  BY Steps
<1>5. stepped(id, j + k) = IF id + (j + k) <= MaxId THEN id + (j + k)
                           ELSE id + (j + k) - MaxId
  BY <1>1, Steps
<1>. QED
  BY <1>1, <1>2, <1>3, <1>4, <1>5 DEF UpstreamId

LEMMA StepsDiffer ==
    ASSUME NEW id \in UpstreamId, NEW j \in 0 .. MaxId - 1,
           NEW k \in 0 .. MaxId - 1, stepped(id, j) = stepped(id, k)
    PROVE  j = k
<1>1. MaxId \in Nat \ {0} /\ j \in 0 .. MaxId /\ k \in 0 .. MaxId
  BY MaxIdIsPositive
<1>2. /\ stepped(id, j) = IF id + j <= MaxId THEN id + j ELSE id + j - MaxId
      /\ stepped(id, k) = IF id + k <= MaxId THEN id + k ELSE id + k - MaxId
  BY <1>1, Steps
<1>3. id \in 1 .. MaxId
  BY DEF UpstreamId
<1>. DEFINE around(i) == IF id + i <= MaxId THEN id + i ELSE id + i - MaxId
<1>4. around(j) = around(k)
  BY <1>2
<1>5. j \in Int /\ k \in Int /\ 0 <= j /\ j < MaxId /\ 0 <= k /\ k < MaxId
  BY <1>1
<1>. QED
  BY <1>1, <1>3, <1>4, <1>5

\* An arc of n steps has n identifiers.
LEMMA ArcSize ==
    ASSUME NEW id \in UpstreamId, NEW n \in 0 .. MaxId
    PROVE  /\ Arc(id, n) \subseteq UpstreamId
           /\ IsFiniteSet(Arc(id, n))
           /\ Cardinality(Arc(id, n)) = n
<1>. DEFINE f == [i \in 1 .. n |-> stepped(id, i - 1)]
<1>1. MaxId \in Nat \ {0}
  BY MaxIdIsPositive
<1>2. \A i \in 0 .. n - 1 : i \in 0 .. MaxId - 1 /\ i \in 0 .. MaxId
  BY <1>1
<1>3. Arc(id, n) \subseteq UpstreamId
  BY <1>2, Steps DEF Arc
<1>4. f \in Bijection(1 .. n, Arc(id, n))
  <2>1. \A i \in 1 .. n : i - 1 \in 0 .. n - 1
    BY <1>1
  <2>2. f \in [1 .. n -> Arc(id, n)]
    BY <2>1 DEF Arc
  <2>3. \A i, j \in 1 .. n : f[i] = f[j] => i = j
    <3>. SUFFICES ASSUME NEW i \in 1 .. n, NEW j \in 1 .. n, f[i] = f[j]
                  PROVE  i = j
      OBVIOUS
    <3>1. i - 1 \in 0 .. MaxId - 1 /\ j - 1 \in 0 .. MaxId - 1
      BY <1>2, <2>1
    <3>2. stepped(id, i - 1) = stepped(id, j - 1)
      OBVIOUS
    <3>3. i - 1 = j - 1
      BY <3>1, <3>2, StepsDiffer
    <3>. QED
      BY <3>3
  <2>4. ASSUME NEW x \in Arc(id, n) PROVE \E i \in 1 .. n : f[i] = x
    <3>1. PICK i \in 0 .. n - 1 : x = stepped(id, i)
      BY DEF Arc
    <3>2. i + 1 \in 1 .. n /\ i + 1 - 1 = i
      BY <1>1
    <3>3. f[i + 1] = x
      BY <3>1, <3>2
    <3>. QED
      BY <3>2, <3>3
  <2>. QED
    BY <2>2, <2>3, <2>4 DEF Bijection, Injection, Surjection, IsInjective
<1>5. IsFiniteSet(1 .. n) /\ Cardinality(1 .. n) = n
  BY <1>1, FS_Interval
<1>6. ExistsBijection(1 .. n, Arc(id, n))
  BY <1>4 DEF ExistsBijection
<1>. QED
  BY <1>3, <1>5, <1>6, FS_Bijection

\* An arc is its first k identifiers, the next one, and the rest.
LEMMA ArcSplit ==
    ASSUME NEW id \in UpstreamId, NEW n \in 0 .. MaxId, NEW k \in 0 .. n - 1
    PROVE  /\ Arc(id, n) = Arc(id, k) \cup {stepped(id, k)}
                             \cup Arc(stepped(id, k + 1), n - k - 1)
           /\ stepped(id, k) \notin Arc(stepped(id, k + 1), n - k - 1)
           /\ Arc(id, k) \cap Arc(stepped(id, k + 1), n - k - 1) = {}
<1>. DEFINE a    == stepped(id, k + 1)
            rest == Arc(a, n - k - 1)
<1>1. MaxId \in Nat \ {0} /\ k \in Nat /\ n \in Nat /\ k + 1 \in 0 .. MaxId
  BY MaxIdIsPositive
<1>2. \A i \in 0 .. n - k - 2 : stepped(a, i) = stepped(id, k + 1 + i)
  BY <1>1, StepsAdd
<1>3. \A i \in 0 .. n - k - 2 :
         k + 1 + i \in 0 .. n - 1 /\ k + 1 + i \in 0 .. MaxId - 1
  BY <1>1
<1>4. Arc(id, n) \subseteq Arc(id, k) \cup {stepped(id, k)} \cup rest
  <2>. SUFFICES ASSUME NEW i \in 0 .. n - 1,
                       i \notin 0 .. k - 1, i # k
                PROVE  stepped(id, i) \in rest
    BY DEF Arc
  <2>1. i - k - 1 \in 0 .. n - k - 2 /\ k + 1 + (i - k - 1) = i
    BY <1>1
  <2>2. stepped(a, i - k - 1) = stepped(id, i)
    BY <1>2, <2>1
  <2>3. i - k - 1 \in 0 .. (n - k - 1) - 1
    BY <1>1, <2>1
  <2>. QED
    BY <2>2, <2>3 DEF Arc
<1>5. \A x \in rest : \E i \in 0 .. n - k - 2 : x = stepped(id, k + 1 + i)
  <2>. SUFFICES ASSUME NEW x \in rest
                PROVE  \E i \in 0 .. n - k - 2 : x = stepped(id, k + 1 + i)
    OBVIOUS
  <2>1. PICK i \in 0 .. (n - k - 1) - 1 : x = stepped(a, i)
    BY DEF Arc
  <2>2. i \in 0 .. n - k - 2
    BY <1>1
  <2>. QED
    BY <1>2, <2>1, <2>2
<1>6. rest \subseteq Arc(id, n)
  BY <1>3, <1>5 DEF Arc
<1>7. Arc(id, k) \subseteq Arc(id, n) /\ stepped(id, k) \in Arc(id, n)
  BY <1>1 DEF Arc
<1>8. ASSUME NEW j \in 0 .. k, stepped(id, j) \in rest PROVE FALSE
  <2>1. PICK i \in 0 .. n - k - 2 : stepped(id, j) = stepped(id, k + 1 + i)
    BY <1>5, <1>8
  <2>2. j \in 0 .. MaxId - 1 /\ j # k + 1 + i
    BY <1>1
  <2>. QED
    BY <1>3, <2>1, <2>2, StepsDiffer
<1>9. stepped(id, k) \notin rest
  BY <1>1, <1>8
<1>10. Arc(id, k) \cap rest = {}
  <2>. SUFFICES ASSUME NEW j \in 0 .. k - 1, stepped(id, j) \in rest
                PROVE  FALSE
    BY DEF Arc
  <2>1. j \in 0 .. k
    BY <1>1
  <2>. QED
    BY <1>8, <2>1
<1>. QED
  BY <1>4, <1>6, <1>7, <1>9, <1>10

(***************************************************************************)
(* The id map.                                                             *)
(***************************************************************************)
MapType == [entries : Waiting, count : Nat, next_id : UpstreamId]

MapOK(m) == m \in MapType /\ m.count = Cardinality(DOMAIN m.entries)

\* What the fields of a map are.
LEMMA MapFields ==
    ASSUME NEW m \in MapType
    PROVE  /\ DOMAIN m.entries \subseteq UpstreamId
           /\ IsFiniteSet(DOMAIN m.entries)
           /\ Cardinality(DOMAIN m.entries) \in Nat
           /\ m.entries \in [DOMAIN m.entries -> Pending]
           /\ \A id \in DOMAIN m.entries : m.entries[id] \in Pending
           /\ m.count \in Nat
           /\ m.next_id \in UpstreamId
<1>1. PICK ids \in SUBSET UpstreamId : m.entries \in [ids -> Pending]
  BY DEF MapType, Waiting
<1>2. IsFiniteSet(UpstreamId)
  BY MaxIdIsPositive, FS_Interval DEF UpstreamId
<1>3. DOMAIN m.entries = ids
  BY <1>1
<1>4. IsFiniteSet(ids)
  BY <1>1, <1>2, FS_Subset
<1>5. Cardinality(ids) \in Nat
  BY <1>4, FS_CardinalityType
<1>. QED
  BY <1>1, <1>3, <1>4, <1>5 DEF MapType

\* A function on some identifiers whose values are entries.
LEMMA MakeWaiting ==
    ASSUME NEW ids, ids \subseteq UpstreamId, NEW f \in [ids -> Pending]
    PROVE  f \in Waiting
BY DEF Waiting

\* alloc_upstream_id ends: when the map is not full one identifier is free,
\* and it passes over none that is.
LEMMA Allocated ==
    ASSUME NEW m, MapOK(m), m.count < MaxId
    PROVE  /\ tries(m) \in 0 .. MaxId - 1
           /\ alloc_upstream_id(m) \in UpstreamId
           /\ ~id_in_use(m, alloc_upstream_id(m))
           /\ Arc(m.next_id, tries(m)) \subseteq DOMAIN m.entries
<1>. DEFINE free == {k \in 0 .. MaxId - 1 : ~id_in_use(m, stepped(m.next_id, k))}
<1>1. MaxId \in Nat \ {0}
  BY MaxIdIsPositive
<1>2. /\ m.next_id \in UpstreamId
      /\ IsFiniteSet(DOMAIN m.entries)
      /\ m.count = Cardinality(DOMAIN m.entries)
  BY MapFields DEF MapOK
<1>3. free # {}
  <2>. SUFFICES ASSUME free = {} PROVE FALSE
    OBVIOUS
  <2>1. \A k \in 0 .. MaxId - 1 : stepped(m.next_id, k) \in DOMAIN m.entries
    BY DEF id_in_use
  <2>2. Arc(m.next_id, MaxId) \subseteq DOMAIN m.entries
    BY <2>1 DEF Arc
  <2>3. Cardinality(Arc(m.next_id, MaxId)) = MaxId
    BY <1>1, <1>2, ArcSize
  <2>4. Cardinality(Arc(m.next_id, MaxId)) <= Cardinality(DOMAIN m.entries)
    BY <1>2, <2>2, FS_Subset
  <2>5. m.count \in Nat
    BY MapFields DEF MapOK
  <2>. QED
    BY <1>1, <1>2, <2>3, <2>4, <2>5
<1>4. free \subseteq Nat
  BY <1>1
<1>5. tries(m) \in free /\ \A k \in free : tries(m) <= k
  <2>1. Min(free) \in free /\ \A k \in free : Min(free) <= k
    BY <1>3, <1>4, MinChosen
  <2>. QED
    BY <2>1 DEF tries
<1>6. tries(m) \in 0 .. MaxId - 1 /\ tries(m) \in 0 .. MaxId
  BY <1>1, <1>5
<1>7. alloc_upstream_id(m) \in UpstreamId
  BY <1>2, <1>6, Steps DEF alloc_upstream_id
<1>8. ~id_in_use(m, alloc_upstream_id(m))
  BY <1>5 DEF alloc_upstream_id
<1>9. ASSUME NEW k \in 0 .. tries(m) - 1
      PROVE  stepped(m.next_id, k) \in DOMAIN m.entries
  <2>1. k \in 0 .. MaxId - 1 /\ ~(tries(m) <= k)
    BY <1>1, <1>6
  <2>2. k \notin free
    BY <1>5, <2>1
  <2>. QED
    BY <2>1, <2>2 DEF id_in_use
<1>10. Arc(m.next_id, tries(m)) \subseteq DOMAIN m.entries
  BY <1>9 DEF Arc
<1>. QED
  BY <1>6, <1>7, <1>8, <1>10

\* id_map_insert adds one entry and touches no other.
LEMMA MapInserted ==
    ASSUME NEW m, MapOK(m), m.count < MAX_PENDING, NEW e \in Pending,
           NEW n, n = id_map_insert(m, e), NEW id, id = alloc_upstream_id(m)
    PROVE  /\ MapOK(n)
           /\ n.count = m.count + 1
           /\ id \notin DOMAIN m.entries
           /\ DOMAIN n.entries = DOMAIN m.entries \cup {id}
           /\ n.entries[id] = e
           /\ \A i \in DOMAIN m.entries : n.entries[i] = m.entries[i]
           /\ n.next_id = stepped(m.next_id, tries(m) + 1)
<1>1. MAX_PENDING \in Nat /\ MaxId \in Nat \ {0} /\ MAX_PENDING < MaxId
  BY PendingFits, MaxIdIsPositive
<1>2. /\ DOMAIN m.entries \subseteq UpstreamId
      /\ IsFiniteSet(DOMAIN m.entries)
      /\ \A i \in DOMAIN m.entries : m.entries[i] \in Pending
      /\ m.next_id \in UpstreamId
      /\ m.count \in Nat
      /\ m.count = Cardinality(DOMAIN m.entries)
  BY MapFields DEF MapOK
<1>3. m.count < MaxId
  BY <1>1, <1>2
<1>4. /\ tries(m) \in 0 .. MaxId - 1
      /\ id \in UpstreamId
      /\ id \notin DOMAIN m.entries
  BY <1>3, Allocated DEF id_in_use
<1>5. n = [entries |-> [i \in DOMAIN m.entries \cup {id} |->
                          IF i = id THEN e ELSE m.entries[i]],
           count   |-> m.count + 1,
           next_id |-> stepped(m.next_id, tries(m) + 1)]
  BY DEF id_map_insert, chained
<1>6. /\ DOMAIN n.entries = DOMAIN m.entries \cup {id}
      /\ n.entries[id] = e
      /\ \A i \in DOMAIN m.entries : n.entries[i] = m.entries[i]
  BY <1>4, <1>5
<1>7. n.entries \in Waiting
  <2>1. n.entries \in [DOMAIN m.entries \cup {id} -> Pending]
    BY <1>2, <1>5
  <2>2. DOMAIN m.entries \cup {id} \subseteq UpstreamId
    BY <1>2, <1>4
  <2>. QED
    BY <2>1, <2>2, MakeWaiting
<1>8. stepped(m.next_id, tries(m) + 1) \in UpstreamId
  <2>1. tries(m) + 1 \in 0 .. MaxId
    BY <1>1, <1>4
  <2>. QED
    BY <1>2, <2>1, Steps
<1>9. n \in MapType
  BY <1>2, <1>5, <1>7, <1>8 DEF MapType
<1>10. n.count = Cardinality(DOMAIN n.entries)
  BY <1>2, <1>4, <1>5, <1>6, FS_AddElement
<1>. QED
  BY <1>4, <1>5, <1>6, <1>9, <1>10 DEF MapOK

\* Removing some entries, and counting them, leaves a proper map.
LEMMA MapRemoved ==
    ASSUME NEW m, MapOK(m), NEW ids, ids \subseteq DOMAIN m.entries,
           NEW n,
           n = [entries |-> Restrict(m.entries, DOMAIN m.entries \ ids),
                count   |-> m.count - Cardinality(ids),
                next_id |-> m.next_id]
    PROVE  /\ MapOK(n)
           /\ n.count <= m.count
           /\ DOMAIN n.entries = DOMAIN m.entries \ ids
           /\ \A i \in DOMAIN n.entries : n.entries[i] = m.entries[i]
           /\ n.next_id = m.next_id
<1>1. /\ DOMAIN m.entries \subseteq UpstreamId
      /\ IsFiniteSet(DOMAIN m.entries)
      /\ \A i \in DOMAIN m.entries : m.entries[i] \in Pending
      /\ m.next_id \in UpstreamId
      /\ m.count \in Nat
      /\ m.count = Cardinality(DOMAIN m.entries)
      /\ m \in MapType
  BY MapFields DEF MapOK
<1>2. /\ n.entries = Restrict(m.entries, DOMAIN m.entries \ ids)
      /\ n.count = m.count - Cardinality(ids)
      /\ n.next_id = m.next_id
  OBVIOUS
<1>3. IsFiniteSet(ids) /\ Cardinality(ids) \in Nat
  BY <1>1, FS_Subset, FS_CardinalityType
<1>4. /\ Cardinality(DOMAIN m.entries \ ids)
            = Cardinality(DOMAIN m.entries) - Cardinality(ids)
      /\ IsFiniteSet(DOMAIN m.entries \ ids)
  <2>. DEFINE D == DOMAIN m.entries
  <2>1. D \cap ids = ids
    OBVIOUS
  <2>2. IsFiniteSet(D)
    BY <1>1
  <2>. HIDE DEF D
  <2>3. /\ IsFiniteSet(D \ ids)
        /\ Cardinality(D \ ids) = Cardinality(D) - Cardinality(D \cap ids)
    BY <2>2, FS_Difference
  <2>. QED
    BY <2>1, <2>3 DEF D
<1>5. Cardinality(DOMAIN m.entries \ ids) \in Nat
  BY <1>4, FS_CardinalityType
<1>6. n.entries = [i \in DOMAIN m.entries \ ids |-> m.entries[i]]
  BY <1>2 DEF Restrict
<1>7. n.entries \in Waiting
  <2>1. \A i \in DOMAIN m.entries \ ids : m.entries[i] \in Pending
    BY <1>1
  <2>2. n.entries \in [DOMAIN m.entries \ ids -> Pending]
    BY <1>6, <2>1
  <2>3. DOMAIN m.entries \ ids \subseteq UpstreamId
    BY <1>1
  <2>. QED
    BY <2>2, <2>3, MakeWaiting
<1>8. /\ n.count = m.count - Cardinality(ids)
      /\ n.next_id = m.next_id
  BY <1>2
<1>9. n.count \in Nat /\ n.count <= m.count
  BY <1>1, <1>3, <1>4, <1>5, <1>8
<1>10. n \in MapType
  BY <1>1, <1>2, <1>7, <1>8, <1>9 DEF MapType
<1>11. /\ DOMAIN n.entries = DOMAIN m.entries \ ids
       /\ \A i \in DOMAIN n.entries : n.entries[i] = m.entries[i]
  BY <1>6
<1>12. n.count = Cardinality(DOMAIN n.entries)
  BY <1>1, <1>4, <1>8, <1>11
<1>. QED
  BY <1>8, <1>9, <1>10, <1>11, <1>12 DEF MapOK

\* id_map_expire, id_map_take, and the passing of time.
LEMMA MapExpired ==
    ASSUME NEW m, MapOK(m), NEW n, n = id_map_expire(m)
    PROVE  /\ MapOK(n)
           /\ n.count <= m.count
           /\ DOMAIN n.entries \subseteq DOMAIN m.entries
           /\ \A i \in DOMAIN n.entries :
                 n.entries[i] = m.entries[i] /\ n.entries[i].left > 0
           /\ n.next_id = m.next_id
<1>1. dead(m) \subseteq DOMAIN m.entries
  BY DEF dead
<1>2. n = [entries |-> Restrict(m.entries, DOMAIN m.entries \ dead(m)),
           count   |-> m.count - Cardinality(dead(m)),
           next_id |-> m.next_id]
  BY DEF id_map_expire, MapOK, MapType
<1>3. /\ MapOK(n)
      /\ n.count <= m.count
      /\ DOMAIN n.entries = DOMAIN m.entries \ dead(m)
      /\ \A i \in DOMAIN n.entries : n.entries[i] = m.entries[i]
      /\ n.next_id = m.next_id
  BY <1>1, <1>2, MapRemoved
<1>4. \A i \in DOMAIN m.entries : m.entries[i].left \in Nat
  <2>1. \A i \in DOMAIN m.entries : m.entries[i] \in Pending
    BY MapFields DEF MapOK
  <2>. QED
    BY <2>1, TimeoutIsPositive DEF Pending
<1>5. \A i \in DOMAIN m.entries \ dead(m) : m.entries[i].left > 0
  BY <1>4 DEF dead
<1>6. DOMAIN n.entries \subseteq DOMAIN m.entries
  BY <1>3
<1>7. ASSUME NEW i \in DOMAIN n.entries
      PROVE  n.entries[i] = m.entries[i] /\ n.entries[i].left > 0
  <2>1. i \in DOMAIN m.entries \ dead(m) /\ n.entries[i] = m.entries[i]
    BY <1>3
  <2>. QED
    BY <1>5, <2>1
<1>. QED
  BY <1>3, <1>6, <1>7

LEMMA MapTaken ==
    ASSUME NEW m, MapOK(m), NEW id, NEW n, n = id_map_take(m, id)
    PROVE  /\ MapOK(n)
           /\ n.count <= m.count
           /\ DOMAIN n.entries = DOMAIN m.entries \ {id}
           /\ \A i \in DOMAIN n.entries : n.entries[i] = m.entries[i]
           /\ n.next_id = m.next_id
<1>1. CASE ~id_in_use(m, id)
  <2>1. n = m /\ id \notin DOMAIN m.entries
    BY <1>1 DEF id_map_take, id_in_use
  <2>2. m.count \in Nat
    BY MapFields DEF MapOK
  <2>. QED
    BY <2>1, <2>2
<1>2. CASE id_in_use(m, id)
  <2>1. {id} \subseteq DOMAIN m.entries
    BY <1>2 DEF id_in_use
  <2>2. Cardinality({id}) = 1
    BY FS_Singleton
  <2>3. n = [entries |-> Restrict(m.entries, DOMAIN m.entries \ {id}),
             count   |-> m.count - Cardinality({id}),
             next_id |-> m.next_id]
    BY <1>2, <2>2 DEF id_map_take, MapOK, MapType
  <2>4. /\ MapOK(n)
        /\ n.count <= m.count
        /\ DOMAIN n.entries = DOMAIN m.entries \ {id}
        /\ \A i \in DOMAIN n.entries : n.entries[i] = m.entries[i]
        /\ n.next_id = m.next_id
    BY <2>1, <2>3, MapRemoved
  <2>. QED
    BY <2>4
<1>. QED
  BY <1>1, <1>2

LEMMA MapAged ==
    ASSUME NEW m, MapOK(m), NEW n, n = later(m)
    PROVE  /\ MapOK(n)
           /\ n.count = m.count
           /\ DOMAIN n.entries = DOMAIN m.entries
           /\ \A i \in DOMAIN n.entries :
                 /\ n.entries[i].nr = m.entries[i].nr
                 /\ n.entries[i].query = m.entries[i].query
           /\ n.next_id = m.next_id
<1>. DEFINE old(i) == m.entries[i]
            new(i) == [old(i) EXCEPT !.left = less_time(@)]
<1>1. /\ m \in MapType
      /\ DOMAIN m.entries \subseteq UpstreamId
      /\ \A i \in DOMAIN m.entries : old(i) \in Pending
      /\ m.count = Cardinality(DOMAIN m.entries)
  BY MapFields DEF MapOK
<1>2. \A i \in DOMAIN m.entries :
         /\ new(i) \in Pending
         /\ new(i).nr = old(i).nr
         /\ new(i).query = old(i).query
  BY <1>1, TimeoutIsPositive DEF Pending, less_time
<1>4. /\ n.entries = [i \in DOMAIN m.entries |-> new(i)]
      /\ n.count = m.count
      /\ n.next_id = m.next_id
  BY <1>1 DEF later, MapType
<1>5. n.entries \in Waiting
  <2>1. n.entries \in [DOMAIN m.entries -> Pending]
    BY <1>2, <1>4
  <2>. QED
    BY <1>1, <2>1, MakeWaiting
<1>6. n \in MapType
  BY <1>1, <1>5 DEF MapType, later
<1>. QED
  BY <1>1, <1>2, <1>4, <1>6 DEF MapOK

LEMMA MapCreated ==
    ASSUME NEW n, n = id_map_create
    PROVE  MapOK(n) /\ n.count = 0 /\ DOMAIN n.entries = {} /\ n.next_id = 1
<1>1. MaxId \in Nat \ {0}
  BY MaxIdIsPositive
<1>2. /\ n.count = 0
      /\ DOMAIN n.entries = {}
      /\ n.next_id = 1
      /\ n.entries \in [{} -> Pending]
  BY DEF id_map_create
<1>3. n.entries \in Waiting
  BY <1>2, MakeWaiting
<1>4. n \in MapType
  BY <1>1, <1>2, <1>3 DEF MapType, id_map_create, UpstreamId
<1>5. Cardinality({}) = 0
  BY FS_EmptySet
<1>. QED
  BY <1>2, <1>4, <1>5 DEF MapOK

(***************************************************************************)
(* The cache as a list.                                                    *)
(***************************************************************************)
\* Every entry of list l is one of list.
From(l, list) ==
    \A i \in 1 .. Len(l) : \E j \in 1 .. Len(list) : l[i] = list[j]

NamesOnce(list) == \A i, j \in 1 .. Len(list) :
    list[i].qname = list[j].qname => i = j

LEMMA Found ==
    ASSUME NEW list \in Seq(Entry), NEW q, cached(list, q)
    PROVE  /\ position(list, q) \in 1 .. Len(list)
           /\ entry_of(list, q) = list[position(list, q)]
           /\ entry_of(list, q).qname = q
           /\ entry_of(list, q) \in Entry
<1>1. \E i \in 1 .. Len(list) : list[i].qname = q
  BY DEF cached
<1>2. /\ position(list, q) \in 1 .. Len(list)
      /\ list[position(list, q)].qname = q
  BY <1>1 DEF position
<1>. QED
  BY <1>2, ElementOfSeq DEF entry_of

\* Taking out position k.
LEMMA TakenOut ==
    ASSUME NEW S, NEW list \in Seq(S), NEW k \in 1 .. Len(list)
    PROVE  /\ RemoveAt(list, k) \in Seq(S)
           /\ Len(RemoveAt(list, k)) = Len(list) - 1
           /\ \A i \in 1 .. Len(list) - 1 :
                 RemoveAt(list, k)[i] = IF i < k THEN list[i] ELSE list[i + 1]
<1>. DEFINE n     == Len(list)
            front == SubSeq(list, 1, k - 1)
            back  == SubSeq(list, k + 1, n)
<1>1. n \in Nat /\ k \in Nat /\ 1 <= k /\ k <= n
  BY LenProperties
<1>2. \A i \in 1 .. n : list[i] \in S
  BY ElementOfSeq
<1>3. /\ front \in Seq(S)
      /\ Len(front) = k - 1
      /\ \A i \in 1 .. k - 1 : front[i] = list[i]
  <2>1. \A i \in 1 .. k - 1 : list[i] \in S
    BY <1>1, <1>2
  <2>2. /\ front \in Seq(S)
        /\ Len(front) = IF 1 <= k - 1 THEN k - 1 - 1 + 1 ELSE 0
        /\ \A i \in 1 .. k - 1 - 1 + 1 : front[i] = list[1 + i - 1]
    BY <1>1, <2>1, SubSeqProperties
  <2>. QED
    BY <1>1, <2>2
<1>4. /\ back \in Seq(S)
      /\ Len(back) = n - k
      /\ \A i \in 1 .. n - k : back[i] = list[k + i]
  <2>1. \A i \in k + 1 .. n : list[i] \in S
    BY <1>1, <1>2
  <2>2. /\ back \in Seq(S)
        /\ Len(back) = IF k + 1 <= n THEN n - (k + 1) + 1 ELSE 0
        /\ \A i \in 1 .. n - (k + 1) + 1 : back[i] = list[k + 1 + i - 1]
    BY <1>1, <2>1, SubSeqProperties
  <2>. QED
    BY <1>1, <2>2
<1>5. RemoveAt(list, k) = front \o back
  BY DEF RemoveAt
<1>. HIDE DEF front, back
<1>6. /\ front \o back \in Seq(S)
      /\ Len(front \o back) = Len(front) + Len(back)
      /\ \A i \in 1 .. Len(front) + Len(back) :
            (front \o back)[i] = IF i <= Len(front) THEN front[i]
                                 ELSE back[i - Len(front)]
  BY <1>3, <1>4, ConcatProperties
<1>7. Len(front) + Len(back) = n - 1
  BY <1>1, <1>3, <1>4
<1>8. ASSUME NEW i \in 1 .. n - 1
      PROVE  (front \o back)[i] = IF i < k THEN list[i] ELSE list[i + 1]
  <2>1. CASE i < k
    <3>1. i \in 1 .. k - 1 /\ i <= Len(front)
      BY <1>1, <1>3, <2>1
    <3>2. front[i] = list[i]
      BY <1>3, <3>1
    <3>. QED
      BY <1>6, <1>7, <2>1, <3>1, <3>2
  <2>2. CASE ~(i < k)
    <3>1. PICK j : j = i - Len(front)
      OBVIOUS
    <3>2. j \in 1 .. n - k /\ k + j = i + 1 /\ ~(i <= Len(front))
      BY <1>1, <1>3, <2>2, <3>1
    <3>3. back[j] = list[i + 1]
      BY <1>4, <3>2
    <3>. QED
      BY <1>6, <1>7, <2>2, <3>1, <3>2, <3>3
  <2>. QED
    BY <2>1, <2>2
<1>. QED
  BY <1>5, <1>6, <1>7, <1>8

\* Putting an entry at the front.
LEMMA PutInFront ==
    ASSUME NEW S, NEW list \in Seq(S), NEW e \in S
    PROVE  /\ <<e>> \o list \in Seq(S)
           /\ Len(<<e>> \o list) = Len(list) + 1
           /\ (<<e>> \o list)[1] = e
           /\ \A i \in 1 .. Len(list) : (<<e>> \o list)[i + 1] = list[i]
<1>1. Len(list) \in Nat
  BY LenProperties
<1>2. <<e>> \in Seq(S) /\ Len(<<e>>) = 1 /\ <<e>>[1] = e
  OBVIOUS
<1>3. /\ <<e>> \o list \in Seq(S)
      /\ Len(<<e>> \o list) = Len(<<e>>) + Len(list)
      /\ \A i \in 1 .. Len(<<e>>) + Len(list) :
            (<<e>> \o list)[i] = IF i <= Len(<<e>>) THEN <<e>>[i]
                                 ELSE list[i - Len(<<e>>)]
  BY <1>2, ConcatProperties
<1>4. \A i \in 1 .. Len(list) : (<<e>> \o list)[i + 1] = list[i]
  BY <1>1, <1>2, <1>3
<1>. QED
  BY <1>1, <1>2, <1>3, <1>4

\* The list without a name: no longer, nothing new, and the name is gone if
\* it was there once.
LEMMA WithoutName ==
    ASSUME NEW list \in Seq(Entry), NEW q
    PROVE  /\ without(list, q) \in Seq(Entry)
           /\ Len(without(list, q)) <= Len(list)
           /\ cached(list, q) => Len(without(list, q)) + 1 = Len(list)
           /\ From(without(list, q), list)
           /\ NamesOnce(list) =>
                 /\ NamesOnce(without(list, q))
                 /\ ~cached(without(list, q), q)
<1>. DEFINE n == Len(list)
            w == without(list, q)
            k == position(list, q)
<1>1. n \in Nat
  BY LenProperties
<1>2. CASE ~cached(list, q)
  <2>1. w = list
    BY <1>2 DEF without
  <2>. QED
    BY <1>1, <1>2, <2>1 DEF From
<1>3. CASE cached(list, q)
  <2>1. w = RemoveAt(list, k) /\ k \in 1 .. n /\ list[k].qname = q
    BY <1>3, Found DEF without
  <2>2. /\ w \in Seq(Entry)
        /\ Len(w) = n - 1
        /\ \A i \in 1 .. n - 1 : w[i] = IF i < k THEN list[i] ELSE list[i + 1]
    BY <2>1, TakenOut
  <2>. DEFINE old(i) == IF i < k THEN i ELSE i + 1
  <2>3. \A i \in 1 .. n - 1 : old(i) \in 1 .. n /\ old(i) # k
    BY <1>1, <2>1
  <2>4. \A i \in 1 .. n - 1 : w[i] = list[old(i)]
    BY <2>2
  <2>5. \A i, j \in 1 .. n - 1 : old(i) = old(j) => i = j
    BY <1>1, <2>1
  <2>. HIDE DEF old, w, k
  <2>6. From(w, list)
    BY <2>2, <2>3, <2>4 DEF From
  <2>7. ASSUME NamesOnce(list) PROVE NamesOnce(w)
    <3>. SUFFICES ASSUME NEW i \in 1 .. n - 1, NEW j \in 1 .. n - 1,
                         w[i].qname = w[j].qname
                  PROVE  i = j
      BY <2>2 DEF NamesOnce
    <3>1. list[old(i)].qname = list[old(j)].qname
      BY <2>4
    <3>2. old(i) = old(j)
      BY <2>3, <2>7, <3>1 DEF NamesOnce
    <3>. QED
      BY <2>5, <3>2
  <2>8. ASSUME NamesOnce(list), cached(w, q) PROVE FALSE
    <3>1. PICK i \in 1 .. n - 1 : w[i].qname = q
      BY <2>2, <2>8 DEF cached
    <3>2. list[old(i)].qname = list[k].qname
      BY <2>1, <2>4, <3>1
    <3>3. old(i) = k
      BY <2>1, <2>3, <2>8, <3>2 DEF NamesOnce
    <3>. QED
      BY <2>3, <3>3
  <2>. QED
    BY <1>1, <2>2, <2>6, <2>7, <2>8 DEF w
<1>. QED
  BY <1>2, <1>3

\* A list with an entry in front whose name the rest does not hold.
LEMMA NewInFront ==
    ASSUME NEW list \in Seq(Entry), NEW e \in Entry,
           NamesOnce(list), ~cached(list, e.qname)
    PROVE  NamesOnce(<<e>> \o list)
<1>. DEFINE l == <<e>> \o list
<1>1. Len(list) \in Nat
  BY LenProperties
<1>2. /\ Len(l) = Len(list) + 1
      /\ l[1] = e
      /\ \A i \in 1 .. Len(list) : l[i + 1] = list[i]
  BY PutInFront
<1>. HIDE DEF l
<1>3. \A i \in 2 .. Len(l) : i - 1 \in 1 .. Len(list) /\ l[i] = list[i - 1]
  <2>. SUFFICES ASSUME NEW i \in 2 .. Len(l)
                PROVE  i - 1 \in 1 .. Len(list) /\ l[i] = list[i - 1]
    OBVIOUS
  <2>1. i - 1 \in 1 .. Len(list) /\ (i - 1) + 1 = i
    BY <1>1, <1>2
  <2>. QED
    BY <1>2, <2>1
<1>4. \A i \in 2 .. Len(l) : l[i].qname # e.qname
  BY <1>3 DEF cached
<1>5. ASSUME NEW i \in 1 .. Len(l), NEW j \in 1 .. Len(l),
             l[i].qname = l[j].qname
      PROVE  i = j
  <2>1. CASE i = 1
    BY <1>1, <1>2, <1>4, <1>5, <2>1
  <2>2. CASE j = 1
    BY <1>1, <1>2, <1>4, <1>5, <2>2
  <2>3. CASE i # 1 /\ j # 1
    <3>1. i \in 2 .. Len(l) /\ j \in 2 .. Len(l)
      BY <1>1, <1>2, <2>3
    <3>2. i - 1 = j - 1
      BY <1>3, <1>5, <3>1 DEF NamesOnce
    <3>. QED
      BY <1>1, <1>2, <3>2
  <2>. QED
    BY <2>1, <2>2, <2>3
<1>. QED
  BY <1>5 DEF NamesOnce, l

\* dns_cache_lookup: nothing new, no longer, no name twice.
LEMMA LookedUp ==
    ASSUME NEW list \in Seq(Entry), NEW q
    PROVE  /\ looked_up(list, q) \in Seq(Entry)
           /\ Len(looked_up(list, q)) <= Len(list)
           /\ From(looked_up(list, q), list)
           /\ NamesOnce(list) => NamesOnce(looked_up(list, q))
<1>. DEFINE w == without(list, q)
            e == entry_of(list, q)
<1>1. Len(list) \in Nat
  BY LenProperties
<1>2. /\ w \in Seq(Entry)
      /\ Len(w) <= Len(list)
      /\ From(w, list)
      /\ NamesOnce(list) => NamesOnce(w) /\ ~cached(w, q)
  BY WithoutName
<1>3. CASE lookup_result(list, q).kind = "HIT"
  <2>1. cached(list, q)
    BY <1>3 DEF lookup_result, Miss
  <2>2. e \in Entry /\ e.qname = q /\ e = list[position(list, q)]
        /\ position(list, q) \in 1 .. Len(list)
    BY <2>1, Found
  <2>3. Len(w) + 1 = Len(list)
    BY <2>1, WithoutName
  <2>4. looked_up(list, q) = <<e>> \o w
    BY <1>3 DEF looked_up
  <2>. HIDE DEF w, e
  <2>5. /\ <<e>> \o w \in Seq(Entry)
        /\ Len(<<e>> \o w) = Len(w) + 1
        /\ (<<e>> \o w)[1] = e
        /\ \A i \in 1 .. Len(w) : (<<e>> \o w)[i + 1] = w[i]
    BY <1>2, <2>2, PutInFront
  <2>6. From(<<e>> \o w, list)
    <3>. SUFFICES ASSUME NEW i \in 1 .. Len(w) + 1
                  PROVE  \E j \in 1 .. Len(list) : (<<e>> \o w)[i] = list[j]
      BY <2>5 DEF From
    <3>1. CASE i = 1
      BY <2>2, <2>5, <3>1
    <3>2. CASE i # 1
      <4>1. i - 1 \in 1 .. Len(w) /\ (i - 1) + 1 = i
        BY <1>1, <2>3, <3>2
      <4>2. (<<e>> \o w)[i] = w[i - 1]
        BY <2>5, <4>1
      <4>. QED
        BY <1>2, <4>1, <4>2 DEF From
    <3>. QED
      BY <3>1, <3>2
  <2>7. NamesOnce(list) => NamesOnce(<<e>> \o w)
    BY <1>2, <2>2, NewInFront
  <2>. QED
    BY <1>1, <2>3, <2>4, <2>5, <2>6, <2>7
<1>4. CASE lookup_result(list, q).kind # "HIT"
  BY <1>2, <1>4 DEF looked_up
<1>. QED
  BY <1>3, <1>4

LEMMA Evicted ==
    ASSUME NEW list \in Seq(Entry), Len(list) <= capacity
    PROVE  /\ evicted(list) \in Seq(Entry)
           /\ Len(evicted(list)) <= capacity - 1
           /\ Len(evicted(list)) <= Len(list)
           /\ \A i \in 1 .. Len(evicted(list)) : evicted(list)[i] = list[i]
<1>1. capacity \in Nat \ {0} /\ Len(list) \in Nat
  BY CapacityIsPositive, LenProperties
<1>2. CASE Len(list) >= capacity
  <2>1. \A i \in 1 .. capacity - 1 : list[i] \in Entry
    BY <1>1, <1>2, ElementOfSeq
  <2>2. /\ SubSeq(list, 1, capacity - 1) \in Seq(Entry)
        /\ Len(SubSeq(list, 1, capacity - 1))
              = IF 1 <= capacity - 1 THEN capacity - 1 - 1 + 1 ELSE 0
        /\ \A i \in 1 .. capacity - 1 - 1 + 1 :
              SubSeq(list, 1, capacity - 1)[i] = list[1 + i - 1]
    BY <1>1, <2>1, SubSeqProperties
  <2>3. evicted(list) = SubSeq(list, 1, capacity - 1)
    BY <1>2 DEF evicted
  <2>4. Len(evicted(list)) = capacity - 1
    BY <1>1, <2>2, <2>3
  <2>5. \A i \in 1 .. capacity - 1 : evicted(list)[i] = list[i]
    BY <1>1, <2>2, <2>3
  <2>. QED
    BY <1>1, <1>2, <2>2, <2>3, <2>4, <2>5
<1>3. CASE Len(list) < capacity
  <2>1. evicted(list) = list
    BY <1>1, <1>3 DEF evicted
  <2>. QED
    BY <1>1, <1>3, <2>1
<1>. QED
  BY <1>1, <1>2, <1>3

\* dns_cache_insert: the list stays within its capacity, no name comes twice,
\* and what is new is the entry inserted.
LEMMA CacheInserted ==
    ASSUME NEW list \in Seq(Entry), Len(list) <= capacity, NEW q \in Name,
           NEW ipv4 \in Ipv4, NEW ttl \in 0 .. MaxTtl,
           NEW l, l = inserted(list, q, ipv4, ttl),
           NEW e, e = [qname |-> q, ipv4 |-> ipv4, left |-> ttl]
    PROVE  /\ l \in Seq(Entry)
           /\ Len(l) <= capacity
           /\ \A i \in 1 .. Len(l) :
                 l[i] = e \/ \E j \in 1 .. Len(list) : l[i] = list[j]
           /\ NamesOnce(list) => NamesOnce(l)
<1>1. /\ capacity \in Nat \ {0} /\ Len(list) \in Nat
      /\ e \in Entry /\ e.qname = q
  BY CapacityIsPositive, LenProperties DEF Entry
<1>2. ASSUME NEW r \in Seq(Entry), Len(r) + 1 <= capacity, From(r, list),
             l = <<e>> \o r,
             NamesOnce(list) => NamesOnce(r) /\ ~cached(r, q)
      PROVE  /\ l \in Seq(Entry)
             /\ Len(l) <= capacity
             /\ \A i \in 1 .. Len(l) :
                   l[i] = e \/ \E j \in 1 .. Len(list) : l[i] = list[j]
             /\ NamesOnce(list) => NamesOnce(l)
  <2>1. /\ l \in Seq(Entry)
        /\ Len(l) = Len(r) + 1
        /\ l[1] = e
        /\ \A i \in 1 .. Len(r) : l[i + 1] = r[i]
    BY <1>1, <1>2, PutInFront
  <2>2. Len(r) \in Nat
    BY LenProperties
  <2>3. ASSUME NEW i \in 1 .. Len(l), i # 1
        PROVE  \E j \in 1 .. Len(list) : l[i] = list[j]
    <3>1. i - 1 \in 1 .. Len(r) /\ (i - 1) + 1 = i
      BY <2>1, <2>2, <2>3
    <3>2. l[i] = r[i - 1]
      BY <2>1, <3>1
    <3>. QED
      BY <1>2, <3>1, <3>2 DEF From
  <2>4. NamesOnce(list) => NamesOnce(l)
    BY <1>1, <1>2, NewInFront
  <2>. QED
    BY <1>2, <2>1, <2>2, <2>3, <2>4
<1>3. CASE ttl = 0
  BY <1>1, <1>3 DEF inserted
<1>4. CASE ttl # 0 /\ cached(list, q)
  <2>. DEFINE w == without(list, q)
  <2>1. l = <<e>> \o w
    BY <1>4 DEF inserted
  <2>2. /\ w \in Seq(Entry)
        /\ Len(w) + 1 = Len(list)
        /\ From(w, list)
        /\ NamesOnce(list) => NamesOnce(w) /\ ~cached(w, q)
    BY <1>4, WithoutName
  <2>. QED
    BY <1>1, <1>2, <2>1, <2>2
<1>5. CASE ttl # 0 /\ ~cached(list, q)
  <2>. DEFINE r == evicted(list)
  <2>1. l = <<e>> \o r
    BY <1>5 DEF inserted
  <2>2. /\ r \in Seq(Entry)
        /\ Len(r) <= capacity - 1
        /\ Len(r) <= Len(list)
        /\ \A i \in 1 .. Len(r) : r[i] = list[i]
    BY Evicted
  <2>3. Len(r) \in Nat
    BY <2>2, LenProperties
  <2>. HIDE DEF r
  <2>4. From(r, list)
    BY <1>1, <2>2, <2>3 DEF From
  <2>5. NamesOnce(list) => NamesOnce(r)
    BY <1>1, <2>2, <2>3 DEF NamesOnce
  <2>6. ~cached(r, q)
    BY <1>1, <1>5, <2>2, <2>3 DEF cached
  <2>7. Len(r) + 1 <= capacity
    BY <1>1, <2>2, <2>3
  <2>. QED
    BY <1>2, <2>1, <2>2, <2>4, <2>5, <2>6, <2>7
<1>. QED
  BY <1>3, <1>4, <1>5

\* Time passes for every entry.
LEMMA CacheAged ==
    ASSUME NEW list \in Seq(Entry), NEW l, l = aged(list)
    PROVE  /\ l \in Seq(Entry)
           /\ Len(l) = Len(list)
           /\ \A i \in 1 .. Len(l) : /\ l[i].qname = list[i].qname
                                     /\ l[i].ipv4 = list[i].ipv4
                                     /\ l[i].left = less(list[i].left)
           /\ NamesOnce(list) => NamesOnce(l)
<1>. DEFINE new(i) == [list[i] EXCEPT !.left = less(@)]
<1>1. Len(list) \in Nat /\ \A i \in 1 .. Len(list) : list[i] \in Entry
  BY LenProperties, ElementOfSeq
<1>2. ASSUME NEW i \in 1 .. Len(list)
      PROVE  /\ new(i) \in Entry
             /\ new(i).qname = list[i].qname
             /\ new(i).ipv4 = list[i].ipv4
             /\ new(i).left = less(list[i].left)
  <2>1. PICK e \in Entry : e = list[i]
    BY <1>1
  <2>2. less(e.left) \in 0 .. MaxTtl
    BY MaxTtlIsNat DEF Entry, less
  <2>3. new(i) = [e EXCEPT !.left = less(e.left)]
    BY <2>1
  <2>. HIDE DEF new
  <2>. QED
    BY <2>1, <2>2, <2>3 DEF Entry
<1>3. l = [i \in 1 .. Len(list) |-> new(i)]
  BY DEF aged
<1>. HIDE DEF new
<1>4. l \in Seq(Entry) /\ Len(l) = Len(list)
  BY <1>1, <1>2, <1>3
<1>5. \A i \in 1 .. Len(list) : l[i] = new(i)
  BY <1>3
<1>. QED
  BY <1>1, <1>2, <1>4, <1>5 DEF NamesOnce

(***************************************************************************)
(* The way of next_id: it does not come back to the identifier of a query  *)
(* while an answer to that may still arrive.                               *)
(***************************************************************************)

\* NotRoundYet for any map m, after sent queries.
NotRound(u, m, sent) == \E d \in 0 .. MaxId - 1 :
    LET rest == Arc(m.next_id, MaxId - 1 - d)
    IN  /\ m.next_id = stepped(u.id, d + 1)
        /\ d - (sent - u.nr) + Cardinality(rest \cap DOMAIN m.entries)
              < MAX_PENDING

LEMMA NotRoundDef == \A u : NotRoundYet(u) <=> NotRound(u, map, Len(fate))
BY DEF NotRoundYet, NotRound

LEMMA WayIs ==
    ASSUME NEW u, NEW m, NEW sent, NEW d \in 0 .. MaxId - 1,
           m.next_id = stepped(u.id, d + 1),
           NEW used,
           used = Cardinality(Arc(m.next_id, MaxId - 1 - d) \cap DOMAIN m.entries),
           d - (sent - u.nr) + used < MAX_PENDING
    PROVE  NotRound(u, m, sent)
BY DEF NotRound

\* Entries that leave the map make the way longer, not shorter.
LEMMA WayOfFewer ==
    ASSUME NEW m, MapOK(m), NEW n, MapOK(n), n.next_id = m.next_id,
           DOMAIN n.entries \subseteq DOMAIN m.entries,
           NEW u, NEW sent \in Nat, u.nr \in Nat, NotRound(u, m, sent)
    PROVE  NotRound(u, n, sent)
<1>1. PICK d \in 0 .. MaxId - 1 :
         /\ m.next_id = stepped(u.id, d + 1)
         /\ d - (sent - u.nr)
              + Cardinality(Arc(m.next_id, MaxId - 1 - d) \cap DOMAIN m.entries)
              < MAX_PENDING
  BY DEF NotRound
<1>. DEFINE before == Arc(m.next_id, MaxId - 1 - d) \cap DOMAIN m.entries
            after  == Arc(m.next_id, MaxId - 1 - d) \cap DOMAIN n.entries
<1>2. IsFiniteSet(before) /\ after \subseteq before
  <2>1. IsFiniteSet(DOMAIN m.entries)
    BY MapFields DEF MapOK
  <2>2. IsFiniteSet(before)
    BY <2>1, FS_Subset
  <2>. QED
    BY <2>2
<1>3. /\ Cardinality(before) \in Nat
      /\ Cardinality(after) \in Nat
      /\ Cardinality(after) <= Cardinality(before)
  BY <1>2, FS_Subset, FS_CardinalityType
<1>4. d - (sent - u.nr) + Cardinality(after) < MAX_PENDING
  <2>1. d - (sent - u.nr) + Cardinality(before) < MAX_PENDING
    BY <1>1
  <2>2. d \in Nat /\ MAX_PENDING \in Nat
    BY PendingFits
  <2>. HIDE DEF before, after
  <2>. QED
    BY <1>3, <2>1, <2>2
<1>. QED
  BY <1>1, <1>4 DEF NotRound

\* A query that is alive when the next one gets its identifier does not lose
\* its own to that.
LEMMA WayGoesOn ==
    ASSUME NEW m, MapOK(m), m.count < MAX_PENDING,
           NEW n, MapOK(n), n.next_id = stepped(m.next_id, tries(m) + 1),
           DOMAIN n.entries \subseteq DOMAIN m.entries \cup {alloc_upstream_id(m)},
           NEW u, u.id \in UpstreamId,
           NEW sent \in Nat, u.nr \in Nat, NotRound(u, m, sent),
           sent + 1 - u.nr < Lifetime
    PROVE  NotRound(u, n, sent + 1) /\ u.id # alloc_upstream_id(m)
<1>. DEFINE k  == tries(m)
            id == alloc_upstream_id(m)
            D  == DOMAIN m.entries
<1>1. /\ MaxId \in Nat \ {0} /\ MAX_PENDING \in Nat /\ MAX_PENDING < MaxId
      /\ Lifetime \in Nat /\ Lifetime <= MaxId - MAX_PENDING + 1
  BY MaxIdIsPositive, PendingFits, AnswersDieInTime
<1>2. m.next_id \in UpstreamId /\ IsFiniteSet(D) /\ m.count \in Nat
  BY MapFields DEF MapOK
<1>3. m.count < MaxId
  BY <1>1, <1>2
<1>4. k \in 0 .. MaxId - 1 /\ Arc(m.next_id, k) \subseteq D
  BY <1>3, Allocated
<1>5. id = stepped(m.next_id, k)
  BY DEF alloc_upstream_id
<1>6. PICK d \in 0 .. MaxId - 1 :
         /\ m.next_id = stepped(u.id, d + 1)
         /\ d - (sent - u.nr)
              + Cardinality(Arc(m.next_id, MaxId - 1 - d) \cap D)
              < MAX_PENDING
  BY DEF NotRound
<1>. DEFINE r    == MaxId - 1 - d
            rest == Arc(m.next_id, r)
<1>7. r \in 0 .. MaxId - 1 /\ r \in 0 .. MaxId /\ d + 1 \in 0 .. MaxId
  BY <1>1
<1>8. d - (sent - u.nr) + Cardinality(rest \cap D) < MAX_PENDING
  BY <1>6
<1>. HIDE DEF k, id
\* The rest of the way is not all in use: that would be too many queries ago.
<1>9. k < r
  <2>. SUFFICES ASSUME k >= r PROVE FALSE
    BY <1>4, <1>7
  <2>1. rest \subseteq Arc(m.next_id, k)
    <3>1. \A i \in 0 .. r - 1 : i \in 0 .. k - 1
      BY <1>4, <1>7
    <3>. QED
      BY <3>1 DEF Arc
  <2>2. rest \cap D = rest
    BY <1>4, <2>1
  <2>3. Cardinality(rest) = r
    BY <1>2, <1>7, ArcSize
  <2>4. d - (sent - u.nr) + r < MAX_PENDING
    BY <1>8, <2>2, <2>3
  <2>. QED
    BY <1>1, <2>4
<1>. DEFINE rest2 == Arc(stepped(m.next_id, k + 1), r - k - 1)
            first == Arc(m.next_id, k)
<1>10. /\ rest = first \cup {id} \cup rest2
       /\ id \notin rest2
       /\ first \cap rest2 = {}
  <2>1. k \in 0 .. r - 1
    BY <1>4, <1>7, <1>9
  <2>. QED
    BY <1>2, <1>5, <1>7, <2>1, ArcSplit
<1>11. n.next_id = stepped(u.id, d + k + 2)
  <2>1. /\ d + 1 \in 0 .. MaxId /\ k + 1 \in 0 .. MaxId
        /\ (d + 1) + (k + 1) <= MaxId
        /\ (d + 1) + (k + 1) = d + k + 2
    BY <1>1, <1>4, <1>7, <1>9
  <2>2. stepped(stepped(u.id, d + 1), k + 1) = stepped(u.id, (d + 1) + (k + 1))
    BY <2>1, StepsAdd
  <2>. QED
    BY <1>6, <2>1, <2>2 DEF k
<1>12. Cardinality(rest2 \cap DOMAIN n.entries) + k <= Cardinality(rest \cap D)
       /\ Cardinality(rest2 \cap DOMAIN n.entries) \in Nat
       /\ Cardinality(rest \cap D) \in Nat
  <2>1. rest2 \cap DOMAIN n.entries \subseteq rest2 \cap D
    BY <1>10 DEF id
  <2>2. IsFiniteSet(rest2 \cap D) /\ IsFiniteSet(rest \cap D)
    BY <1>2, FS_Subset
  <2>3. /\ Cardinality(rest2 \cap DOMAIN n.entries) <= Cardinality(rest2 \cap D)
        /\ IsFiniteSet(rest2 \cap DOMAIN n.entries)
    BY <2>1, <2>2, FS_Subset
  <2>4. first \cup (rest2 \cap D) \subseteq rest \cap D
    BY <1>4, <1>10
  <2>5. Cardinality(first \cup (rest2 \cap D)) <= Cardinality(rest \cap D)
    BY <2>2, <2>4, FS_Subset
  <2>6. IsFiniteSet(first) /\ Cardinality(first) = k
    <3>1. k \in 0 .. MaxId
      BY <1>1, <1>4
    <3>. QED
      BY <1>2, <3>1, ArcSize
  <2>7. first \cap (rest2 \cap D) = {}
    BY <1>10
  <2>. DEFINE late == rest2 \cap D
  <2>8. Cardinality(first \cup late) = Cardinality(first) + Cardinality(late)
    <3>. HIDE DEF first, late
    <3>1. IsFiniteSet(first) /\ IsFiniteSet(late) /\ first \cap late = {}
      BY <2>2, <2>6, <2>7 DEF late
    <3>2. Cardinality(first \cup late)
             = Cardinality(first) + Cardinality(late) - Cardinality(first \cap late)
      BY <3>1, FS_Union
    <3>3. Cardinality(first \cap late) = 0
      BY <3>1, FS_EmptySet
    <3>4. Cardinality(first) \in Nat /\ Cardinality(late) \in Nat
      BY <3>1, FS_CardinalityType
    <3>. QED
      BY <3>2, <3>3, <3>4
  <2>9. /\ Cardinality(rest2 \cap DOMAIN n.entries) \in Nat
        /\ Cardinality(rest \cap D) \in Nat
        /\ Cardinality(late) \in Nat
    BY <2>2, <2>3, FS_CardinalityType
  <2>10. /\ k + Cardinality(late) <= Cardinality(rest \cap D)
         /\ Cardinality(rest2 \cap DOMAIN n.entries) <= Cardinality(late)
    BY <2>3, <2>5, <2>6, <2>8
  <2>. HIDE DEF late, rest, rest2, D
  <2>. QED
    BY <1>4, <2>9, <2>10
<1>13. NotRound(u, n, sent + 1)
  <2>1. PICK e \in 0 .. MaxId - 1 : e = d + k + 1
    BY <1>1, <1>4, <1>7, <1>9
  <2>2. MaxId - 1 - e = r - k - 1 /\ e + 1 = d + k + 2
    BY <1>1, <1>4, <1>7, <1>9, <2>1
  <2>3. n.next_id = stepped(u.id, e + 1)
    BY <1>11, <2>2
  <2>4. PICK after : after = Cardinality(rest2 \cap DOMAIN n.entries)
    OBVIOUS
  <2>5. Cardinality(Arc(n.next_id, MaxId - 1 - e) \cap DOMAIN n.entries) = after
    BY <2>2, <2>4 DEF k
  <2>6. PICK before : before = Cardinality(rest \cap D)
    OBVIOUS
  <2>7. /\ after \in Nat /\ before \in Nat /\ after + k <= before /\ k \in Nat
        /\ d - (sent - u.nr) + before < MAX_PENDING
    BY <1>4, <1>8, <1>12, <2>4, <2>6
  <2>8. e - (sent + 1 - u.nr) + after < MAX_PENDING
    BY <1>1, <2>1, <2>7
  <2>. HIDE DEF rest, rest2, D, r
  <2>9. e - ((sent + 1) - u.nr)
           + Cardinality(Arc(n.next_id, MaxId - 1 - e) \cap DOMAIN n.entries)
           < MAX_PENDING
    BY <2>5, <2>8
  <2>. QED
    BY <2>1, <2>3, <2>9, Zenon DEF NotRound
<1>14. u.id # id
  <2>1. /\ d + 1 + k \in 0 .. MaxId - 1 /\ d + 1 + k # 0
        /\ d + 1 \in 0 .. MaxId /\ k \in 0 .. MaxId /\ d + 1 + k <= MaxId
    BY <1>1, <1>4, <1>7, <1>9
  <2>2. id = stepped(u.id, d + 1 + k)
    BY <1>5, <1>6, <2>1, StepsAdd
  <2>3. stepped(u.id, 0) = u.id /\ 0 \in 0 .. MaxId - 1
    <3>1. 0 \in 0 .. MaxId
      BY <1>1
    <3>. QED
      BY <1>1, <3>1, Steps DEF UpstreamId
  <2>. QED
    BY <2>1, <2>2, <2>3, StepsDiffer
<1>. QED
  BY <1>13, <1>14 DEF id

\* A query that has just been sent has the whole way before it.
LEMMA WayBegins ==
    ASSUME NEW m, MapOK(m), m.count < MAX_PENDING,
           NEW n, MapOK(n), n.next_id = stepped(m.next_id, tries(m) + 1),
           DOMAIN n.entries \subseteq DOMAIN m.entries \cup {alloc_upstream_id(m)},
           NEW u, u.id = alloc_upstream_id(m), u.nr \in Nat
    PROVE  NotRound(u, n, u.nr)
<1>. DEFINE k  == tries(m)
            id == alloc_upstream_id(m)
            D  == DOMAIN m.entries
<1>1. MaxId \in Nat \ {0} /\ MAX_PENDING \in Nat /\ MAX_PENDING < MaxId
  BY MaxIdIsPositive, PendingFits
<1>2. /\ m.next_id \in UpstreamId /\ IsFiniteSet(D)
      /\ m.count \in Nat /\ m.count = Cardinality(D)
  BY MapFields DEF MapOK
<1>3. m.count < MaxId
  BY <1>1, <1>2
<1>4. k \in 0 .. MaxId - 1 /\ id \in UpstreamId
  BY <1>3, Allocated
<1>5. id = stepped(m.next_id, k)
  BY DEF alloc_upstream_id
<1>. HIDE DEF k, id
<1>6. n.next_id = stepped(id, 1)
  <2>1. k \in 0 .. MaxId /\ 1 \in 0 .. MaxId /\ k + 1 <= MaxId
    BY <1>1, <1>4
  <2>. QED
    BY <1>2, <1>5, <2>1, StepsAdd DEF k
<1>. DEFINE rest == Arc(n.next_id, MaxId - 1)
<1>7. id \notin rest
  <2>1. MaxId \in 0 .. MaxId /\ 0 \in 0 .. MaxId - 1 /\ 0 \in 0 .. MaxId
    BY <1>1
  <2>2. stepped(id, 0) \notin Arc(stepped(id, 0 + 1), MaxId - 0 - 1)
    BY <1>4, <2>1, ArcSplit
  <2>3. stepped(id, 0) = id
    BY <1>1, <1>4, <2>1, Steps DEF UpstreamId
  <2>4. 0 + 1 = 1 /\ MaxId - 0 - 1 = MaxId - 1
    BY <1>1
  <2>. QED
    BY <1>6, <2>2, <2>3, <2>4
<1>8. rest \cap DOMAIN n.entries \subseteq D
  BY <1>7 DEF id
<1>9. /\ Cardinality(rest \cap DOMAIN n.entries) <= Cardinality(D)
      /\ Cardinality(rest \cap DOMAIN n.entries) \in Nat
  BY <1>2, <1>8, FS_Subset, FS_CardinalityType
<1>10. 0 - (u.nr - u.nr) + Cardinality(rest \cap DOMAIN n.entries) < MAX_PENDING
  <2>. DEFINE a == Cardinality(rest \cap DOMAIN n.entries)
  <2>1. a \in Nat /\ a <= m.count
    BY <1>2, <1>9
  <2>. HIDE DEF a
  <2>2. 0 - (u.nr - u.nr) + a < MAX_PENDING
    BY <1>1, <1>2, <2>1
  <2>. QED
    BY <2>2 DEF a
<1>11. /\ 0 \in 0 .. MaxId - 1 /\ MaxId - 1 - 0 = MaxId - 1 /\ 0 + 1 = 1
       /\ n.next_id = stepped(u.id, 0 + 1)
  BY <1>1, <1>6 DEF id
<1>. QED
  BY <1>10, <1>11 DEF NotRound

(***************************************************************************)
(* The inductive invariant, in two halves: what the id map, the network    *)
(* and the numbers have to do with each other, and the cache.              *)
(***************************************************************************)
BoundedMap == [entries : Waiting, count : 0 .. MAX_PENDING, next_id : UpstreamId]

MapInv ==
    /\ running \in BOOLEAN
    /\ map \in BoundedMap
    /\ upstream \subseteq Asked
    /\ fate \in Seq(Fate) /\ Len(fate) <= MaxForwards
    /\ CountIsExact
    /\ NumbersPast
    /\ PendingAwaitsAnswer
    /\ AnswersFindTheirQuery
    /\ running => \A u \in upstream : NotRoundYet(u)

CacheInv ==
    /\ cache \in Seq(Entry) /\ Len(cache) <= capacity
    /\ told \in [Name \X Ipv4 -> 0 .. MaxTtl]
    /\ OneEntryPerName
    /\ CacheIsVouchedFor

LEMMA TwoHalves == IInv <=> MapInv /\ CacheInv
BY DEF IInv, MapInv, CacheInv, TypeOK, BoundedMap

LEMMA InitMapInv == Init => MapInv
<1>. SUFFICES ASSUME Init PROVE MapInv
  OBVIOUS
<1>1. /\ running = TRUE /\ map = id_map_create
      /\ upstream = {} /\ fate = <<>>
  BY DEF Init
<1>2. /\ MapOK(map) /\ map.count = 0 /\ DOMAIN map.entries = {}
  BY <1>1, MapCreated
<1>3. map \in BoundedMap
  BY <1>2, PendingFits DEF MapOK, MapType, BoundedMap
<1>4. fate \in Seq(Fate) /\ Len(fate) <= MaxForwards
  BY <1>1, MaxForwardsIsNat
<1>. QED
  BY <1>1, <1>2, <1>3, <1>4
     DEF MapInv, MapOK, CountIsExact, NumbersPast, PendingAwaitsAnswer,
         AnswersFindTheirQuery

LEMMA InitCacheInv == Init => CacheInv
<1>. SUFFICES ASSUME Init PROVE CacheInv
  OBVIOUS
<1>1. cache = <<>> /\ told = [na \in Name \X Ipv4 |-> 0]
  BY DEF Init
<1>2. cache \in Seq(Entry) /\ Len(cache) = 0
  BY <1>1
<1>3. told \in [Name \X Ipv4 -> 0 .. MaxTtl]
  BY <1>1, MaxTtlIsNat
<1>. QED
  BY <1>2, <1>3, CapacityIsPositive DEF CacheInv, OneEntryPerName, CacheIsVouchedFor

LEMMA MapFacts ==
    ASSUME MapInv
    PROVE  /\ MapOK(map) /\ map.count <= MAX_PENDING
           /\ Len(fate) \in Nat
           /\ \A i \in DOMAIN map.entries :
                 /\ map.entries[i].nr \in 1 .. Len(fate)
                 /\ map.entries[i].query \in Query
           /\ \A u \in upstream : /\ u.id \in UpstreamId
                                  /\ u.nr \in 1 .. Len(fate)
                                  /\ u.query \in Query
<1>1. /\ map \in BoundedMap /\ fate \in Seq(Fate) /\ upstream \subseteq Asked
      /\ CountIsExact /\ NumbersPast
  BY DEF MapInv
<1>2. map \in MapType /\ map.count <= MAX_PENDING
  BY <1>1, PendingFits DEF BoundedMap, MapType
<1>3. MapOK(map)
  BY <1>1, <1>2 DEF MapOK, CountIsExact
<1>4. Len(fate) \in Nat
  BY <1>1, LenProperties
<1>5. \A i \in DOMAIN map.entries : map.entries[i] \in Pending
  BY <1>2, MapFields
<1>6. \A i \in DOMAIN map.entries :
         /\ map.entries[i].nr \in 1 .. MaxForwards
         /\ map.entries[i].query \in Query
  BY <1>5 DEF Pending
<1>7. \A u \in upstream : /\ u.id \in UpstreamId
                          /\ u.nr \in 1 .. MaxForwards
                          /\ u.query \in Query
  BY <1>1 DEF Asked
<1>. QED
  BY <1>1, <1>2, <1>3, <1>4, <1>6, <1>7, MaxForwardsIsNat DEF NumbersPast

\* A step that only takes entries from the map, and says of no query that is
\* still there that it has been answered.
LEMMA MapNoLarger ==
    ASSUME MapInv, running, running' = running,
           MapOK(map'), map'.count <= map.count,
           map'.next_id = map.next_id,
           DOMAIN map'.entries \subseteq DOMAIN map.entries,
           \A i \in DOMAIN map'.entries :
              /\ map'.entries[i].nr = map.entries[i].nr
              /\ map'.entries[i].query = map.entries[i].query,
           upstream' = upstream,
           fate' \in Seq(Fate), Len(fate') = Len(fate),
           \A i \in DOMAIN map'.entries :
              fate'[map.entries[i].nr] = fate[map.entries[i].nr]
    PROVE  MapInv'
<1>1. /\ MapOK(map) /\ map.count <= MAX_PENDING
      /\ Len(fate) \in Nat
      /\ \A i \in DOMAIN map.entries : map.entries[i].nr \in 1 .. Len(fate)
      /\ \A u \in upstream : u.id \in UpstreamId /\ u.nr \in 1 .. Len(fate)
  BY MapFacts
<1>2. map' \in BoundedMap
  <2>1. map' \in MapType /\ map.count \in Nat
    BY <1>1, MapFields DEF MapOK
  <2>. QED
    BY <1>1, <2>1, PendingFits DEF MapType, BoundedMap
<1>3. CountIsExact'
  BY DEF CountIsExact, MapOK
<1>4. NumbersPast'
  BY DEF NumbersPast, MapInv
<1>5. PendingAwaitsAnswer'
  BY DEF PendingAwaitsAnswer, MapInv
<1>6. AnswersFindTheirQuery'
  BY DEF AnswersFindTheirQuery, MapInv, id_in_use
<1>7. ASSUME NEW u \in upstream' PROVE NotRoundYet(u)'
  <2>1. NotRound(u, map, Len(fate)) /\ u.nr \in Nat
    BY <1>1, <1>7, NotRoundDef DEF MapInv
  <2>2. NotRound(u, map', Len(fate))
    BY <1>1, <2>1, WayOfFewer
  <2>3. NotRound(u, map', Len(fate'))
    BY <2>2
  <2>. QED
    BY <2>3 DEF NotRoundYet, NotRound
<1>. QED
  BY <1>2, <1>3, <1>4, <1>5, <1>6, <1>7 DEF MapInv

\* Removing what has expired is all that most turns do to the map.
LEMMA Cleaned ==
    ASSUME MapInv, NEW m, m = id_map_expire(map)
    PROVE  /\ MapOK(m) /\ m.count <= map.count /\ m.count <= MAX_PENDING
           /\ m.next_id = map.next_id
           /\ DOMAIN m.entries \subseteq DOMAIN map.entries
           /\ \A i \in DOMAIN m.entries : /\ m.entries[i] = map.entries[i]
                                          /\ m.entries[i].left > 0
<1>1. MapOK(map) /\ map.count <= MAX_PENDING
  BY MapFacts
<1>2. /\ MapOK(m) /\ m.count <= map.count
      /\ m.next_id = map.next_id
      /\ DOMAIN m.entries \subseteq DOMAIN map.entries
      /\ \A i \in DOMAIN m.entries : /\ m.entries[i] = map.entries[i]
                                     /\ m.entries[i].left > 0
  BY <1>1, MapExpired
<1>3. m.count \in Nat /\ map.count \in Nat
  BY <1>1, <1>2, MapFields DEF MapOK
<1>. QED
  BY <1>1, <1>2, <1>3, PendingFits

LEMMA MapOnlyCleaned ==
    ASSUME MapInv, running, running' = running, map' = id_map_expire(map),
           upstream' = upstream, fate' = fate
    PROVE  MapInv'
<1>1. /\ MapOK(map') /\ map'.count <= map.count
      /\ map'.next_id = map.next_id
      /\ DOMAIN map'.entries \subseteq DOMAIN map.entries
      /\ \A i \in DOMAIN map'.entries : map'.entries[i] = map.entries[i]
  BY Cleaned
<1>2. fate' \in Seq(Fate) /\ Len(fate') = Len(fate)
  BY DEF MapInv
<1>. QED
  BY <1>1, <1>2, MapNoLarger

\* What an identifier given out by relay_forward means for the queries that
\* are alive.
LEMMA GivenOut ==
    ASSUME MapInv, running, NEW q \in Query,
           NEW nr, nr = Len(fate) + 1, nr <= MaxForwards,
           NEW m, m = id_map_expire(map), ~full(m),
           NEW e, e = [query |-> q, left |-> TIMEOUT, nr |-> nr],
           NEW id, id = alloc_upstream_id(m),
           NEW n, n = id_map_insert(m, e)
    PROVE  /\ MapOK(n) /\ n.count <= MAX_PENDING
           /\ id \in UpstreamId
           /\ DOMAIN n.entries \ {id} \subseteq DOMAIN map.entries
           /\ id \in DOMAIN n.entries /\ n.entries[id] = e
           /\ \A i \in DOMAIN n.entries \ {id} : n.entries[i] = map.entries[i]
           /\ \A u \in upstream : nr - u.nr < Lifetime =>
                 u.id # id /\ NotRound(u, n, nr)
           /\ \A u : u.id = id /\ u.nr = nr =>
                 NotRound(u, n, nr)
<1>1. /\ MapOK(map) /\ Len(fate) \in Nat
      /\ \A u \in upstream : u.id \in UpstreamId /\ u.nr \in 1 .. Len(fate)
  BY MapFacts
<1>2. /\ MapOK(m)
      /\ m.next_id = map.next_id
      /\ DOMAIN m.entries \subseteq DOMAIN map.entries
      /\ \A i \in DOMAIN m.entries : m.entries[i] = map.entries[i]
  BY Cleaned
<1>3. m.count < MAX_PENDING /\ m.count \in Nat
  BY <1>2, MapFields, PendingFits DEF full, MapOK
<1>4. e \in Pending
  BY <1>1, TimeoutIsPositive, MaxForwardsIsNat DEF Pending
<1>5. /\ MapOK(n)
      /\ n.count = m.count + 1
      /\ id \notin DOMAIN m.entries
      /\ DOMAIN n.entries = DOMAIN m.entries \cup {id}
      /\ n.entries[id] = e
      /\ \A i \in DOMAIN m.entries : n.entries[i] = m.entries[i]
      /\ n.next_id = stepped(m.next_id, tries(m) + 1)
  BY <1>2, <1>3, <1>4, MapInserted
<1>6. id \in UpstreamId
  BY <1>5, MapFields DEF MapOK
<1>7. n.count <= MAX_PENDING
  BY <1>3, <1>5, PendingFits
<1>8. ASSUME NEW u \in upstream, nr - u.nr < Lifetime
      PROVE  u.id # id /\ NotRound(u, n, nr)
  <2>1. NotRound(u, map, Len(fate)) /\ u.nr \in Nat /\ u.id \in UpstreamId
    BY <1>1, NotRoundDef DEF MapInv
  <2>2. NotRound(u, m, Len(fate))
    BY <1>1, <1>2, <2>1, WayOfFewer
  <2>3. Len(fate) + 1 - u.nr < Lifetime
    BY <1>1, <1>8
  <2>4. u.id # id /\ NotRound(u, n, Len(fate) + 1)
    BY <1>1, <1>2, <1>3, <1>5, <2>1, <2>2, <2>3, WayGoesOn
  <2>. QED
    BY <2>4
<1>9. ASSUME NEW u, u.id = id, u.nr = nr
      PROVE  NotRound(u, n, nr)
  <2>1. u.nr \in Nat
    BY <1>1, <1>9
  <2>2. NotRound(u, n, u.nr)
    BY <1>2, <1>3, <1>5, <1>9, <2>1, WayBegins
  <2>. QED
    BY <1>9, <2>2
<1>. QED
  BY <1>2, <1>5, <1>6, <1>7, <1>8, <1>9

\* A query that is sent upstream.
LEMMA MapForwards ==
    ASSUME MapInv, running, running' = running,
           NEW q \in Query,
           NEW nr, nr = Len(fate) + 1, nr <= MaxForwards,
           NEW m, m = id_map_expire(map), ~full(m),
           NEW e, e = [query |-> q, left |-> TIMEOUT, nr |-> nr],
           NEW id, id = alloc_upstream_id(m),
           map' = id_map_insert(m, e),
           fate' = Append(fate, "sent"),
           NEW new, new = [id |-> id, query |-> q, nr |-> nr],
           upstream' = {u \in upstream : nr - u.nr < Lifetime} \cup {new}
    PROVE  MapInv'
<1>1. /\ Len(fate) \in Nat
      /\ \A i \in DOMAIN map.entries : map.entries[i].nr \in 1 .. Len(fate)
      /\ \A u \in upstream : u.id \in UpstreamId /\ u.nr \in 1 .. Len(fate)
  BY MapFacts
<1>2. /\ MapOK(map') /\ map'.count <= MAX_PENDING
      /\ id \in UpstreamId
      /\ DOMAIN map'.entries \ {id} \subseteq DOMAIN map.entries
      /\ id \in DOMAIN map'.entries /\ map'.entries[id] = e
      /\ \A i \in DOMAIN map'.entries \ {id} : map'.entries[i] = map.entries[i]
      /\ \A u \in upstream : nr - u.nr < Lifetime =>
            u.id # id /\ NotRound(u, map', nr)
      /\ \A u : u.id = id /\ u.nr = nr => NotRound(u, map', nr)
  BY GivenOut
<1>3. map' \in BoundedMap
  <2>1. map' \in MapType
    BY <1>2 DEF MapOK
  <2>. QED
    BY <1>2, <2>1, PendingFits DEF MapType, BoundedMap
<1>4. /\ fate' \in Seq(Fate) /\ Len(fate') = nr
      /\ \A k \in 1 .. Len(fate) : fate'[k] = fate[k]
      /\ fate'[nr] = "sent"
  <2>1. fate \in Seq(Fate) /\ "sent" \in Fate
    BY DEF MapInv, Fate
  <2>. QED
    BY <1>1, <2>1, AppendProperties
<1>5. upstream' \subseteq upstream \cup {new} /\ new.nr = nr /\ new.id = id
  OBVIOUS
<1>6. new \in Asked
  BY <1>1, <1>2, MaxForwardsIsNat DEF Asked
<1>7. e.nr = nr /\ e.query = q
  OBVIOUS
<1>8. NumbersPast'
  BY <1>1, <1>2, <1>4, <1>5, <1>7 DEF NumbersPast
<1>9. ASSUME NEW i \in DOMAIN map'.entries, NEW j \in DOMAIN map'.entries
      PROVE  /\ fate'[map'.entries[i].nr] = "sent"
             /\ map'.entries[i].nr = map'.entries[j].nr => i = j
  <2>1. \A k \in DOMAIN map'.entries \ {id} :
           /\ k \in DOMAIN map.entries
           /\ map'.entries[k] = map.entries[k]
           /\ map'.entries[k].nr \in 1 .. Len(fate)
           /\ map'.entries[k].nr # nr
    BY <1>1, <1>2
  <2>2. PendingAwaitsAnswer
    BY DEF MapInv
  <2>3. fate'[map'.entries[i].nr] = "sent"
    BY <1>2, <1>4, <1>7, <2>1, <2>2 DEF PendingAwaitsAnswer
  <2>4. map'.entries[i].nr = map'.entries[j].nr => i = j
    BY <1>2, <1>7, <2>1, <2>2 DEF PendingAwaitsAnswer
  <2>. QED
    BY <2>3, <2>4
<1>10. ASSUME NEW u \in upstream', id_in_use(map', u.id)
       PROVE  /\ map'.entries[u.id].nr = u.nr
              /\ map'.entries[u.id].query = u.query
  <2>1. CASE u = new
    BY <1>2, <1>7, <2>1
  <2>2. CASE u # new
    <3>1. u \in upstream /\ nr - u.nr < Lifetime
      BY <2>2
    <3>2. u.id # id /\ u.id \in DOMAIN map'.entries
      BY <1>2, <1>10, <3>1 DEF id_in_use
    <3>3. u.id \in DOMAIN map.entries /\ map'.entries[u.id] = map.entries[u.id]
      BY <1>2, <3>2
    <3>. QED
      BY <3>1, <3>3 DEF MapInv, AnswersFindTheirQuery, id_in_use
  <2>. QED
    BY <2>1, <2>2
<1>11. ASSUME NEW u \in upstream' PROVE NotRoundYet(u)'
  <2>1. NotRound(u, map', nr)
    BY <1>2, <1>5
  <2>2. NotRound(u, map', Len(fate'))
    BY <1>4, <2>1
  <2>. QED
    BY <2>2 DEF NotRoundYet, NotRound
<1>12. CountIsExact'
  BY <1>2 DEF CountIsExact, MapOK
<1>13. PendingAwaitsAnswer'
  BY <1>9 DEF PendingAwaitsAnswer
<1>14. AnswersFindTheirQuery'
  BY <1>10 DEF AnswersFindTheirQuery, id_in_use
<1>15. upstream' \subseteq Asked
  BY <1>5, <1>6 DEF MapInv
<1>. QED
  BY <1>3, <1>4, <1>8, <1>11, <1>12, <1>13, <1>14, <1>15 DEF MapInv

\* A query that could not be sent: its identifier is used up, its entry gone.
LEMMA MapSendFails ==
    ASSUME MapInv, running, running' = running,
           NEW q \in Query,
           NEW nr, nr = Len(fate) + 1, nr <= MaxForwards,
           NEW m, m = id_map_expire(map), ~full(m),
           NEW e, e = [query |-> q, left |-> TIMEOUT, nr |-> nr],
           NEW id, id = alloc_upstream_id(m),
           map' = id_map_take(id_map_insert(m, e), id),
           fate' = Append(fate, "failed"),
           upstream' = {u \in upstream : nr - u.nr < Lifetime}
    PROVE  MapInv'
<1>. DEFINE n == id_map_insert(m, e)
<1>1. /\ Len(fate) \in Nat
      /\ \A i \in DOMAIN map.entries : map.entries[i].nr \in 1 .. Len(fate)
      /\ \A u \in upstream : u.id \in UpstreamId /\ u.nr \in 1 .. Len(fate)
  BY MapFacts
<1>2. /\ MapOK(n) /\ n.count <= MAX_PENDING
      /\ DOMAIN n.entries \ {id} \subseteq DOMAIN map.entries
      /\ \A i \in DOMAIN n.entries \ {id} : n.entries[i] = map.entries[i]
      /\ \A u \in upstream : nr - u.nr < Lifetime => NotRound(u, n, nr)
  BY GivenOut
<1>. HIDE DEF n
<1>3. /\ MapOK(map')
      /\ map'.count <= n.count
      /\ DOMAIN map'.entries = DOMAIN n.entries \ {id}
      /\ \A i \in DOMAIN map'.entries : map'.entries[i] = n.entries[i]
      /\ map'.next_id = n.next_id
  BY <1>2, MapTaken DEF n
<1>4. /\ DOMAIN map'.entries \subseteq DOMAIN map.entries
      /\ \A i \in DOMAIN map'.entries : map'.entries[i] = map.entries[i]
  BY <1>2, <1>3
<1>5. map' \in BoundedMap
  <2>1. map' \in MapType /\ n.count \in Nat /\ map'.count \in Nat
    BY <1>2, <1>3, MapFields DEF MapOK
  <2>2. map'.count \in 0 .. MAX_PENDING
    BY <1>2, <1>3, <2>1, PendingFits
  <2>. QED
    BY <2>1, <2>2 DEF MapType, BoundedMap
<1>6. /\ fate' \in Seq(Fate) /\ Len(fate') = nr
      /\ \A k \in 1 .. Len(fate) : fate'[k] = fate[k]
  <2>1. fate \in Seq(Fate) /\ "failed" \in Fate
    BY DEF MapInv, Fate
  <2>. QED
    BY <1>1, <2>1, AppendProperties
<1>7. NumbersPast'
  BY <1>1, <1>4, <1>6 DEF NumbersPast
<1>8. PendingAwaitsAnswer'
  BY <1>1, <1>4, <1>6 DEF PendingAwaitsAnswer, MapInv
<1>9. AnswersFindTheirQuery'
  BY <1>4 DEF AnswersFindTheirQuery, MapInv, id_in_use
<1>10. ASSUME NEW u \in upstream' PROVE NotRoundYet(u)'
  <2>1. NotRound(u, n, nr) /\ u.nr \in Nat /\ nr \in Nat
    BY <1>1, <1>2
  <2>2. DOMAIN map'.entries \subseteq DOMAIN n.entries
    BY <1>3
  <2>3. NotRound(u, map', nr)
    BY <1>2, <1>3, <2>1, <2>2, WayOfFewer
  <2>4. NotRound(u, map', Len(fate'))
    BY <1>6, <2>3
  <2>. QED
    BY <2>4 DEF NotRoundYet, NotRound
<1>11. CountIsExact'
  BY <1>3 DEF CountIsExact, MapOK
<1>12. upstream' \subseteq Asked
  BY DEF MapInv
<1>. QED
  BY <1>5, <1>6, <1>7, <1>8, <1>9, <1>10, <1>11, <1>12 DEF MapInv

(***************************************************************************)
(* One lemma per handler: the map, the network and the numbers.            *)
(***************************************************************************)
LEMMA AskUpstreamKeepsMap ==
    ASSUME MapInv, running, NEW q \in Query, AskUpstream(q)
    PROVE  MapInv'
<1>. DEFINE m  == id_map_expire(map)
            id == alloc_upstream_id(m)
            nr == Len(fate) + 1
            e  == [query |-> q, left |-> TIMEOUT, nr |-> nr]
<1>1. running' = running /\ relay_forward(m, q)
  BY DEF AskUpstream
<1>2. CASE map' = m /\ UNCHANGED <<upstream, fate>>
  BY <1>1, <1>2, MapOnlyCleaned
<1>3. CASE /\ ~full(m) /\ nr <= MaxForwards
           /\ map' = id_map_insert(m, e)
           /\ fate' = Append(fate, "sent")
           /\ upstream' = {u \in upstream : nr - u.nr < Lifetime}
                            \cup {[id |-> id, query |-> q, nr |-> nr]}
  <2>. DEFINE new == [id |-> id, query |-> q, nr |-> nr]
  <2>1. upstream' = {u \in upstream : nr - u.nr < Lifetime} \cup {new}
    BY <1>3
  <2>. HIDE DEF m, id, nr, e, new
  <2>. QED
    BY <1>1, <1>3, <2>1, MapForwards DEF m, id, nr, e, new
<1>4. CASE /\ ~full(m) /\ nr <= MaxForwards
           /\ map' = id_map_take(id_map_insert(m, e), id)
           /\ fate' = Append(fate, "failed")
           /\ upstream' = {u \in upstream : nr - u.nr < Lifetime}
  <2>. HIDE DEF m, id, nr, e
  <2>. QED
    BY <1>1, <1>4, MapSendFails DEF m, id, nr, e
<1>. QED
  BY <1>1, <1>2, <1>3, <1>4 DEF relay_forward

\* What an answer finds, if it finds something.
LEMMA AnswerFinds ==
    ASSUME MapInv, NEW u \in upstream,
           NEW m, m = id_map_expire(map), id_in_use(m, u.id)
    PROVE  /\ u.id \in DOMAIN map.entries
           /\ m.entries[u.id] = map.entries[u.id]
           /\ map.entries[u.id].left > 0
           /\ map.entries[u.id].nr = u.nr
           /\ map.entries[u.id].query = u.query
<1>1. /\ u.id \in DOMAIN map.entries
      /\ m.entries[u.id] = map.entries[u.id]
      /\ map.entries[u.id].left > 0
  BY Cleaned DEF id_in_use
<1>. QED
  BY <1>1 DEF MapInv, AnswersFindTheirQuery, id_in_use

LEMMA UpstreamResponseKeepsMap ==
    ASSUME MapInv, NEW u \in upstream, UpstreamResponse(u)
    PROVE  MapInv'
<1>. DEFINE m == id_map_expire(map)
<1>1. running /\ running' = running /\ upstream' = upstream
  BY DEF UpstreamResponse
<1>2. CASE \E ipv4 \in Ipv4 \cup {"NONE"}, ttl \in 0 .. MaxTtl :
             Answered(u, ipv4, ttl)
  <2>1. /\ id_in_use(m, u.id)
        /\ map' = id_map_take(m, u.id)
        /\ fate' = [fate EXCEPT ![u.nr] = "answered"]
    BY <1>2 DEF Answered
  <2>2. /\ u.id \in DOMAIN map.entries
        /\ map.entries[u.id].nr = u.nr
    BY <2>1, AnswerFinds
  <2>3. /\ MapOK(m) /\ m.count <= map.count
        /\ m.next_id = map.next_id
        /\ DOMAIN m.entries \subseteq DOMAIN map.entries
        /\ \A i \in DOMAIN m.entries : m.entries[i] = map.entries[i]
    BY Cleaned
  <2>. HIDE DEF m
  <2>4. /\ MapOK(map')
        /\ map'.count <= m.count
        /\ DOMAIN map'.entries = DOMAIN m.entries \ {u.id}
        /\ \A i \in DOMAIN map'.entries : map'.entries[i] = m.entries[i]
        /\ map'.next_id = m.next_id
    BY <2>1, <2>3, MapTaken
  <2>5. map'.count <= map.count
    <3>1. MapOK(map)
      BY MapFacts
    <3>2. map'.count \in Nat /\ m.count \in Nat /\ map.count \in Nat
      BY <2>3, <2>4, <3>1, MapFields DEF MapOK
    <3>. QED
      BY <2>3, <2>4, <3>2
  <2>6. /\ fate \in Seq(Fate) /\ Len(fate) \in Nat
        /\ \A i \in DOMAIN map.entries : map.entries[i].nr \in 1 .. Len(fate)
        /\ u.nr \in 1 .. Len(fate)
    BY MapFacts DEF MapInv
  <2>7. fate' \in Seq(Fate) /\ Len(fate') = Len(fate)
    <3>1. "answered" \in Fate
      BY DEF Fate
    <3>. QED
      BY <2>1, <2>6, <3>1, ExceptSeq
  <2>8. ASSUME NEW i \in DOMAIN map'.entries
        PROVE  /\ i \in DOMAIN map.entries
               /\ map'.entries[i] = map.entries[i]
               /\ fate'[map.entries[i].nr] = fate[map.entries[i].nr]
    <3>1. i \in DOMAIN map.entries /\ i # u.id
          /\ map'.entries[i] = map.entries[i]
      BY <2>3, <2>4
    <3>2. map.entries[i].nr # u.nr
      BY <2>2, <3>1 DEF MapInv, PendingAwaitsAnswer
    <3>3. map.entries[i].nr \in 1 .. Len(fate)
      BY <2>6, <3>1
    <3>. QED
      BY <2>1, <2>6, <3>1, <3>2, <3>3
  <2>9. DOMAIN map'.entries \subseteq DOMAIN map.entries
    BY <2>8
  <2>10. map'.next_id = map.next_id
    BY <2>3, <2>4
  <2>. QED
    BY <1>1, <2>4, <2>5, <2>7, <2>8, <2>9, <2>10, MapNoLarger
<1>3. CASE Dropped(u)
  BY <1>1, <1>3, MapOnlyCleaned DEF Dropped
<1>. QED
  BY <1>2, <1>3 DEF UpstreamResponse

LEMMA TickKeepsMap ==
    ASSUME MapInv, Tick
    PROVE  MapInv'
<1>1. /\ running /\ running' = running /\ map' = later(map)
      /\ upstream' = upstream /\ fate' = fate
  BY DEF Tick
<1>2. MapOK(map)
  BY MapFacts
<1>3. /\ MapOK(map') /\ map'.count = map.count
      /\ DOMAIN map'.entries = DOMAIN map.entries
      /\ \A i \in DOMAIN map'.entries :
            /\ map'.entries[i].nr = map.entries[i].nr
            /\ map'.entries[i].query = map.entries[i].query
      /\ map'.next_id = map.next_id
  BY <1>1, <1>2, MapAged
<1>4. map'.count <= map.count
  <2>1. map.count \in Nat
    BY <1>2, MapFields DEF MapOK
  <2>. QED
    BY <1>3, <2>1
<1>5. fate' \in Seq(Fate) /\ Len(fate') = Len(fate)
  BY <1>1 DEF MapInv
<1>6. DOMAIN map'.entries \subseteq DOMAIN map.entries
  BY <1>3
<1>. QED
  BY <1>1, <1>3, <1>4, <1>5, <1>6, MapNoLarger

LEMMA LoopEndsKeepsMap ==
    ASSUME MapInv, LoopEnds
    PROVE  MapInv'
<1>1. /\ running' = FALSE /\ map' = id_map_create
      /\ upstream' = upstream /\ fate' = fate
  BY DEF LoopEnds
<1>2. MapOK(map') /\ map'.count = 0 /\ DOMAIN map'.entries = {}
  BY <1>1, MapCreated
<1>3. map' \in BoundedMap
  BY <1>2, PendingFits DEF MapOK, MapType, BoundedMap
<1>4. NumbersPast'
  BY <1>1, <1>2 DEF NumbersPast, MapInv
<1>. QED
  BY <1>1, <1>2, <1>3, <1>4
     DEF MapInv, MapOK, CountIsExact, PendingAwaitsAnswer,
         AnswersFindTheirQuery, id_in_use

LEMMA NextKeepsMap == MapInv /\ [Next]_vars => MapInv'
<1>. SUFFICES ASSUME MapInv, [Next]_vars PROVE MapInv'
  OBVIOUS
<1>1. ASSUME NEW q \in Query, ClientQuery(q) PROVE MapInv'
  <2>1. running
    BY <1>1 DEF ClientQuery
  <2>2. CASE AnswerFromTable(q)
    BY <2>1, <2>2, MapOnlyCleaned DEF AnswerFromTable
  <2>3. CASE AnswerFromCache(q)
    BY <2>1, <2>3, MapOnlyCleaned DEF AnswerFromCache
  <2>4. CASE AskUpstream(q)
    BY <2>1, <2>4, AskUpstreamKeepsMap
  <2>. QED
    BY <1>1, <2>2, <2>3, <2>4 DEF ClientQuery
<1>2. ASSUME NEW u \in upstream, UpstreamResponse(u) PROVE MapInv'
  BY <1>2, UpstreamResponseKeepsMap
<1>3. CASE IdleTurn
  BY <1>3, MapOnlyCleaned DEF IdleTurn
<1>4. CASE LoopEnds
  BY <1>4, LoopEndsKeepsMap
<1>5. CASE Tick
  BY <1>5, TickKeepsMap
<1>6. CASE UNCHANGED vars
  BY <1>6 DEF vars, MapInv, CountIsExact, NumbersPast, PendingAwaitsAnswer,
              AnswersFindTheirQuery, NotRoundYet
<1>. QED
  BY <1>1, <1>2, <1>3, <1>4, <1>5, <1>6 DEF Next, Turn

(***************************************************************************)
(* One lemma per handler: the cache.                                       *)
(***************************************************************************)
LEMMA CacheStep ==
    ASSUME CacheInv, cache' \in Seq(Entry), Len(cache') <= capacity,
           NamesOnce(cache) => NamesOnce(cache'),
           told' \in [Name \X Ipv4 -> 0 .. MaxTtl],
           \A i \in 1 .. Len(cache') :
              cache'[i].left <= told'[<<cache'[i].qname, cache'[i].ipv4>>]
    PROVE  CacheInv'
<1>1. NamesOnce(cache)
  BY DEF CacheInv, OneEntryPerName, NamesOnce
<1>2. OneEntryPerName'
  BY <1>1 DEF OneEntryPerName, NamesOnce
<1>. QED
  BY <1>2 DEF CacheInv, CacheIsVouchedFor

LEMMA CacheOnlyRearranged ==
    ASSUME CacheInv, cache' \in Seq(Entry), Len(cache') <= Len(cache),
           From(cache', cache), NamesOnce(cache) => NamesOnce(cache'),
           told' = told
    PROVE  CacheInv'
<1>1. Len(cache) <= capacity /\ Len(cache) \in Nat /\ Len(cache') \in Nat
  BY LenProperties DEF CacheInv
<1>2. Len(cache') <= capacity
  BY <1>1, CapacityIsPositive
<1>3. \A i \in 1 .. Len(cache') :
         cache'[i].left <= told'[<<cache'[i].qname, cache'[i].ipv4>>]
  BY DEF From, CacheInv, CacheIsVouchedFor
<1>4. told' \in [Name \X Ipv4 -> 0 .. MaxTtl]
  BY DEF CacheInv
<1>. QED
  BY <1>2, <1>3, <1>4, CacheStep

LEMMA LookupKeepsCache ==
    ASSUME CacheInv, NEW q, cache' = looked_up(cache, q), told' = told
    PROVE  CacheInv'
<1>1. cache \in Seq(Entry)
  BY DEF CacheInv
<1>. QED
  BY <1>1, LookedUp, CacheOnlyRearranged

LEMMA AnsweredKeepsCache ==
    ASSUME CacheInv, MapInv, NEW u \in upstream,
           NEW ipv4 \in Ipv4 \cup {"NONE"}, NEW ttl \in 0 .. MaxTtl,
           Answered(u, ipv4, ttl)
    PROVE  CacheInv'
<1>. DEFINE e     == id_map_expire(map).entries[u.id]
            has_a == ipv4 # "NONE" /\ e.query.qname = u.query.qname
<1>1. CASE ~has_a
  <2>1. cache' = cache /\ told' = told
    BY <1>1 DEF Answered
  <2>. QED
    BY <2>1 DEF CacheInv, OneEntryPerName, CacheIsVouchedFor
<1>2. CASE has_a
  <2>. DEFINE q   == u.query.qname
              new == [qname |-> q, ipv4 |-> ipv4, left |-> ttl]
  <2>1. /\ cache' = inserted(cache, q, ipv4, ttl)
        /\ told' = [told EXCEPT ![<<q, ipv4>>] = Max({@, ttl})]
    BY <1>2 DEF Answered
  <2>2. q \in Name /\ ipv4 \in Ipv4
    BY <1>2, MapFacts, QueryType
  <2>3. /\ cache \in Seq(Entry) /\ Len(cache) <= capacity
        /\ told \in [Name \X Ipv4 -> 0 .. MaxTtl]
        /\ \A i \in 1 .. Len(cache) :
              cache[i].left <= told[<<cache[i].qname, cache[i].ipv4>>]
    BY DEF CacheInv, CacheIsVouchedFor
  <2>. HIDE DEF q
  <2>4. /\ cache' \in Seq(Entry) /\ Len(cache') <= capacity
        /\ \A i \in 1 .. Len(cache') :
              cache'[i] = new \/ \E j \in 1 .. Len(cache) : cache'[i] = cache[j]
        /\ NamesOnce(cache) => NamesOnce(cache')
    BY <2>1, <2>2, <2>3, CacheInserted
  <2>5. PICK t : t = told[<<q, ipv4>>]
    OBVIOUS
  <2>6. t \in 0 .. MaxTtl /\ <<q, ipv4>> \in Name \X Ipv4
    BY <2>2, <2>3, <2>5
  <2>7. Max({t, ttl}) = IF t >= ttl THEN t ELSE ttl
    BY <2>6, MaxTtlIsNat, MaxOfTwo
  <2>8. /\ told' = [told EXCEPT ![<<q, ipv4>>] = Max({t, ttl})]
    BY <2>1, <2>5
  <2>9. /\ Max({t, ttl}) \in 0 .. MaxTtl
        /\ t <= Max({t, ttl}) /\ ttl <= Max({t, ttl})
    BY <2>6, <2>7, MaxTtlIsNat
  <2>10. told' \in [Name \X Ipv4 -> 0 .. MaxTtl]
    BY <2>3, <2>8, <2>9
  <2>11. told'[<<q, ipv4>>] = Max({t, ttl})
    BY <2>3, <2>6, <2>8
  <2>12. ASSUME NEW x \in Name \X Ipv4 PROVE told[x] <= told'[x]
    <3>1. CASE x = <<q, ipv4>>
      BY <2>5, <2>9, <2>11, <3>1
    <3>2. CASE x # <<q, ipv4>>
      <4>1. told'[x] = told[x] /\ told[x] \in 0 .. MaxTtl
        BY <2>3, <2>8, <3>2
      <4>. QED
        BY <4>1
    <3>. QED
      BY <3>1, <3>2
  <2>13. ASSUME NEW i \in 1 .. Len(cache')
         PROVE  cache'[i].left <= told'[<<cache'[i].qname, cache'[i].ipv4>>]
    <3>1. CASE cache'[i] = new
      BY <2>9, <2>11, <3>1
    <3>2. CASE \E j \in 1 .. Len(cache) : cache'[i] = cache[j]
      <4>1. PICK j \in 1 .. Len(cache) : cache'[i] = cache[j]
        BY <3>2
      <4>2. cache[j] \in Entry
        BY <2>3, ElementOfSeq
      <4>3. PICK x : x = <<cache[j].qname, cache[j].ipv4>>
        OBVIOUS
      <4>4. x \in Name \X Ipv4 /\ cache[j].left \in Nat
        BY <4>2, <4>3, MaxTtlIsNat DEF Entry
      <4>5. told[x] \in Nat /\ told'[x] \in Nat
        BY <2>3, <2>10, <4>4, MaxTtlIsNat
      <4>6. cache[j].left <= told[x] /\ told[x] <= told'[x]
        BY <2>3, <2>12, <4>3, <4>4
      <4>7. cache[j].left <= told'[x]
        BY <4>4, <4>5, <4>6
      <4>. QED
        BY <4>1, <4>3, <4>7
    <3>. QED
      BY <2>4, <3>1, <3>2
  <2>. QED
    BY <2>4, <2>10, <2>13, CacheStep
<1>. QED
  BY <1>1, <1>2

LEMMA TickKeepsCache ==
    ASSUME CacheInv, Tick
    PROVE  CacheInv'
<1>1. /\ cache' = aged(cache)
      /\ told' = [na \in Name \X Ipv4 |-> less(told[na])]
  BY DEF Tick
<1>2. /\ cache \in Seq(Entry) /\ Len(cache) <= capacity
      /\ told \in [Name \X Ipv4 -> 0 .. MaxTtl]
      /\ \A i \in 1 .. Len(cache) :
            cache[i].left <= told[<<cache[i].qname, cache[i].ipv4>>]
  BY DEF CacheInv, CacheIsVouchedFor
<1>3. /\ cache' \in Seq(Entry) /\ Len(cache') = Len(cache)
      /\ \A i \in 1 .. Len(cache') : /\ cache'[i].qname = cache[i].qname
                                     /\ cache'[i].ipv4 = cache[i].ipv4
                                     /\ cache'[i].left = less(cache[i].left)
      /\ NamesOnce(cache) => NamesOnce(cache')
  BY <1>1, <1>2, CacheAged
<1>4. told' \in [Name \X Ipv4 -> 0 .. MaxTtl]
  BY <1>1, <1>2, MaxTtlIsNat DEF less
<1>5. ASSUME NEW i \in 1 .. Len(cache')
      PROVE  cache'[i].left <= told'[<<cache'[i].qname, cache'[i].ipv4>>]
  <2>1. cache[i] \in Entry
    BY <1>2, <1>3, ElementOfSeq
  <2>2. PICK x : x = <<cache[i].qname, cache[i].ipv4>>
    OBVIOUS
  <2>3. x \in Name \X Ipv4 /\ cache[i].left \in Nat
    BY <2>1, <2>2, MaxTtlIsNat DEF Entry
  <2>4. told[x] \in Nat /\ told'[x] = less(told[x])
    BY <1>1, <1>2, <2>3, MaxTtlIsNat
  <2>5. cache[i].left <= told[x]
    BY <1>2, <1>3, <2>2
  <2>6. less(cache[i].left) <= less(told[x])
    BY <2>3, <2>4, <2>5 DEF less
  <2>. QED
    BY <1>3, <2>2, <2>4, <2>6
<1>. QED
  BY <1>2, <1>3, <1>4, <1>5, CacheStep

LEMMA NextKeepsCache == MapInv /\ CacheInv /\ [Next]_vars => CacheInv'
<1>. SUFFICES ASSUME MapInv, CacheInv, [Next]_vars PROVE CacheInv'
  OBVIOUS
<1>1. ASSUME cache' = cache, told' = told PROVE CacheInv'
  BY <1>1 DEF CacheInv, OneEntryPerName, CacheIsVouchedFor
<1>2. ASSUME NEW q \in Query, ClientQuery(q) PROVE CacheInv'
  <2>1. CASE AnswerFromTable(q)
    BY <1>1, <2>1 DEF AnswerFromTable
  <2>2. CASE AnswerFromCache(q)
    BY <2>2, LookupKeepsCache DEF AnswerFromCache
  <2>3. CASE AskUpstream(q)
    <3>1. /\ cache' = IF local(q) THEN looked_up(cache, q.qname) ELSE cache
          /\ told' = told
      BY <2>3 DEF AskUpstream
    <3>. QED
      BY <1>1, <3>1, LookupKeepsCache
  <2>. QED
    BY <1>2, <2>1, <2>2, <2>3 DEF ClientQuery
<1>3. ASSUME NEW u \in upstream, UpstreamResponse(u) PROVE CacheInv'
  <2>1. CASE Dropped(u)
    BY <1>1, <2>1 DEF Dropped
  <2>2. ASSUME NEW ipv4 \in Ipv4 \cup {"NONE"}, NEW ttl \in 0 .. MaxTtl,
               Answered(u, ipv4, ttl)
        PROVE  CacheInv'
    BY <2>2, AnsweredKeepsCache
  <2>. QED
    BY <1>3, <2>1, <2>2 DEF UpstreamResponse
<1>4. CASE IdleTurn
  BY <1>1, <1>4 DEF IdleTurn
<1>5. CASE LoopEnds
  <2>1. cache' = <<>> /\ told' = told
    BY <1>5 DEF LoopEnds
  <2>2. cache' \in Seq(Entry) /\ Len(cache') = 0
    BY <2>1
  <2>. QED
    BY <2>1, <2>2, CapacityIsPositive
       DEF CacheInv, OneEntryPerName, CacheIsVouchedFor
<1>6. CASE Tick
  BY <1>6, TickKeepsCache
<1>7. CASE UNCHANGED vars
  BY <1>1, <1>7 DEF vars
<1>. QED
  BY <1>2, <1>3, <1>4, <1>5, <1>6, <1>7 DEF Next, Turn

(***************************************************************************)
(* Theorems.                                                               *)
(***************************************************************************)

\* The relay keeps its invariant, whatever clients ask, upstream answers and
\* sendto does, as long as answers are gone before identifiers come round.
THEOREM RelayInvariant == Spec => []IInv
<1>1. Init => IInv
  BY InitMapInv, InitCacheInv, TwoHalves
<1>2. IInv /\ [Next]_vars => IInv'
  <2>. SUFFICES ASSUME MapInv, CacheInv, [Next]_vars PROVE MapInv' /\ CacheInv'
    BY TwoHalves DEF IInv, MapInv, CacheInv, TypeOK, BoundedMap
  <2>. QED
    BY NextKeepsMap, NextKeepsCache
<1>. QED
  BY <1>1, <1>2, PTL DEF Spec

\* Types, and the bounds of the id map and the cache.
THEOREM RelayTypes == Spec => []TypeOK
<1>1. IInv => TypeOK
  BY DEF IInv
<1>. QED
  BY <1>1, RelayInvariant, PTL

\* id_map's counter is the number of its entries after every turn.
THEOREM RelayCountIsExact == Spec => []CountIsExact
<1>1. IInv => CountIsExact
  BY DEF IInv
<1>. QED
  BY <1>1, RelayInvariant, PTL

\* A late answer meets its own query in the id map, or none.
THEOREM RelayAnswersFindTheirQuery == Spec => []AnswersFindTheirQuery
<1>1. IInv => AnswersFindTheirQuery
  BY DEF IInv
<1>. QED
  BY <1>1, RelayInvariant, PTL

\* What waits in the id map was sent, once, and not answered.
THEOREM RelayPendingAwaitsAnswer == Spec => []PendingAwaitsAnswer
<1>1. IInv => PendingAwaitsAnswer
  BY DEF IInv
<1>. QED
  BY <1>1, RelayInvariant, PTL

\* No address outlives what upstream said of it.
THEOREM RelayCacheIsVouchedFor == Spec => []CacheIsVouchedFor
<1>1. IInv => CacheIsVouchedFor
  BY DEF IInv
<1>. QED
  BY <1>1, RelayInvariant, PTL

\* Every client gets the answer to the query it asked, under its identifier:
\* of an upstream answer this holds because it meets its own query.
THEOREM RelayReplyMatchesQuery == Spec => []ReplyMatchesQuery
<1>1. Init => ReplyMatchesQuery
  BY DEF Init, ReplyMatchesQuery
<1>2. IInv /\ ReplyMatchesQuery /\ [Next]_vars => ReplyMatchesQuery'
  <2>. SUFFICES ASSUME IInv, ReplyMatchesQuery, [Next]_vars
                PROVE  ReplyMatchesQuery'
    OBVIOUS
  <2>1. MapInv
    BY TwoHalves
  <2>2. ASSUME reply' = None PROVE ReplyMatchesQuery'
    BY <2>2 DEF ReplyMatchesQuery
  <2>3. ASSUME NEW q \in Query, ClientQuery(q) PROVE ReplyMatchesQuery'
    <3>1. CASE AskUpstream(q)
      BY <2>2, <3>1 DEF AskUpstream
    <3>2. CASE AnswerFromTable(q)
      BY <3>2 DEF AnswerFromTable, ReplyMatchesQuery, Reply
    <3>3. CASE AnswerFromCache(q)
      BY <3>3 DEF AnswerFromCache, ReplyMatchesQuery, Reply
    <3>. QED
      BY <2>3, <3>1, <3>2, <3>3 DEF ClientQuery
  <2>4. ASSUME NEW u \in upstream, UpstreamResponse(u)
        PROVE  ReplyMatchesQuery'
    <3>1. CASE Dropped(u)
      BY <2>2, <3>1 DEF Dropped
    <3>2. ASSUME NEW ipv4 \in Ipv4 \cup {"NONE"}, NEW ttl \in 0 .. MaxTtl,
                 Answered(u, ipv4, ttl)
          PROVE  ReplyMatchesQuery'
      <4>. DEFINE e == id_map_expire(map).entries[u.id]
      <4>1. id_in_use(id_map_expire(map), u.id)
        BY <3>2 DEF Answered
      <4>2. e.query = u.query
        BY <2>1, <4>1, AnswerFinds
      <4>3. \/ reply' = Reply(e.query.client, e.query.id, u.query, ipv4)
            \/ reply' = None
        BY <3>2 DEF Answered, dns_socket_sendto
      <4>. HIDE DEF e
      <4>. QED
        BY <2>2, <4>2, <4>3 DEF Reply, ReplyMatchesQuery
    <3>. QED
      BY <2>4, <3>1, <3>2 DEF UpstreamResponse
  <2>5. CASE IdleTurn \/ LoopEnds \/ Tick
    BY <2>2, <2>5 DEF IdleTurn, LoopEnds, Tick
  <2>6. CASE UNCHANGED vars
    BY <2>6 DEF vars, ReplyMatchesQuery
  <2>. QED
    BY <2>3, <2>4, <2>5, <2>6 DEF Next, Turn
<1>. QED
  BY <1>1, <1>2, RelayInvariant, PTL DEF Spec

\* No step of the relay gives a client an answer to a query whose time is up.
THEOREM RelayLateAnswersDropped == Spec => LateAnswersDropped
<1>1. IInv /\ [Next]_vars =>
        [\A k \in DOMAIN fate :
            fate[k] # "answered" /\ fate'[k] = "answered" =>
                \E id \in DOMAIN map.entries :
                    map.entries[id].nr = k /\ map.entries[id].left > 0]_vars
  <2>. SUFFICES ASSUME IInv, [Next]_vars, NEW k \in DOMAIN fate,
                       fate[k] # "answered", fate'[k] = "answered"
                PROVE  \E id \in DOMAIN map.entries :
                          map.entries[id].nr = k /\ map.entries[id].left > 0
    OBVIOUS
  <2>1. MapInv
    BY TwoHalves
  <2>2. fate \in Seq(Fate) /\ DOMAIN fate = 1 .. Len(fate) /\ Len(fate) \in Nat
    BY <2>1, LenProperties DEF MapInv
  <2>3. fate' # fate
    OBVIOUS
  <2>4. ASSUME NEW q \in Query, ClientQuery(q) PROVE FALSE
    <3>1. PICK what \in Fate : fate' = Append(fate, what)
      BY <2>3, <2>4 DEF ClientQuery, AnswerFromTable, AnswerFromCache,
                        AskUpstream, relay_forward, Fate
    <3>2. fate'[k] = fate[k]
      BY <2>2, <3>1, AppendProperties
    <3>. QED
      BY <3>2
  <2>5. ASSUME NEW u \in upstream, UpstreamResponse(u)
        PROVE  \E id \in DOMAIN map.entries :
                  map.entries[id].nr = k /\ map.entries[id].left > 0
    <3>1. /\ id_in_use(id_map_expire(map), u.id)
          /\ fate' = [fate EXCEPT ![u.nr] = "answered"]
      BY <2>3, <2>5 DEF UpstreamResponse, Answered, Dropped
    <3>2. k = u.nr
      BY <2>2, <3>1
    <3>. QED
      BY <2>1, <3>1, <3>2, AnswerFinds
  <2>6. CASE IdleTurn \/ LoopEnds \/ Tick
    BY <2>3, <2>6 DEF IdleTurn, LoopEnds, Tick
  <2>7. CASE UNCHANGED vars
    BY <2>3, <2>7 DEF vars
  <2>. QED
    BY <2>4, <2>5, <2>6, <2>7 DEF Next, Turn
<1>. QED
  BY <1>1, RelayInvariant, PTL DEF Spec, LateAnswersDropped

\* A name on the list is asked upstream only after an answer to a client
\* could not be sent: where sendto does not fail, listed names stay local.
THEOREM RelayListedNamesStayLocal ==
    ~SendMayFail => (Spec => []ListedNamesStayLocal)
<1>. SUFFICES ASSUME ~SendMayFail PROVE Spec => []ListedNamesStayLocal
  OBVIOUS
<1>1. Init => ListedNamesStayLocal
  BY DEF Init, ListedNamesStayLocal
<1>2. ListedNamesStayLocal /\ [Next]_vars => ListedNamesStayLocal'
  <2>. SUFFICES ASSUME ListedNamesStayLocal, [Next]_vars
                PROVE  ListedNamesStayLocal'
    OBVIOUS
  <2>1. ASSUME upstream' \subseteq upstream PROVE ListedNamesStayLocal'
    BY <2>1 DEF ListedNamesStayLocal, listed, local
  <2>2. ASSUME NEW q \in Query, AskUpstream(q) PROVE ListedNamesStayLocal'
    <3>1. ~listed(q)
      BY <2>2 DEF AskUpstream
    <3>2. PICK id, nr :
            upstream' \subseteq upstream \cup {[id |-> id, query |-> q, nr |-> nr]}
      BY <2>2 DEF AskUpstream, relay_forward
    <3>. QED
      BY <3>1, <3>2 DEF ListedNamesStayLocal, listed, local
  <2>. QED
    BY <2>1, <2>2 DEF Next, Turn, ClientQuery, AnswerFromTable, AnswerFromCache,
       UpstreamResponse, IdleTurn, LoopEnds, Tick, vars
<1>. QED
  BY <1>1, <1>2, PTL DEF Spec

(***************************************************************************)
(* DnsCache: sequences of nodes are what the pointers stand for.  p is the *)
(* order of use and h[b] the chain of bucket b; every function of          *)
(* dns_cache.c is shown to do to the pointers what a removal or an         *)
(* insertion does to these sequences.                                      *)
(***************************************************************************)

(***************************************************************************)
(* Sequences of nodes.                                                     *)
(***************************************************************************)
\* Every node of a sequence is met once.
Once(p) == \A i, j \in 1 .. Len(p) : p[i] = p[j] => i = j

Met(n, p) == \E i \in 1 .. Len(p) : p[i] = n

\* Taking a node out of a sequence that meets it once, all of them are met once
\* and the others are still met.
LEMMA OnceTaken ==
    ASSUME NEW q \in Seq(Node), Once(q), NEW j \in 1 .. Len(q)
    PROVE  /\ Once(RemoveAt(q, j))
           /\ \A m : Met(m, RemoveAt(q, j)) <=> Met(m, q) /\ m # q[j]
<1>1. PICK L \in Nat : L = Len(q)
  OBVIOUS
<1>2. PICK r : r = RemoveAt(q, j)
  OBVIOUS
<1>3. /\ r \in Seq(Node) /\ Len(r) = L - 1
      /\ \A i \in 1 .. L - 1 : r[i] = IF i < j THEN q[i] ELSE q[i + 1]
  BY <1>1, <1>2, TakenOut
<1>4. Once(r)
  <2>. SUFFICES ASSUME NEW x \in 1 .. L - 1, NEW y \in 1 .. L - 1, r[x] = r[y]
                PROVE  x = y
    BY <1>3 DEF Once
  <2>1. PICK u \in 1 .. L, v \in 1 .. L : /\ u = IF x < j THEN x ELSE x + 1
                                          /\ v = IF y < j THEN y ELSE y + 1
    OBVIOUS
  <2>2. q[u] = q[v]
    BY <1>3, <2>1
  <2>3. u = v
    BY <1>1, <2>2 DEF Once
  <2>. QED
    BY <2>1, <2>3
<1>5. \A m : (\E i \in 1 .. L - 1 : r[i] = m) <=> (\E i \in 1 .. L : q[i] = m) /\ m # q[j]
  <2>1. ASSUME NEW i \in 1 .. L - 1 PROVE (\E k \in 1 .. L : q[k] = r[i]) /\ r[i] # q[j]
    <3>1. PICK k \in 1 .. L : k = (IF i < j THEN i ELSE i + 1)
      OBVIOUS
    <3>2. r[i] = q[k] /\ k # j
      BY <1>3, <3>1
    <3>. QED
      BY <1>1, <3>2 DEF Once
  <2>2. ASSUME NEW k \in 1 .. L, q[k] # q[j] PROVE \E i \in 1 .. L - 1 : r[i] = q[k]
    <3>1. CASE k < j
      <4>1. k \in 1 .. L - 1 /\ r[k] = q[k]
        BY <1>1, <1>3, <3>1
      <4>. QED
        BY <4>1
    <3>2. CASE k > j
      <4>1. PICK i \in 1 .. L - 1 : k = i + 1 /\ ~(i < j)
        <5>1. k - 1 \in 1 .. L - 1 /\ k = (k - 1) + 1 /\ ~(k - 1 < j)
          BY <1>1, <3>2
        <5>. QED
          BY <5>1
      <4>2. r[i] = q[k]
        BY <1>3, <4>1
      <4>. QED
        BY <4>2
    <3>. QED
      BY <1>1, <2>2, <3>1, <3>2
  <2>3. ASSUME NEW m, NEW i \in 1 .. L - 1, r[i] = m
        PROVE  (\E k \in 1 .. L : q[k] = m) /\ m # q[j]
    BY <2>1, <2>3
  <2>4. ASSUME NEW m, NEW k \in 1 .. L, q[k] = m, m # q[j]
        PROVE  \E i \in 1 .. L - 1 : r[i] = m
    BY <2>2, <2>4
  <2>. QED
    BY <2>3, <2>4
<1>. QED
  BY <1>1, <1>2, <1>3, <1>4, <1>5 DEF Met

\* Putting a node that is not met in front.
LEMMA OncePut ==
    ASSUME NEW q \in Seq(Node), Once(q), NEW n \in Node, ~Met(n, q)
    PROVE  /\ Once(<<n>> \o q)
           /\ \A m : Met(m, <<n>> \o q) <=> Met(m, q) \/ m = n
<1>1. PICK L \in Nat : L = Len(q)
  OBVIOUS
<1>2. PICK r : r = <<n>> \o q
  OBVIOUS
<1>3. /\ r \in Seq(Node) /\ Len(r) = L + 1 /\ r[1] = n
      /\ \A i \in 1 .. L : r[i + 1] = q[i]
  BY <1>1, <1>2, PutInFront
<1>4. \A i \in 2 .. L + 1 : \E k \in 1 .. L : i = k + 1
  <2>. SUFFICES ASSUME NEW i \in 2 .. L + 1 PROVE \E k \in 1 .. L : i = k + 1
    OBVIOUS
  <2>1. i - 1 \in 1 .. L /\ i = (i - 1) + 1
    OBVIOUS
  <2>. QED
    BY <2>1
<1>7. \A i \in 1 .. L : q[i] # n
  BY <1>1 DEF Met
<1>5. Once(r)
  <2>. SUFFICES ASSUME NEW x \in 1 .. L + 1, NEW y \in 1 .. L + 1, r[x] = r[y]
                PROVE  x = y
    BY <1>3 DEF Once
  <2>1. \A i \in 2 .. L + 1 : r[i] # n
    BY <1>1, <1>3, <1>4, <1>7
  <2>2. CASE x = 1 \/ y = 1
    BY <1>1, <1>3, <2>1, <2>2
  <2>3. CASE x # 1 /\ y # 1
    <3>1. PICK u \in 1 .. L, v \in 1 .. L : x = u + 1 /\ y = v + 1
      BY <1>1, <1>4, <2>3
    <3>. QED
      BY <1>1, <1>3, <3>1 DEF Once
  <2>. QED
    BY <2>2, <2>3
<1>6. \A m : (\E i \in 1 .. L + 1 : r[i] = m) <=> (\E i \in 1 .. L : q[i] = m) \/ m = n
  <2>1. ASSUME NEW i \in 1 .. L + 1 PROVE (\E k \in 1 .. L : q[k] = r[i]) \/ r[i] = n
    <3>1. CASE i = 1
      BY <1>3, <3>1
    <3>2. CASE i # 1
      <4>1. PICK k \in 1 .. L : i = k + 1
        BY <1>1, <1>4, <3>2
      <4>2. q[k] = r[i]
        BY <1>3, <4>1
      <4>. QED
        BY <4>2
    <3>. QED
      BY <3>1, <3>2
  <2>2. ASSUME NEW k \in 1 .. L PROVE \E i \in 1 .. L + 1 : r[i] = q[k]
    <3>1. k + 1 \in 1 .. L + 1 /\ r[k + 1] = q[k]
      BY <1>3
    <3>. QED
      BY <3>1
  <2>3. \E i \in 1 .. L + 1 : r[i] = n
    <3>1. 1 \in 1 .. L + 1
      OBVIOUS
    <3>. QED
      BY <1>3, <3>1
  <2>. QED
    BY <2>1, <2>2, <2>3
<1>. QED
  BY <1>1, <1>2, <1>3, <1>5, <1>6 DEF Met

(***************************************************************************)
(* A walk along pointers.                                                  *)
(***************************************************************************)
\* Where the pointer to the i-th node of p leads, when stop ends the list.
Place(p, i, stop) == IF i \in 1 .. Len(p) THEN p[i] ELSE stop

\* What the recursive function of Walk is.
WalkFrom(next, start, stop) ==
    CHOOSE f : f = [k \in 0 .. Cardinality(Node) |->
                       IF k = 0 THEN start
                       ELSE IF f[k - 1] = stop THEN stop ELSE next[f[k - 1]]]

LEMMA WalkIsFrom ==
    ASSUME NEW next, NEW start, NEW stop
    PROVE  Walk(next, start, stop) =
              [k \in 1 .. Cardinality({k \in 0 .. Cardinality(Node) :
                                          WalkFrom(next, start, stop)[k] # stop}) |->
                  WalkFrom(next, start, stop)[k - 1]]
BY DEF Walk, WalkFrom

\* A sequence of distinct nodes is no longer than there are nodes.
LEMMA NoLonger ==
    ASSUME NEW p \in Seq(Node), Once(p)
    PROVE  Len(p) \in Nat /\ Cardinality(Node) \in Nat /\ Len(p) <= Cardinality(Node)
<1>1. Len(p) \in Nat /\ p \in [1 .. Len(p) -> Node]
  OBVIOUS
<1>2. p \in Injection(1 .. Len(p), Node)
  BY <1>1 DEF Once, Injection, IsInjective
<1>3. Cardinality(1 .. Len(p)) <= Cardinality(Node)
  BY <1>2, NodesAreFinite, FS_Injection
<1>4. Cardinality(1 .. Len(p)) = Len(p)
  BY <1>1, FS_Interval
<1>. QED
  BY <1>1, <1>3, <1>4, NodesAreFinite, FS_CardinalityType

\* A walk along pointers that connect the nodes of p is p.
LEMMA WalkIs ==
    ASSUME NEW p \in Seq(Node), Once(p), NEW next, NEW start, NEW stop,
           stop \notin Node, start = Place(p, 1, stop),
           \A i \in 1 .. Len(p) : next[p[i]] = Place(p, i + 1, stop)
    PROVE  Walk(next, start, stop) = p
<1>. DEFINE f == WalkFrom(next, start, stop)
            g == [k \in 0 .. Cardinality(Node) |-> Place(p, k + 1, stop)]
<1>1. PICK n \in Nat : n = Len(p)
  OBVIOUS
<1>2. PICK N \in Nat : N = Cardinality(Node)
  BY NoLonger
<1>3. n <= N
  BY <1>1, <1>2, NoLonger
<1>4. \A i \in 1 .. n : p[i] \in Node /\ p[i] # stop
  BY <1>1
<1>5. \A k \in 0 .. N : /\ g[k] = Place(p, k + 1, stop)
                        /\ g[k] = IF k < n THEN p[k + 1] ELSE stop
  BY <1>1, <1>2 DEF Place
<1>16. g = [k \in 0 .. N |-> g[k]]
  BY <1>2
<1>. HIDE DEF f, g
<1>6. g = [k \in 0 .. N |-> IF k = 0 THEN start
                            ELSE IF g[k - 1] = stop THEN stop ELSE next[g[k - 1]]]
  <2>1. g[0] = start
    BY <1>2, <1>5
  <2>2. ASSUME NEW k \in 0 .. N, k # 0
        PROVE  g[k] = IF g[k - 1] = stop THEN stop ELSE next[g[k - 1]]
    <3>1. PICK j \in 0 .. N : j = k - 1 /\ k = j + 1
      BY <2>2
    <3>2. CASE j < n
      <4>1. k \in 1 .. n /\ g[j] = p[k]
        BY <1>5, <3>1, <3>2
      <4>2. next[p[k]] = Place(p, k + 1, stop)
        BY <1>1, <4>1
      <4>3. g[k] = Place(p, k + 1, stop)
        BY <1>5
      <4>. QED
        BY <1>4, <3>1, <4>1, <4>2, <4>3
    <3>3. CASE ~(j < n)
      <4>1. g[j] = stop /\ g[k] = stop
        BY <1>5, <3>1, <3>3
      <4>. QED
        BY <3>1, <4>1
    <3>. QED
      BY <3>2, <3>3
  <2>. QED
    BY <1>16, <2>1, <2>2
<1>7. f = [k \in 0 .. N |-> IF k = 0 THEN start
                            ELSE IF f[k - 1] = stop THEN stop ELSE next[f[k - 1]]]
  BY <1>2, <1>6, Zenon DEF WalkFrom, f
<1>8. f[0] = start /\ \A k \in 1 .. N : f[k] = IF f[k - 1] = stop THEN stop ELSE next[f[k - 1]]
  BY <1>7
<1>9. g[0] = start /\ \A k \in 1 .. N : g[k] = IF g[k - 1] = stop THEN stop ELSE next[g[k - 1]]
  BY <1>6
<1>10. \A k \in 0 .. N : f[k] = g[k]
  <2>. SUFFICES ASSUME {k \in 0 .. N : f[k] # g[k]} # {} PROVE FALSE
    OBVIOUS
  <2>0. {x \in 0 .. N : f[x] # g[x]} \subseteq Nat
    OBVIOUS
  <2>1. PICK k \in {x \in 0 .. N : f[x] # g[x]} : \A y \in {x \in 0 .. N : f[x] # g[x]} : k <= y
    BY <2>0, LeastNumber
  <2>2. k # 0
    BY <1>8, <1>9, <2>1
  <2>3. k \in 1 .. N /\ k - 1 \in 0 .. N /\ f[k - 1] = g[k - 1]
    BY <2>1, <2>2
  <2>. QED
    BY <1>8, <1>9, <2>1, <2>3
<1>11. {k \in 0 .. N : f[k] # stop} = 0 .. n - 1
  <2>1. ASSUME NEW k \in 0 .. N, k < n PROVE f[k] # stop
    <3>1. k + 1 \in 1 .. n
      BY <2>1
    <3>2. f[k] = p[k + 1]
      BY <1>5, <1>10, <2>1
    <3>. QED
      BY <1>4, <3>1, <3>2
  <2>2. ASSUME NEW k \in 0 .. N, ~(k < n) PROVE f[k] = stop
    BY <1>5, <1>10, <2>2
  <2>3. \A k : k \in 0 .. n - 1 <=> k \in 0 .. N /\ k < n
    BY <1>3
  <2>. QED
    BY <2>1, <2>2, <2>3
<1>12. Cardinality({k \in 0 .. N : f[k] # stop}) = n
  <2>1. Cardinality(0 .. n - 1) = n
    <3>1. PICK m \in Int : m = n - 1
      OBVIOUS
    <3>2. Cardinality(0 .. m) = IF 0 > m THEN 0 ELSE m - 0 + 1
      BY FS_Interval
    <3>. QED
      BY <3>1, <3>2
  <2>. QED
    BY <1>11, <2>1
<1>13. Walk(next, start, stop) = [k \in 1 .. n |-> f[k - 1]]
  BY <1>2, <1>12, WalkIsFrom DEF f
<1>14. \A k \in 1 .. n : f[k - 1] = p[k]
  BY <1>3, <1>5, <1>10
<1>15. p = [k \in 1 .. n |-> p[k]]
  BY <1>1
<1>. QED
  BY <1>13, <1>14, <1>15

(***************************************************************************)
(* The ring of lru_next and lru_prev.                                      *)
(***************************************************************************)
Pointers == [Listed -> Listed \cup {NULL}]

\* Position 0 and the one behind the last are the sentinel's.
at(p, i) == Place(p, i, lru_sentinel)

\* The nodes of p in their order, closed by the sentinel.
Ring(nx, pv, p) == \A i \in 0 .. Len(p) :
    /\ nx[at(p, i)] = at(p, i + 1)
    /\ pv[at(p, i + 1)] = at(p, i)

\* All of it: the pointers are in order for the nodes of p.
OnRing(nx, pv, p) ==
    /\ nx \in Pointers /\ pv \in Pointers
    /\ p \in Seq(Node) /\ Once(p)
    /\ Ring(nx, pv, p)

\* Taking out n leaves its own pointers and joins its neighbours.
Joined(nx, pv, nx1, pv1, n) ==
    /\ nx1[n] = nx[n] /\ pv1[n] = pv[n]
    /\ nx1[pv[n]] = nx[n] /\ pv1[nx[n]] = pv[n]

LEMMA PlacesOnRing ==
    ASSUME NEW p \in Seq(Node), Once(p)
    PROVE  /\ Len(p) \in Nat
           /\ \A i : at(p, i) \in Listed
           /\ \A i, j \in 0 .. Len(p) : at(p, i) = at(p, j) => i = j
           /\ \A i, j \in 0 .. Len(p) : at(p, i + 1) = at(p, j + 1) => i = j
<1>1. \A i : at(p, i) \in Listed
  BY DEF at, Place, Listed
<1>2. lru_sentinel \notin Node
  BY PointersDiffer
<1>3. \A i \in 1 .. Len(p) : p[i] \in Node
  OBVIOUS
<1>4. ASSUME NEW i \in 0 .. Len(p), NEW j \in 0 .. Len(p), at(p, i) = at(p, j)
      PROVE  i = j
  BY <1>2, <1>3, <1>4 DEF at, Place, Once
<1>5. ASSUME NEW i \in 0 .. Len(p), NEW j \in 0 .. Len(p), at(p, i + 1) = at(p, j + 1)
      PROVE  i = j
  <2>1. PICK x \in Nat, y \in Nat : x = i + 1 /\ y = j + 1
    OBVIOUS
  <2>. QED
    BY <1>2, <1>3, <1>5, <2>1 DEF at, Place, Once
<1>. QED
  BY <1>1, <1>4, <1>5

\* lru_remove takes a node out of the ring and leaves its own pointers.
LEMMA TakenFromRing ==
    ASSUME NEW nx \in Pointers, NEW pv \in Pointers, NEW p \in Seq(Node), Once(p),
           Ring(nx, pv, p), NEW j \in 1 .. Len(p), NEW n, n = p[j],
           NEW nx1, nx1 = [nx EXCEPT ![pv[n]] = nx[n]],
           NEW pv1, pv1 = [pv EXCEPT ![nx[n]] = pv[n]]
    PROVE  OnRing(nx1, pv1, RemoveAt(p, j)) /\ Joined(nx, pv, nx1, pv1, n)
<1>1. PICK L \in Nat : L = Len(p)
  OBVIOUS
<1>2. PICK q : q = RemoveAt(p, j)
  OBVIOUS
<1>3. /\ q \in Seq(Node) /\ Len(q) = L - 1
      /\ \A i \in 1 .. L - 1 : q[i] = IF i < j THEN p[i] ELSE p[i + 1]
  BY <1>1, <1>2, TakenOut
<1>4. /\ \A i : at(p, i) \in Listed
      /\ \A x, y \in 0 .. L : at(p, x) = at(p, y) => x = y
      /\ \A x, y \in 0 .. L : at(p, x + 1) = at(p, y + 1) => x = y
  BY <1>1, PlacesOnRing
<1>5. \A i \in 0 .. L : /\ nx[at(p, i)] = at(p, i + 1)
                        /\ pv[at(p, i + 1)] = at(p, i)
  BY <1>1 DEF Ring
<1>6. n = at(p, j) /\ n \in Listed /\ n \in Node /\ n # lru_sentinel
  BY PointersDiffer DEF at, Place, Listed
<1>7. PICK k \in 0 .. L : j = k + 1
  <2>1. j - 1 \in 0 .. L /\ j = (j - 1) + 1
    BY <1>1
  <2>. QED
    BY <2>1
<1>8. nx[n] = at(p, j + 1) /\ pv[n] = at(p, k)
  BY <1>1, <1>5, <1>6, <1>7
<1>9. nx[n] # n /\ pv[n] # n
  BY <1>1, <1>4, <1>6, <1>7, <1>8
<1>10. \A i \in 0 .. L : at(q, i) = IF i < j THEN at(p, i) ELSE at(p, i + 1)
  <2>. SUFFICES ASSUME NEW i \in 0 .. L
                PROVE  at(q, i) = IF i < j THEN at(p, i) ELSE at(p, i + 1)
    OBVIOUS
  <2>1. CASE i \in 1 .. L - 1
    BY <1>1, <1>3, <2>1 DEF at, Place
  <2>2. CASE i = 0
    BY <1>1, <1>3, <2>2 DEF at, Place
  <2>3. CASE i = L /\ i # 0
    BY <1>1, <1>3, <2>3 DEF at, Place
  <2>. QED
    BY <2>1, <2>2, <2>3
<1>11. Once(q)
  BY <1>2, OnceTaken
<1>12. \A x \in Listed : /\ nx1[x] = IF x = pv[n] THEN nx[n] ELSE nx[x]
                         /\ pv1[x] = IF x = nx[n] THEN pv[n] ELSE pv[x]
  BY DEF Pointers
<1>13. nx1 \in Pointers /\ pv1 \in Pointers
  BY <1>6 DEF Pointers
<1>14. pv[n] \in Listed /\ nx[n] \in Listed
  BY <1>4, <1>8
<1>15. ASSUME NEW i \in 0 .. L - 1
       PROVE  nx1[at(q, i)] = at(q, i + 1) /\ pv1[at(q, i + 1)] = at(q, i)
  <2>1. PICK m \in 0 .. L : m = i + 1
    BY <1>1
  <2>2. CASE m < j
    <3>1. at(q, i) = at(p, i) /\ at(q, m) = at(p, m)
      BY <1>10, <2>1, <2>2
    <3>2. at(p, i) # pv[n] /\ at(p, m) # nx[n]
      BY <1>1, <1>4, <1>7, <1>8, <2>1, <2>2
    <3>. QED
      BY <1>4, <1>5, <1>12, <2>1, <3>1, <3>2
  <2>3. CASE m = j
    <3>1. at(q, i) = at(p, i) /\ at(q, m) = at(p, m + 1)
      BY <1>10, <2>1, <2>3
    <3>2. at(p, i) = pv[n] /\ at(p, m + 1) = nx[n]
      BY <1>1, <1>7, <1>8, <2>1, <2>3
    <3>. QED
      BY <1>12, <1>14, <2>1, <3>1, <3>2
  <2>4. CASE m > j
    <3>1. at(q, i) = at(p, m) /\ at(q, m) = at(p, m + 1)
      BY <1>10, <2>1, <2>4
    <3>2. at(p, m) # pv[n] /\ at(p, m + 1) # nx[n]
      BY <1>1, <1>4, <1>7, <1>8, <2>1, <2>4
    <3>. QED
      BY <1>4, <1>5, <1>12, <2>1, <3>1, <3>2
  <2>. QED
    BY <2>1, <2>2, <2>3, <2>4
<1>16. Ring(nx1, pv1, q)
  BY <1>3, <1>15 DEF Ring
<1>. QED
  BY <1>2, <1>3, <1>6, <1>9, <1>11, <1>12, <1>13, <1>14, <1>16 DEF OnRing, Joined

\* lru_push_front puts a node that is not in the ring behind the sentinel.
LEMMA PutOntoRing ==
    ASSUME NEW nx \in Pointers, NEW pv \in Pointers, NEW p \in Seq(Node), Once(p),
           Ring(nx, pv, p), NEW n \in Node, ~Met(n, p),
           NEW nx1, nx1 = [nx EXCEPT ![n] = nx[lru_sentinel], ![lru_sentinel] = n],
           NEW pv1, pv1 = [pv EXCEPT ![n] = lru_sentinel, ![nx[lru_sentinel]] = n]
    PROVE  OnRing(nx1, pv1, <<n>> \o p)
<1>1. PICK L \in Nat : L = Len(p)
  OBVIOUS
<1>2. PICK q : q = <<n>> \o p
  OBVIOUS
<1>3. /\ q \in Seq(Node) /\ Len(q) = L + 1 /\ q[1] = n
      /\ \A i \in 1 .. L : q[i + 1] = p[i]
  BY <1>1, <1>2, PutInFront
<1>4. /\ \A i : at(p, i) \in Listed
      /\ \A x, y \in 0 .. L : at(p, x) = at(p, y) => x = y
      /\ \A x, y \in 0 .. L : at(p, x + 1) = at(p, y + 1) => x = y
  BY <1>1, PlacesOnRing
<1>5. \A i \in 0 .. L : /\ nx[at(p, i)] = at(p, i + 1)
                        /\ pv[at(p, i + 1)] = at(p, i)
  BY <1>1 DEF Ring
<1>6. n \in Listed /\ n # lru_sentinel /\ lru_sentinel \in Listed
  BY PointersDiffer DEF Listed
<1>7. at(p, 0) = lru_sentinel /\ nx[lru_sentinel] = at(p, 1)
  <2>1. at(p, 0) = lru_sentinel
    BY DEF at, Place
  <2>. QED
    BY <1>5, <2>1
<1>8. \A i : at(p, i) # n
  BY <1>6 DEF at, Place, Met
<1>9. \A i \in 0 .. L + 1 : at(q, i + 1) = IF i = 0 THEN n ELSE at(p, i)
  <2>. SUFFICES ASSUME NEW i \in 0 .. L + 1
                PROVE  at(q, i + 1) = IF i = 0 THEN n ELSE at(p, i)
    OBVIOUS
  <2>1. CASE i = 0
    BY <1>3, <2>1 DEF at, Place
  <2>2. CASE i \in 1 .. L
    BY <1>1, <1>3, <2>2 DEF at, Place
  <2>3. CASE i = L + 1
    BY <1>1, <1>3, <2>3 DEF at, Place
  <2>. QED
    BY <2>1, <2>2, <2>3
<1>10. at(q, 0) = lru_sentinel
  BY DEF at, Place
<1>11. Once(q)
  BY <1>2, OncePut
<1>12. at(p, 1) \in Listed /\ at(p, 1) # n
  BY <1>4, <1>8
<1>13. \A x \in Listed :
          /\ nx1[x] = IF x = lru_sentinel THEN n
                      ELSE IF x = n THEN at(p, 1) ELSE nx[x]
          /\ pv1[x] = IF x = at(p, 1) THEN n
                      ELSE IF x = n THEN lru_sentinel ELSE pv[x]
  BY <1>6, <1>7, <1>12 DEF Pointers
<1>14. nx1 \in Pointers /\ pv1 \in Pointers
  BY <1>6, <1>7, <1>12 DEF Pointers
<1>15. ASSUME NEW i \in 0 .. L + 1
       PROVE  nx1[at(q, i)] = at(q, i + 1) /\ pv1[at(q, i + 1)] = at(q, i)
  <2>1. CASE i = 0
    <3>1. at(q, i) = lru_sentinel /\ at(q, i + 1) = n
      BY <1>9, <1>10, <2>1
    <3>. QED
      BY <1>6, <1>12, <1>13, <3>1
  <2>2. CASE i = 1
    <3>1. at(q, 1) = n
      BY <1>9
    <3>2. at(q, i + 1) = at(p, 1)
      BY <1>9, <2>2
    <3>. QED
      BY <1>6, <1>12, <1>13, <2>2, <3>1, <3>2
  <2>3. CASE i > 1
    <3>1. PICK k \in 1 .. L : i = k + 1
      <4>1. i - 1 \in 1 .. L /\ i = (i - 1) + 1
        BY <1>1, <2>3
      <4>. QED
        BY <4>1
    <3>2. at(q, i) = at(p, k) /\ at(q, i + 1) = at(p, i)
      BY <1>9, <3>1
    <3>3. at(p, k) # lru_sentinel /\ at(p, k) # n
      BY <1>1, <1>4, <1>7, <1>8, <3>1
    <3>4. at(p, i) # at(p, 1) /\ at(p, i) # n
      <4>1. k \in 0 .. L /\ 0 \in 0 .. L /\ k # 0 /\ 0 + 1 = 1
        BY <3>1
      <4>2. at(p, k + 1) # at(p, 0 + 1)
        BY <1>4, <4>1
      <4>. QED
        BY <1>8, <3>1, <4>1, <4>2
    <3>5. nx[at(p, k)] = at(p, i) /\ pv[at(p, i)] = at(p, k)
      BY <1>5, <3>1
    <3>. QED
      BY <1>4, <1>13, <3>2, <3>3, <3>4, <3>5
  <2>. QED
    BY <2>1, <2>2, <2>3
<1>16. Ring(nx1, pv1, q)
  BY <1>3, <1>15 DEF Ring
<1>. QED
  BY <1>2, <1>3, <1>11, <1>14, <1>16 DEF OnRing

LEMMA OnRingTaken ==
    ASSUME NEW nx, NEW pv, NEW p, OnRing(nx, pv, p),
           NEW j, j \in 1 .. Len(p), NEW n, n = p[j],
           NEW nx1, nx1 = [nx EXCEPT ![pv[n]] = nx[n]],
           NEW pv1, pv1 = [pv EXCEPT ![nx[n]] = pv[n]]
    PROVE  /\ OnRing(nx1, pv1, RemoveAt(p, j))
           /\ [nx1 EXCEPT ![pv1[n]] = nx1[n]] = nx1
           /\ [pv1 EXCEPT ![nx1[n]] = pv1[n]] = pv1
<1>1. PICK x \in Pointers, v \in Pointers, q \in Seq(Node) : x = nx /\ v = pv /\ q = p
  BY DEF OnRing
<1>2. PICK i \in 1 .. Len(q) : i = j
  BY <1>1
<1>3. Once(q) /\ Ring(x, v, q)
  BY <1>1 DEF OnRing
<1>4. PICK x1, v1 : x1 = [x EXCEPT ![v[n]] = x[n]] /\ v1 = [v EXCEPT ![x[n]] = v[n]]
  OBVIOUS
<1>5. n = q[i]
  BY <1>1, <1>2
<1>6. OnRing(x1, v1, RemoveAt(q, i))
  BY <1>3, <1>4, <1>5, TakenFromRing
<1>7. Joined(x, v, x1, v1, n)
  BY <1>3, <1>4, <1>5, TakenFromRing
<1>8. [x1 EXCEPT ![v1[n]] = x1[n]] = x1 /\ [v1 EXCEPT ![x1[n]] = v1[n]] = v1
  BY <1>6, <1>7 DEF OnRing, Pointers, Joined
<1>9. x1 = nx1 /\ v1 = pv1
  BY <1>1, <1>4
<1>. QED
  BY <1>1, <1>2, <1>6, <1>8, <1>9

LEMMA OnRingPut ==
    ASSUME NEW nx, NEW pv, NEW p, OnRing(nx, pv, p), NEW n, n \in Node, ~Met(n, p),
           NEW nx1, nx1 = [nx EXCEPT ![n] = nx[lru_sentinel], ![lru_sentinel] = n],
           NEW pv1, pv1 = [pv EXCEPT ![n] = lru_sentinel, ![nx[lru_sentinel]] = n]
    PROVE  OnRing(nx1, pv1, <<n>> \o p)
<1>1. PICK x \in Pointers, v \in Pointers, q \in Seq(Node) : x = nx /\ v = pv /\ q = p
  BY DEF OnRing
<1>2. PICK m \in Node : m = n
  OBVIOUS
<1>3. Once(q) /\ Ring(x, v, q) /\ ~Met(m, q)
  BY <1>1, <1>2 DEF OnRing
<1>4. PICK x1, v1 : /\ x1 = [x EXCEPT ![m] = x[lru_sentinel], ![lru_sentinel] = m]
                    /\ v1 = [v EXCEPT ![m] = lru_sentinel, ![x[lru_sentinel]] = m]
  OBVIOUS
<1>5. OnRing(x1, v1, <<m>> \o q)
  BY <1>3, <1>4, PutOntoRing
<1>6. x1 = nx1 /\ v1 = pv1
  BY <1>1, <1>2, <1>4
<1>. QED
  BY <1>1, <1>2, <1>5, <1>6

\* Read either way from the sentinel, the ring is the sequence.
LEMMA RingIsWalked ==
    ASSUME NEW nx, NEW pv, NEW p \in Seq(Node), Once(p), Ring(nx, pv, p)
    PROVE  /\ Walk(nx, nx[lru_sentinel], lru_sentinel) = p
           /\ Walk(pv, pv[lru_sentinel], lru_sentinel) = Reverse(p)
<1>1. PICK L \in Nat : L = Len(p)
  OBVIOUS
<1>2. lru_sentinel \notin Node
  BY PointersDiffer
<1>3. \A i \in 0 .. L : /\ nx[at(p, i)] = at(p, i + 1)
                        /\ pv[at(p, i + 1)] = at(p, i)
  BY <1>1 DEF Ring
<1>4. at(p, 0) = lru_sentinel /\ at(p, L + 1) = lru_sentinel
  BY <1>1 DEF at, Place
<1>5. \A i \in 1 .. L : at(p, i) = p[i] /\ p[i] \in Node
  BY <1>1 DEF at, Place
<1>6. Walk(nx, nx[lru_sentinel], lru_sentinel) = p
  <2>1. nx[lru_sentinel] = Place(p, 1, lru_sentinel)
    BY <1>3, <1>4 DEF at
  <2>2. \A i \in 1 .. Len(p) : nx[p[i]] = Place(p, i + 1, lru_sentinel)
    BY <1>1, <1>3, <1>5 DEF at
  <2>. QED
    BY <1>2, <2>1, <2>2, WalkIs
<1>7. Walk(pv, pv[lru_sentinel], lru_sentinel) = Reverse(p)
  <2>1. PICK r : r = Reverse(p)
    OBVIOUS
  <2>2. r = [i \in 1 .. L |-> p[(L - i) + 1]]
    BY <1>1, <2>1 DEF Reverse
  <2>3. \A i \in 1 .. L : (L - i) + 1 \in 1 .. L /\ r[i] = p[(L - i) + 1]
    BY <2>2
  <2>4. r \in Seq(Node) /\ Len(r) = L
    BY <1>5, <2>2, <2>3
  <2>5. Once(r)
    <3>. SUFFICES ASSUME NEW x \in 1 .. L, NEW y \in 1 .. L, r[x] = r[y]
                  PROVE  x = y
      BY <2>4 DEF Once
    <3>1. (L - x) + 1 = (L - y) + 1
      BY <1>1, <2>3 DEF Once
    <3>. QED
      BY <3>1
  <2>6. \A i \in 0 .. L + 1 : at(r, i) = at(p, (L - i) + 1)
    <3>. SUFFICES ASSUME NEW i \in 0 .. L + 1 PROVE at(r, i) = at(p, (L - i) + 1)
      OBVIOUS
    <3>1. PICK k \in 0 .. L + 1 : k = (L - i) + 1
      OBVIOUS
    <3>2. CASE i \in 1 .. L
      BY <1>1, <2>3, <2>4, <3>2 DEF at, Place
    <3>3. CASE i \notin 1 .. L
      BY <1>1, <2>4, <3>1, <3>3 DEF at, Place
    <3>. QED
      BY <3>2, <3>3
  <2>7. \A i \in 0 .. L : pv[at(r, i)] = at(r, i + 1)
    <3>. SUFFICES ASSUME NEW i \in 0 .. L PROVE pv[at(r, i)] = at(r, i + 1)
      OBVIOUS
    <3>1. PICK k \in 0 .. L : k = L - i
      OBVIOUS
    <3>2. at(r, i) = at(p, k + 1) /\ at(r, i + 1) = at(p, k)
      BY <2>6, <3>1
    <3>. QED
      BY <1>3, <3>2
  <2>8. pv[lru_sentinel] = Place(r, 1, lru_sentinel)
    <3>1. at(r, 0) = lru_sentinel
      BY DEF at, Place
    <3>. QED
      BY <2>7, <3>1 DEF at
  <2>9. \A i \in 1 .. Len(r) : pv[r[i]] = Place(r, i + 1, lru_sentinel)
    <3>1. \A i \in 1 .. L : at(r, i) = r[i]
      BY <2>4 DEF at, Place
    <3>. QED
      BY <2>4, <2>7, <3>1 DEF at
  <2>. QED
    BY <1>2, <2>1, <2>4, <2>5, <2>8, <2>9, WalkIs
<1>. QED
  BY <1>6, <1>7

(***************************************************************************)
(* The chain of a bucket.                                                  *)
(***************************************************************************)
\* The chain that begins at start is q.
Linked(hn, start, q) ==
    /\ start = Place(q, 1, NULL)
    /\ \A i \in 1 .. Len(q) : hn[q[i]] = Place(q, i + 1, NULL)

LEMMA ChainIsWalked ==
    ASSUME NEW hn, NEW start, NEW q \in Seq(Node), Once(q), Linked(hn, start, q)
    PROVE  Walk(hn, start, NULL) = q
BY PointersDiffer, WalkIs DEF Linked

\* Bending the pointer to a node takes it out of the chain.
LEMMA TakenFromChain ==
    ASSUME NEW hn, NEW start, NEW q \in Seq(Node), Once(q), Linked(hn, start, q),
           NEW j \in 1 .. Len(q), NEW n, n = q[j],
           NEW hn1, NEW start1,
           start = n => hn1 = hn /\ start1 = hn[n],
           start # n =>
              /\ start1 = start
              /\ \A m \in Node : hn1[m] =
                    IF Met(m, q) /\ hn[m] = n
                    THEN hn[n] ELSE hn[m]
    PROVE  Linked(hn1, start1, RemoveAt(q, j))
<1>1. PICK L \in Nat : L = Len(q)
  OBVIOUS
<1>2. PICK r : r = RemoveAt(q, j)
  OBVIOUS
<1>3. /\ r \in Seq(Node) /\ Len(r) = L - 1
      /\ \A i \in 1 .. L - 1 : r[i] = IF i < j THEN q[i] ELSE q[i + 1]
  BY <1>1, <1>2, TakenOut
<1>4. \A i \in 1 .. L : q[i] \in Node
  BY <1>1
<1>5. Once(r) /\ \A m : Met(m, r) <=> Met(m, q) /\ m # n
  BY <1>1, <1>2, OnceTaken
<1>7. \A i \in 1 .. L : Place(r, i, NULL) = IF i < j THEN Place(q, i, NULL)
                                            ELSE Place(q, i + 1, NULL)
  <2>. SUFFICES ASSUME NEW i \in 1 .. L
                PROVE  Place(r, i, NULL) = IF i < j THEN Place(q, i, NULL)
                                           ELSE Place(q, i + 1, NULL)
    OBVIOUS
  <2>1. CASE i \in 1 .. L - 1
    BY <1>1, <1>3, <2>1 DEF Place
  <2>2. CASE i = L
    BY <1>1, <1>3, <2>2 DEF Place
  <2>. QED
    BY <2>1, <2>2
<1>8. /\ start = Place(q, 1, NULL)
      /\ \A i \in 1 .. L : hn[q[i]] = Place(q, i + 1, NULL) /\ q[i] = Place(q, i, NULL)
  BY <1>1 DEF Linked, Place
<1>9. NULL \notin Node
  BY PointersDiffer
<1>10. ASSUME NEW i \in 1 .. L + 1, i # j PROVE Place(q, i, NULL) # n
  BY <1>1, <1>4, <1>9, <1>10 DEF Place, Once
<1>11. start = n <=> j = 1
  BY <1>1, <1>8, <1>10
<1>12. \A i \in 1 .. L : hn1[q[i]] = IF j = 1 \/ i + 1 # j THEN hn[q[i]] ELSE hn[n]
  <2>. SUFFICES ASSUME NEW i \in 1 .. L
                PROVE  hn1[q[i]] = IF j = 1 \/ i + 1 # j THEN hn[q[i]] ELSE hn[n]
    OBVIOUS
  <2>1. CASE j = 1
    BY <1>11, <2>1
  <2>2. CASE j # 1
    <3>1. hn1[q[i]] = IF hn[q[i]] = n THEN hn[n] ELSE hn[q[i]]
      BY <1>1, <1>4, <1>11, <2>2 DEF Met
    <3>2. hn[q[i]] = n <=> i + 1 = j
      BY <1>1, <1>8, <1>10
    <3>. QED
      BY <2>2, <3>1, <3>2
  <2>. QED
    BY <2>1, <2>2
<1>13. start1 = Place(r, 1, NULL)
  <2>1. CASE j = 1
    BY <1>1, <1>7, <1>8, <1>11, <2>1
  <2>2. CASE j # 1
    BY <1>1, <1>7, <1>8, <1>11, <2>2
  <2>. QED
    BY <2>1, <2>2
<1>14. ASSUME NEW i \in 1 .. L - 1 PROVE hn1[r[i]] = Place(r, i + 1, NULL)
  <2>1. CASE i + 1 < j
    <3>1. r[i] = q[i] /\ Place(r, i + 1, NULL) = Place(q, i + 1, NULL)
      BY <1>1, <1>3, <1>7, <2>1
    <3>. QED
      BY <1>1, <1>8, <1>12, <2>1, <3>1
  <2>2. CASE i + 1 = j
    <3>1. r[i] = q[i] /\ Place(r, i + 1, NULL) = Place(q, j + 1, NULL)
      BY <1>1, <1>3, <1>7, <2>2
    <3>2. hn1[q[i]] = hn[n]
      BY <1>1, <1>12, <2>2
    <3>. QED
      BY <1>1, <1>8, <3>1, <3>2
  <2>3. CASE i + 1 > j
    <3>1. PICK k \in 1 .. L : k = i + 1
      BY <1>1
    <3>2. r[i] = q[k] /\ Place(r, k, NULL) = Place(q, k + 1, NULL)
      BY <1>1, <1>3, <1>7, <2>3, <3>1
    <3>3. hn1[q[k]] = hn[q[k]]
      BY <1>1, <1>12, <2>3, <3>1
    <3>. QED
      BY <1>8, <3>1, <3>2, <3>3
  <2>. QED
    BY <2>1, <2>2, <2>3
<1>15. Linked(hn1, start1, r)
  BY <1>3, <1>13, <1>14 DEF Linked
<1>. QED
  BY <1>1, <1>2, <1>3, <1>5, <1>15

\* A node that is in no chain goes to the front of one.
LEMMA PutOntoChain ==
    ASSUME NEW hn \in [Node -> Node \cup {NULL}], NEW start, start \in Node \cup {NULL},
           NEW q \in Seq(Node), Once(q), Linked(hn, start, q),
           NEW n \in Node, ~Met(n, q),
           NEW hn1, hn1 = [hn EXCEPT ![n] = start]
    PROVE  Linked(hn1, n, <<n>> \o q)
<1>1. PICK L \in Nat : L = Len(q)
  OBVIOUS
<1>2. PICK r : r = <<n>> \o q
  OBVIOUS
<1>3. /\ r \in Seq(Node) /\ Len(r) = L + 1 /\ r[1] = n
      /\ \A i \in 1 .. L : r[i + 1] = q[i]
  BY <1>1, <1>2, PutInFront
<1>4. \A i \in 2 .. L + 1 : \E k \in 1 .. L : i = k + 1
  <2>. SUFFICES ASSUME NEW i \in 2 .. L + 1 PROVE \E k \in 1 .. L : i = k + 1
    OBVIOUS
  <2>1. i - 1 \in 1 .. L /\ i = (i - 1) + 1
    OBVIOUS
  <2>. QED
    BY <2>1
<1>5. Once(r) /\ \A m : Met(m, r) <=> Met(m, q) \/ m = n
  BY <1>1, <1>2, OncePut
<1>7. \A m \in Node : hn1[m] = IF m = n THEN start ELSE hn[m]
  OBVIOUS
<1>8. \A i \in 1 .. L + 1 : Place(r, i + 1, NULL) = Place(q, i, NULL)
  BY <1>1, <1>3 DEF Place
<1>9. ASSUME NEW i \in 1 .. L + 1 PROVE hn1[r[i]] = Place(r, i + 1, NULL)
  <2>1. CASE i = 1
    BY <1>3, <1>7, <1>8, <2>1 DEF Linked
  <2>2. CASE i # 1
    <3>1. PICK k \in 1 .. L : i = k + 1
      BY <1>4, <2>2
    <3>2. r[i] = q[k] /\ q[k] \in Node /\ q[k] # n
      BY <1>1, <1>3, <3>1 DEF Met
    <3>3. hn[q[k]] = Place(q, k + 1, NULL)
      BY <1>1 DEF Linked
    <3>. QED
      BY <1>7, <1>8, <3>1, <3>2, <3>3
  <2>. QED
    BY <2>1, <2>2
<1>10. n = Place(r, 1, NULL)
  BY <1>3 DEF Place
<1>11. Linked(hn1, n, r)
  BY <1>3, <1>9, <1>10 DEF Linked
<1>. QED
  BY <1>1, <1>2, <1>3, <1>5, <1>11

(***************************************************************************)
(* The struct: its fields, and what each static function does to them.     *)
(***************************************************************************)
Heap == UNION {[ns -> Entry] : ns \in SUBSET Node}

LEMMA HeapIs ==
    ASSUME NEW f
    PROVE  f \in Heap <=> /\ DOMAIN f \subseteq Node
                          /\ f = [n \in DOMAIN f |-> f[n]]
                          /\ \A n \in DOMAIN f : f[n] \in Entry
<1>1. ASSUME f \in Heap
      PROVE  /\ DOMAIN f \subseteq Node
             /\ f = [n \in DOMAIN f |-> f[n]]
             /\ \A n \in DOMAIN f : f[n] \in Entry
  <2>1. PICK ns \in SUBSET Node : f \in [ns -> Entry]
    BY <1>1 DEF Heap
  <2>. QED
    BY <2>1
<1>2. ASSUME DOMAIN f \subseteq Node, f = [n \in DOMAIN f |-> f[n]],
             \A n \in DOMAIN f : f[n] \in Entry
      PROVE  f \in Heap
  <2>1. f \in [DOMAIN f -> Entry] /\ DOMAIN f \in SUBSET Node
    BY <1>2
  <2>. QED
    BY <2>1 DEF Heap
<1>. QED
  BY <1>1, <1>2

\* A struct with these fields, and that d has no others.
Made(data, buckets, hash_next, lru_prev, lru_next, size) ==
    [data |-> data, buckets |-> buckets, hash_next |-> hash_next,
     lru_prev |-> lru_prev, lru_next |-> lru_next, size |-> size]

Fields(d) == d = Made(d.data, d.buckets, d.hash_next, d.lru_prev, d.lru_next, d.size)

LEMMA StructFields ==
    ASSUME NEW d \in Struct
    PROVE  /\ Fields(d)
           /\ d.data \in Heap
           /\ d.buckets \in [Bucket -> Node \cup {NULL}]
           /\ d.hash_next \in [Node -> Node \cup {NULL}]
           /\ d.lru_prev \in Pointers /\ d.lru_next \in Pointers
           /\ d.size \in 0 .. capacity /\ d.size \in Nat
BY CapacityIsPositive DEF Struct, Made, Heap, Pointers, Fields

LEMMA MadeFields ==
    ASSUME NEW data, NEW buckets, NEW hash_next, NEW lru_prev, NEW lru_next, NEW size,
           NEW e, e = Made(data, buckets, hash_next, lru_prev, lru_next, size)
    PROVE  /\ Fields(e)
           /\ e.data = data /\ e.buckets = buckets /\ e.hash_next = hash_next
           /\ e.lru_prev = lru_prev /\ e.lru_next = lru_next /\ e.size = size
BY DEF Made, Fields

LEMMA StructOfFields ==
    ASSUME NEW e, Fields(e), e.data \in Heap, e.buckets \in [Bucket -> Node \cup {NULL}],
           e.hash_next \in [Node -> Node \cup {NULL}], e.lru_prev \in Pointers,
           e.lru_next \in Pointers, e.size \in 0 .. capacity
    PROVE  e \in Struct
BY DEF Struct, Made, Heap, Pointers, Fields

\* What changing some of the fields makes.
LEMMA WithLinks ==
    ASSUME NEW d, Fields(d), NEW P1, NEW N1
    PROVE  /\ [d EXCEPT !.lru_next = N1, !.lru_prev = P1] =
                 Made(d.data, d.buckets, d.hash_next, P1, N1, d.size)
           /\ [d EXCEPT !.lru_prev = P1, !.lru_next = N1] =
                 Made(d.data, d.buckets, d.hash_next, P1, N1, d.size)
<1>1. /\ [d EXCEPT !.lru_next = N1, !.lru_prev = P1] =
            [x \in DOMAIN d |-> IF x = "lru_prev" THEN P1
                                ELSE IF x = "lru_next" THEN N1 ELSE d[x]]
      /\ [d EXCEPT !.lru_prev = P1, !.lru_next = N1] =
            [x \in DOMAIN d |-> IF x = "lru_next" THEN N1
                                ELSE IF x = "lru_prev" THEN P1 ELSE d[x]]
  BY Zenon
<1>2. DOMAIN d = {"data", "buckets", "hash_next", "lru_prev", "lru_next", "size"}
  BY DEF Fields, Made
<1>. QED
  BY <1>1, <1>2 DEF Made

LEMMA WithNodes ==
    ASSUME NEW d, Fields(d), NEW D1, NEW s1
    PROVE  [d EXCEPT !.data = D1, !.size = s1] =
              Made(D1, d.buckets, d.hash_next, d.lru_prev, d.lru_next, s1)
<1>1. [d EXCEPT !.data = D1, !.size = s1] =
            [x \in DOMAIN d |-> IF x = "size" THEN s1
                                ELSE IF x = "data" THEN D1 ELSE d[x]]
  BY Zenon
<1>2. DOMAIN d = {"data", "buckets", "hash_next", "lru_prev", "lru_next", "size"}
  BY DEF Fields, Made
<1>. QED
  BY <1>1, <1>2 DEF Made

LEMMA RemoveOfList ==
    ASSUME NEW d, Fields(d), NEW n,
           NEW P1, P1 = [d.lru_prev EXCEPT ![d.lru_next[n]] = d.lru_prev[n]],
           NEW N1, N1 = [d.lru_next EXCEPT ![d.lru_prev[n]] = d.lru_next[n]]
    PROVE  lru_remove(d, n) = Made(d.data, d.buckets, d.hash_next, P1, N1, d.size)
<1>1. lru_remove(d, n) = [d EXCEPT !.lru_next = N1, !.lru_prev = P1]
  BY DEF lru_remove
<1>2. [d EXCEPT !.lru_next = N1, !.lru_prev = P1] =
         Made(d.data, d.buckets, d.hash_next, P1, N1, d.size)
  BY WithLinks
<1>. QED
  BY <1>1, <1>2

LEMMA PushOfList ==
    ASSUME NEW d, Fields(d), NEW n,
           NEW P1, P1 = [d.lru_prev EXCEPT ![n] = lru_sentinel,
                                           ![d.lru_next[lru_sentinel]] = n],
           NEW N1, N1 = [d.lru_next EXCEPT ![n] = d.lru_next[lru_sentinel],
                                           ![lru_sentinel] = n]
    PROVE  lru_push_front(d, n) = Made(d.data, d.buckets, d.hash_next, P1, N1, d.size)
<1>1. lru_push_front(d, n) = [d EXCEPT !.lru_prev = P1, !.lru_next = N1]
  BY DEF lru_push_front, lru_head
<1>2. [d EXCEPT !.lru_prev = P1, !.lru_next = N1] =
         Made(d.data, d.buckets, d.hash_next, P1, N1, d.size)
  BY WithLinks
<1>. QED
  BY <1>1, <1>2

\* What unchained leaves in the hash_next of m.
Bent(d, n, m) == IF Met(m, Chain(d, hash[d.data[n].qname])) /\ d.hash_next[m] = n
                 THEN d.hash_next[n] ELSE d.hash_next[m]

LEMMA UnchainedIs ==
    ASSUME NEW d, Fields(d), NEW n, NEW b, b = hash[d.data[n].qname],
           Chain(d, b) \in Seq(Node)
    PROVE  unchained(d, n) =
              Made(d.data,
                   IF d.buckets[b] = n THEN [d.buckets EXCEPT ![b] = d.hash_next[n]]
                   ELSE d.buckets,
                   IF d.buckets[b] = n THEN d.hash_next
                   ELSE [m \in Node |-> Bent(d, n, m)],
                   d.lru_prev, d.lru_next, d.size)
<1>1. CASE d.buckets[b] = n
  <2>1. unchained(d, n) = [d EXCEPT !.buckets = [d.buckets EXCEPT ![b] = d.hash_next[n]]]
    BY <1>1 DEF unchained
  <2>2. \A B1 : [d EXCEPT !.buckets = B1] =
                   Made(d.data, B1, d.hash_next, d.lru_prev, d.lru_next, d.size)
    BY DEF Fields, Made
  <2>. QED
    BY <1>1, <2>1, <2>2, Zenon
<1>2. CASE d.buckets[b] # n
  <2>1. PICK H1 : H1 = [m \in Node |-> Bent(d, n, m)]
    OBVIOUS
  <2>2. ToSet(Chain(d, b)) = {m \in Node : Met(m, Chain(d, b))}
    BY DEF ToSet, Met
  <2>3. H1 = [m \in Node |->
                 IF m \in {x \in ToSet(Chain(d, b)) : d.hash_next[x] = n}
                 THEN d.hash_next[n] ELSE d.hash_next[m]]
    BY <2>1, <2>2 DEF Bent
  <2>4. unchained(d, n) = [d EXCEPT !.hash_next = H1]
    BY <1>2, <2>3 DEF unchained
  <2>5. \A B1 : [d EXCEPT !.hash_next = B1] =
                   Made(d.data, d.buckets, B1, d.lru_prev, d.lru_next, d.size)
    BY DEF Fields, Made
  <2>. QED
    BY <1>2, <2>1, <2>4, <2>5, Zenon
<1>. QED
  BY <1>1, <1>2

\* cache_remove_node, from the chains that unchained leaves.
LEMMA RemoveNodeIs ==
    ASSUME NEW d, Fields(d), NEW n, Chain(d, hash[d.data[n].qname]) \in Seq(Node),
           NEW P1, P1 = [d.lru_prev EXCEPT ![d.lru_next[n]] = d.lru_prev[n]],
           NEW N1, N1 = [d.lru_next EXCEPT ![d.lru_prev[n]] = d.lru_next[n]]
    PROVE  cache_remove_node(d, n) =
              Made(Restrict(d.data, DOMAIN d.data \ {n}), unchained(d, n).buckets,
                   unchained(d, n).hash_next, P1, N1,
                   IF d.size > 0 THEN d.size - 1 ELSE 0)
<1>1. PICK u : u = unchained(d, n)
  OBVIOUS
<1>2. PICK b : b = hash[d.data[n].qname]
  OBVIOUS
<1>3. PICK B1, H1 : u = Made(d.data, B1, H1, d.lru_prev, d.lru_next, d.size)
  <2>1. Chain(d, b) \in Seq(Node)
    BY <1>2
  <2>. QED
    BY <1>1, <1>2, <2>1, UnchainedIs
<1>4. /\ Fields(u) /\ u.data = d.data /\ u.size = d.size
      /\ u.lru_prev = d.lru_prev /\ u.lru_next = d.lru_next
  BY <1>3, MadeFields
<1>5. PICK v : v = lru_remove(u, n)
  OBVIOUS
<1>6. v = Made(u.data, u.buckets, u.hash_next, P1, N1, u.size)
  BY <1>4, <1>5, RemoveOfList
<1>7. /\ Fields(v) /\ v.data = d.data /\ v.size = d.size
      /\ v.buckets = u.buckets /\ v.hash_next = u.hash_next
      /\ v.lru_prev = P1 /\ v.lru_next = N1
  BY <1>4, <1>6, MadeFields
<1>8. PICK D1, s1 : /\ D1 = Restrict(d.data, DOMAIN d.data \ {n})
                    /\ s1 = IF d.size > 0 THEN d.size - 1 ELSE 0
  OBVIOUS
<1>9. cache_remove_node(d, n) = [v EXCEPT !.data = D1, !.size = s1]
  BY <1>1, <1>5, <1>7, <1>8 DEF cache_remove_node
<1>10. Fields(v)
  BY <1>7
<1>11. [v EXCEPT !.data = D1, !.size = s1] =
          Made(D1, v.buckets, v.hash_next, v.lru_prev, v.lru_next, s1)
  BY <1>10, WithNodes
<1>. QED
  BY <1>1, <1>7, <1>8, <1>9, <1>11

(***************************************************************************)
(* The whole structure.                                                    *)
(***************************************************************************)
\* The allocated nodes are those of p, and the list of use is their ring.
InOrder(d, p) ==
    /\ OnRing(d.lru_next, d.lru_prev, p)
    /\ \A n : n \in DOMAIN d.data <=> Met(n, p)
    /\ d.size = Len(p)

\* The chain of bucket b is h[b], the nodes whose names it is for.
Chains(buckets, hash_next, data, h) ==
    /\ buckets \in [Bucket -> Node \cup {NULL}]
    /\ hash_next \in [Node -> Node \cup {NULL}]
    /\ h \in [Bucket -> Seq(Node)]
    /\ \A b \in Bucket :
          /\ Once(h[b])
          /\ Linked(hash_next, buckets[b], h[b])
          /\ \A n : Met(n, h[b]) <=> n \in DOMAIN data /\ hash[data[n].qname] = b

Chained(d, h) == Chains(d.buckets, d.hash_next, d.data, h)

NamedOnce(d) == \A m, n \in DOMAIN d.data : d.data[m].qname = d.data[n].qname => m = n

Good(d, p, h) == d \in Struct /\ InOrder(d, p) /\ Chained(d, h) /\ NamedOnce(d)

\* What the walks of the properties meet.
LEMMA GoodWalks ==
    ASSUME NEW d, NEW p, NEW h, Good(d, p, h)
    PROVE  /\ Walk(d.lru_next, d.lru_next[lru_sentinel], lru_sentinel) = p
           /\ Walk(d.lru_prev, d.lru_prev[lru_sentinel], lru_sentinel) = Reverse(p)
           /\ \A b \in Bucket : h[b] \in Seq(Node) /\ Chain(d, b) = h[b]
<1>1. /\ p \in Seq(Node) /\ Once(p) /\ Ring(d.lru_next, d.lru_prev, p)
  BY DEF Good, InOrder, OnRing
<1>2. ASSUME NEW b \in Bucket PROVE h[b] \in Seq(Node) /\ Chain(d, b) = h[b]
  <2>1. h[b] \in Seq(Node) /\ Once(h[b]) /\ Linked(d.hash_next, d.buckets[b], h[b])
    BY DEF Good, Chained, Chains
  <2>. QED
    BY <2>1, ChainIsWalked DEF Chain
<1>. QED
  BY <1>1, <1>2, RingIsWalked

\* A node that is allocated, its entry and its bucket.
LEMMA NodeFacts ==
    ASSUME NEW d \in Struct, NEW n \in DOMAIN d.data
    PROVE  n \in Node /\ d.data[n] \in Entry /\ hash[d.data[n].qname] \in Bucket
<1>1. n \in Node /\ d.data[n] \in Entry
  BY StructFields, HeapIs
<1>2. d.data[n].qname \in Name
  BY <1>1 DEF Entry
<1>. QED
  BY <1>1, <1>2, HashType

\* The chains once unchained has bent the pointer to n.
LEMMA ChainsBent ==
    ASSUME NEW d, NEW p, NEW h, Good(d, p, h), NEW n, n \in DOMAIN d.data,
           NEW u, u = unchained(d, n),
           NEW D1, D1 = Restrict(d.data, DOMAIN d.data \ {n})
    PROVE  \E g : Chains(u.buckets, u.hash_next, D1, g)
<1>1. d \in Struct /\ Chained(d, h)
  BY DEF Good
<1>2. PICK b \in Bucket : b = hash[d.data[n].qname]
  BY <1>1, NodeFacts
<1>3. n \in Node
  BY <1>1, NodeFacts
<1>4. /\ Fields(d)
      /\ d.buckets \in [Bucket -> Node \cup {NULL}]
      /\ d.hash_next \in [Node -> Node \cup {NULL}]
  BY <1>1, StructFields
<1>5. \A x \in Bucket :
          /\ h[x] \in Seq(Node) /\ Once(h[x]) /\ Linked(d.hash_next, d.buckets[x], h[x])
          /\ \A m : Met(m, h[x]) <=> m \in DOMAIN d.data /\ hash[d.data[m].qname] = x
  BY <1>1 DEF Chained, Chains
<1>6. Chain(d, b) = h[b]
  BY GoodWalks
<1>7. PICK k \in 1 .. Len(h[b]) : h[b][k] = n
  BY <1>2, <1>5 DEF Met
<1>8. \A x \in Bucket : x # b => ~ Met(n, h[x])
  BY <1>2, <1>5
<1>9. /\ u.buckets = IF d.buckets[b] = n THEN [d.buckets EXCEPT ![b] = d.hash_next[n]]
                     ELSE d.buckets
      /\ u.hash_next = IF d.buckets[b] = n THEN d.hash_next
                       ELSE [m \in Node |-> Bent(d, n, m)]
  <2>1. Chain(d, b) \in Seq(Node)
    BY <1>5, <1>6
  <2>. QED
    BY <1>2, <1>4, <2>1, UnchainedIs, MadeFields
<1>10. \A m : Bent(d, n, m) = IF Met(m, h[b]) /\ d.hash_next[m] = n
                              THEN d.hash_next[n] ELSE d.hash_next[m]
  BY <1>2, <1>6 DEF Bent
<1>11. u.buckets \in [Bucket -> Node \cup {NULL}]
  BY <1>3, <1>4, <1>9
<1>12. u.hash_next \in [Node -> Node \cup {NULL}]
  BY <1>3, <1>4, <1>9, <1>10
<1>13. PICK g : g = [x \in Bucket |-> IF x = b THEN RemoveAt(h[b], k) ELSE h[x]]
  OBVIOUS
<1>14. RemoveAt(h[b], k) \in Seq(Node) /\ Once(RemoveAt(h[b], k))
  BY <1>5, TakenOut, OnceTaken
<1>15. g \in [Bucket -> Seq(Node)]
  BY <1>5, <1>13, <1>14
<1>16. ASSUME NEW x \in Bucket
       PROVE  /\ Once(g[x]) /\ Linked(u.hash_next, u.buckets[x], g[x])
              /\ \A m : Met(m, g[x]) <=> Met(m, h[x]) /\ m # n
  <2>1. CASE x = b
    <3>1. g[x] = RemoveAt(h[b], k)
      BY <1>13, <2>1
    <3>2. \A m : Met(m, g[x]) <=> Met(m, h[x]) /\ m # n
      BY <1>5, <1>7, <2>1, <3>1, OnceTaken
    <3>3. d.buckets[b] = n => u.hash_next = d.hash_next /\ u.buckets[b] = d.hash_next[n]
      BY <1>4, <1>9
    <3>4. d.buckets[b] # n =>
             /\ u.buckets[b] = d.buckets[b]
             /\ \A m \in Node : u.hash_next[m] = IF Met(m, h[b]) /\ d.hash_next[m] = n
                                                 THEN d.hash_next[n] ELSE d.hash_next[m]
      BY <1>9, <1>10
    <3>5. Linked(u.hash_next, u.buckets[b], RemoveAt(h[b], k))
      BY <1>5, <1>7, <3>3, <3>4, TakenFromChain
    <3>. QED
      BY <1>14, <2>1, <3>1, <3>2, <3>5
  <2>2. CASE x # b
    <3>1. g[x] = h[x]
      BY <1>13, <2>2
    <3>2. u.buckets[x] = d.buckets[x]
      BY <1>4, <1>9, <2>2
    <3>3. ASSUME NEW i \in 1 .. Len(h[x]) PROVE u.hash_next[h[x][i]] = d.hash_next[h[x][i]]
      <4>1. h[x][i] \in Node /\ Met(h[x][i], h[x])
        BY <1>5 DEF Met
      <4>2. ~ Met(h[x][i], h[b])
        BY <1>5, <2>2, <4>1
      <4>. QED
        BY <1>9, <1>10, <4>1, <4>2
    <3>4. Linked(u.hash_next, u.buckets[x], h[x])
      BY <1>5, <3>2, <3>3 DEF Linked
    <3>. QED
      BY <1>5, <1>8, <2>2, <3>1, <3>4
  <2>. QED
    BY <2>1, <2>2
<1>17. \A m : m \in DOMAIN D1 <=> m \in DOMAIN d.data /\ m # n
  BY DEF Restrict
<1>18. \A m \in DOMAIN D1 : D1[m] = d.data[m]
  BY DEF Restrict
<1>19. \A x \in Bucket : \A m : Met(m, g[x]) <=> m \in DOMAIN D1 /\ hash[D1[m].qname] = x
  <2>. SUFFICES ASSUME NEW x \in Bucket, NEW m
                PROVE  Met(m, g[x]) <=> m \in DOMAIN D1 /\ hash[D1[m].qname] = x
    OBVIOUS
  <2>1. Met(m, g[x]) <=> m \in DOMAIN d.data /\ hash[d.data[m].qname] = x /\ m # n
    BY <1>5, <1>16
  <2>2. m \in DOMAIN D1 => D1[m] = d.data[m]
    BY <1>18
  <2>. QED
    BY <1>17, <2>1, <2>2
<1>. QED
  BY <1>11, <1>12, <1>15, <1>16, <1>19 DEF Chains

\* Eviction unlinks a node from the list twice: that is no harm.
LEMMA RemovedTwice ==
    ASSUME NEW d, NEW p, NEW h, Good(d, p, h), NEW j, j \in 1 .. Len(p), NEW n, n = p[j]
    PROVE  cache_remove_node(lru_remove(d, n), n) = cache_remove_node(d, n)
<1>1. PICK e : e = lru_remove(d, n)
  OBVIOUS
<1>2. PICK P1, N1 : /\ P1 = [d.lru_prev EXCEPT ![d.lru_next[n]] = d.lru_prev[n]]
                    /\ N1 = [d.lru_next EXCEPT ![d.lru_prev[n]] = d.lru_next[n]]
  OBVIOUS
<1>3. OnRing(d.lru_next, d.lru_prev, p) /\ d \in Struct /\ Fields(d)
  BY StructFields DEF Good, InOrder
<1>4. n \in DOMAIN d.data
  BY DEF Good, InOrder, Met
<1>5. /\ Fields(e)
      /\ e.data = d.data /\ e.buckets = d.buckets
      /\ e.hash_next = d.hash_next /\ e.size = d.size
      /\ e.lru_prev = P1 /\ e.lru_next = N1
  <2>1. e = Made(d.data, d.buckets, d.hash_next, P1, N1, d.size)
    BY <1>1, <1>2, <1>3, RemoveOfList
  <2>. QED
    BY <2>1, MadeFields
<1>14. [P1 EXCEPT ![N1[n]] = P1[n]] = P1
  BY <1>2, <1>3, OnRingTaken
<1>15. [N1 EXCEPT ![P1[n]] = N1[n]] = N1
  BY <1>2, <1>3, OnRingTaken
<1>6. PICK b \in Bucket : b = hash[d.data[n].qname]
  BY <1>3, <1>4, NodeFacts
<1>7. Chain(d, b) \in Seq(Node)
  BY GoodWalks
<1>8. Chain(e, b) = Chain(d, b)
  BY <1>5 DEF Chain
<1>9. \A m : Bent(e, n, m) = Bent(d, n, m)
  BY <1>5, <1>6, <1>8 DEF Bent
<1>10. /\ unchained(e, n).buckets = unchained(d, n).buckets
       /\ unchained(e, n).hash_next = unchained(d, n).hash_next
  <2>1. PICK B1, H1 :
           /\ B1 = IF d.buckets[b] = n THEN [d.buckets EXCEPT ![b] = d.hash_next[n]]
                   ELSE d.buckets
           /\ H1 = IF d.buckets[b] = n THEN d.hash_next
                   ELSE [m \in Node |-> Bent(d, n, m)]
    OBVIOUS
  <2>2. unchained(d, n) = Made(d.data, B1, H1, d.lru_prev, d.lru_next, d.size)
    BY <1>3, <1>6, <1>7, <2>1, UnchainedIs
  <2>3. /\ B1 = IF e.buckets[b] = n THEN [e.buckets EXCEPT ![b] = e.hash_next[n]]
                ELSE e.buckets
        /\ H1 = IF e.buckets[b] = n THEN e.hash_next
                ELSE [m \in Node |-> Bent(e, n, m)]
    BY <1>5, <1>9, <2>1
  <2>4. unchained(e, n) = Made(e.data, B1, H1, e.lru_prev, e.lru_next, e.size)
    <3>1. b = hash[e.data[n].qname] /\ Chain(e, b) \in Seq(Node)
      BY <1>5, <1>6, <1>7, <1>8
    <3>. QED
      BY <1>5, <2>3, <3>1, UnchainedIs
  <2>. QED
    BY <2>2, <2>4, MadeFields
<1>11. PICK B2, H2, D2, s2 :
          /\ B2 = unchained(d, n).buckets /\ H2 = unchained(d, n).hash_next
          /\ D2 = Restrict(d.data, DOMAIN d.data \ {n})
          /\ s2 = IF d.size > 0 THEN d.size - 1 ELSE 0
  OBVIOUS
<1>12. cache_remove_node(d, n) = Made(D2, B2, H2, P1, N1, s2)
  BY <1>2, <1>3, <1>6, <1>7, <1>11, RemoveNodeIs
<1>13. cache_remove_node(e, n) = Made(D2, B2, H2, P1, N1, s2)
  <2>1. Chain(e, hash[e.data[n].qname]) \in Seq(Node)
    BY <1>5, <1>6, <1>7, <1>8
  <2>2. /\ B2 = unchained(e, n).buckets /\ H2 = unchained(e, n).hash_next
        /\ D2 = Restrict(e.data, DOMAIN e.data \ {n})
        /\ s2 = IF e.size > 0 THEN e.size - 1 ELSE 0
    BY <1>5, <1>10, <1>11
  <2>3. /\ P1 = [e.lru_prev EXCEPT ![e.lru_next[n]] = e.lru_prev[n]]
        /\ N1 = [e.lru_next EXCEPT ![e.lru_prev[n]] = e.lru_next[n]]
    BY <1>5, <1>14, <1>15
  <2>4. Fields(e)
    BY <1>5
  <2>5. cache_remove_node(e, n) =
           Made(Restrict(e.data, DOMAIN e.data \ {n}), unchained(e, n).buckets,
                unchained(e, n).hash_next, P1, N1, IF e.size > 0 THEN e.size - 1 ELSE 0)
    BY <2>1, <2>3, <2>4, RemoveNodeIs
  <2>. QED
    BY <2>2, <2>5
<1>. QED
  BY <1>1, <1>12, <1>13

\* cache_remove_node takes one node out of all that holds it.
LEMMA Removed ==
    ASSUME NEW d, NEW p, NEW h, Good(d, p, h), NEW j, j \in 1 .. Len(p), NEW n, n = p[j],
           NEW e, e = cache_remove_node(d, n)
    PROVE  /\ \E g : Good(e, RemoveAt(p, j), g)
           /\ DOMAIN e.data = DOMAIN d.data \ {n}
           /\ \A m \in DOMAIN e.data : e.data[m] = d.data[m]
<1>1. PICK P1, N1 : /\ P1 = [d.lru_prev EXCEPT ![d.lru_next[n]] = d.lru_prev[n]]
                    /\ N1 = [d.lru_next EXCEPT ![d.lru_prev[n]] = d.lru_next[n]]
  OBVIOUS
<1>2. /\ d \in Struct /\ OnRing(d.lru_next, d.lru_prev, p) /\ n \in DOMAIN d.data
      /\ d.size = Len(p) /\ \A m : m \in DOMAIN d.data <=> Met(m, p)
  BY DEF Good, InOrder, Met
<1>3. p \in Seq(Node) /\ Once(p)
  BY <1>2 DEF OnRing
<1>4. Fields(d) /\ d.data \in Heap /\ d.size \in 0 .. capacity /\ capacity \in Nat
  BY <1>2, CapacityIsPositive, StructFields
<1>5. OnRing(N1, P1, RemoveAt(p, j))
  BY <1>1, <1>2, OnRingTaken
<1>6. PICK u : u = unchained(d, n)
  OBVIOUS
<1>7. /\ P1 \in Pointers /\ N1 \in Pointers
  BY <1>5 DEF OnRing
<1>8. PICK D1, s1 : /\ D1 = Restrict(d.data, DOMAIN d.data \ {n})
                    /\ s1 = IF d.size > 0 THEN d.size - 1 ELSE 0
  OBVIOUS
<1>9. e = Made(D1, u.buckets, u.hash_next, P1, N1, s1)
  <2>1. Chain(d, hash[d.data[n].qname]) \in Seq(Node)
    BY <1>2, GoodWalks, NodeFacts
  <2>. QED
    BY <1>1, <1>4, <1>6, <1>8, <2>1, RemoveNodeIs
<1>10. /\ Fields(e)
       /\ e.data = D1 /\ e.buckets = u.buckets /\ e.hash_next = u.hash_next
       /\ e.lru_prev = P1 /\ e.lru_next = N1 /\ e.size = s1
  BY <1>9, MadeFields
<1>11. /\ DOMAIN D1 = DOMAIN d.data \ {n}
       /\ \A m \in DOMAIN D1 : D1[m] = d.data[m]
       /\ D1 = [m \in DOMAIN D1 |-> D1[m]]
  BY <1>8 DEF Restrict
<1>12. D1 \in Heap
  <2>1. DOMAIN d.data \subseteq Node /\ \A m \in DOMAIN d.data : d.data[m] \in Entry
    BY <1>4, HeapIs
  <2>. QED
    BY <1>11, <2>1, HeapIs
<1>13. s1 \in 0 .. capacity /\ s1 = Len(RemoveAt(p, j))
  <2>1. Len(RemoveAt(p, j)) = Len(p) - 1
    BY <1>3, TakenOut
  <2>2. PICK L \in Nat : L = Len(p) /\ L = d.size /\ L >= 1
    BY <1>2, <1>3
  <2>. QED
    BY <1>4, <1>8, <2>1, <2>2
<1>14. PICK g : Chains(u.buckets, u.hash_next, D1, g)
  BY <1>2, <1>6, <1>8, ChainsBent
<1>15. Chained(e, g)
  BY <1>10, <1>14 DEF Chained
<1>16. /\ e.buckets \in [Bucket -> Node \cup {NULL}]
       /\ e.hash_next \in [Node -> Node \cup {NULL}]
  BY <1>10, <1>14 DEF Chains
<1>17. e \in Struct
  BY <1>7, <1>10, <1>12, <1>13, <1>16, StructOfFields
<1>18. InOrder(e, RemoveAt(p, j))
  <2>1. \A m : Met(m, RemoveAt(p, j)) <=> Met(m, p) /\ m # n
    BY <1>3, OnceTaken
  <2>. QED
    BY <1>2, <1>5, <1>10, <1>11, <1>13, <2>1 DEF InOrder
<1>19. NamedOnce(e)
  BY <1>10, <1>11 DEF NamedOnce, Good
<1>. QED
  BY <1>10, <1>11, <1>15, <1>17, <1>18, <1>19 DEF Good

\* A hit: the node is taken out of the list of use and put back in front.
LEMMA Moved ==
    ASSUME NEW d, NEW p, NEW h, Good(d, p, h), NEW j, j \in 1 .. Len(p), NEW n, n = p[j],
           NEW e, e = lru_push_front(lru_remove(d, n), n)
    PROVE  Good(e, <<n>> \o RemoveAt(p, j), h)
<1>1. /\ d \in Struct /\ OnRing(d.lru_next, d.lru_prev, p) /\ n \in DOMAIN d.data
      /\ d.size = Len(p) /\ \A m : m \in DOMAIN d.data <=> Met(m, p)
  BY DEF Good, InOrder, Met
<1>2. p \in Seq(Node) /\ Once(p) /\ n \in Node
  BY <1>1, NodeFacts DEF OnRing
<1>3. PICK q : q = RemoveAt(p, j)
  OBVIOUS
<1>4. PICK P1, N1 : /\ P1 = [d.lru_prev EXCEPT ![d.lru_next[n]] = d.lru_prev[n]]
                    /\ N1 = [d.lru_next EXCEPT ![d.lru_prev[n]] = d.lru_next[n]]
  OBVIOUS
<1>5. OnRing(N1, P1, q)
  BY <1>1, <1>3, <1>4, OnRingTaken
<1>6. q \in Seq(Node) /\ Once(q) /\ Len(q) = Len(p) - 1
  BY <1>2, <1>3, TakenOut, OnceTaken
<1>7. \A m : Met(m, q) <=> Met(m, p) /\ m # n
  BY <1>2, <1>3, OnceTaken
<1>8. PICK P2, N2 :
         /\ P2 = [P1 EXCEPT ![n] = lru_sentinel, ![N1[lru_sentinel]] = n]
         /\ N2 = [N1 EXCEPT ![n] = N1[lru_sentinel], ![lru_sentinel] = n]
  OBVIOUS
<1>9. OnRing(N2, P2, <<n>> \o q)
  BY <1>2, <1>5, <1>7, <1>8, OnRingPut
<1>10. \A m : Met(m, <<n>> \o q) <=> Met(m, q) \/ m = n
  BY <1>2, <1>6, <1>7, OncePut
<1>11. Len(<<n>> \o q) = Len(p)
  <2>1. Len(<<n>> \o q) = Len(q) + 1
    BY <1>2, <1>6, PutInFront
  <2>. QED
    BY <1>2, <1>6, <2>1
<1>12. PICK u : u = lru_remove(d, n)
  OBVIOUS
<1>13. /\ Fields(u) /\ u.data = d.data /\ u.buckets = d.buckets
       /\ u.hash_next = d.hash_next /\ u.size = d.size
       /\ u.lru_prev = P1 /\ u.lru_next = N1
  <2>1. Fields(d)
    BY <1>1, StructFields
  <2>2. u = Made(d.data, d.buckets, d.hash_next, P1, N1, d.size)
    BY <1>4, <1>12, <2>1, RemoveOfList
  <2>. QED
    BY <2>2, MadeFields
<1>14. /\ Fields(e) /\ e.data = d.data /\ e.buckets = d.buckets
       /\ e.hash_next = d.hash_next /\ e.size = d.size
       /\ e.lru_prev = P2 /\ e.lru_next = N2
  <2>1. /\ Fields(u)
        /\ P2 = [u.lru_prev EXCEPT ![n] = lru_sentinel, ![u.lru_next[lru_sentinel]] = n]
        /\ N2 = [u.lru_next EXCEPT ![n] = u.lru_next[lru_sentinel], ![lru_sentinel] = n]
    BY <1>8, <1>13
  <2>2. lru_push_front(u, n) = Made(u.data, u.buckets, u.hash_next, P2, N2, u.size)
    BY <2>1, PushOfList
  <2>3. e = Made(d.data, d.buckets, d.hash_next, P2, N2, d.size)
    BY <1>12, <1>13, <2>2
  <2>. QED
    BY <2>3, MadeFields
<1>15. e \in Struct
  <2>1. P2 \in Pointers /\ N2 \in Pointers
    BY <1>9 DEF OnRing
  <2>2. /\ e.data \in Heap /\ e.size \in 0 .. capacity
        /\ e.buckets \in [Bucket -> Node \cup {NULL}]
        /\ e.hash_next \in [Node -> Node \cup {NULL}]
    BY <1>1, <1>14, StructFields
  <2>. QED
    BY <1>14, <2>1, <2>2, StructOfFields
<1>16. InOrder(e, <<n>> \o q)
  BY <1>1, <1>7, <1>9, <1>10, <1>11, <1>14 DEF InOrder
<1>17. Chained(e, h) /\ NamedOnce(e)
  BY <1>14 DEF Good, Chained, NamedOnce
<1>. QED
  BY <1>3, <1>15, <1>16, <1>17 DEF Good

\* Neither of the two steps touches the entries.
LEMMA MovedData ==
    ASSUME NEW d, Fields(d), NEW n
    PROVE  lru_push_front(lru_remove(d, n), n).data = d.data
<1>1. PICK P1, N1 : /\ P1 = [d.lru_prev EXCEPT ![d.lru_next[n]] = d.lru_prev[n]]
                    /\ N1 = [d.lru_next EXCEPT ![d.lru_prev[n]] = d.lru_next[n]]
  OBVIOUS
<1>2. PICK u : u = lru_remove(d, n)
  OBVIOUS
<1>3. u = Made(d.data, d.buckets, d.hash_next, P1, N1, d.size)
  BY <1>1, <1>2, RemoveOfList
<1>4. Fields(u) /\ u.data = d.data
  BY <1>3, MadeFields
<1>5. PICK P2, N2 : /\ P2 = [u.lru_prev EXCEPT ![n] = lru_sentinel,
                                               ![u.lru_next[lru_sentinel]] = n]
                    /\ N2 = [u.lru_next EXCEPT ![n] = u.lru_next[lru_sentinel],
                                               ![lru_sentinel] = n]
  OBVIOUS
<1>6. lru_push_front(u, n) = Made(u.data, u.buckets, u.hash_next, P2, N2, u.size)
  BY <1>4, <1>5, PushOfList
<1>7. PICK e : e = lru_push_front(u, n)
  OBVIOUS
<1>8. e.data = u.data
  BY <1>6, <1>7, MadeFields
<1>. QED
  BY <1>2, <1>4, <1>7, <1>8

\* Entries change and keep their names: nothing else does.
LEMMA Renewed ==
    ASSUME NEW d, NEW p, NEW h, Good(d, p, h), NEW D1, D1 \in Heap,
           DOMAIN D1 = DOMAIN d.data, \A n \in DOMAIN D1 : D1[n].qname = d.data[n].qname,
           NEW e, e = [d EXCEPT !.data = D1]
    PROVE  Good(e, p, h) /\ e.data = D1
<1>1. d \in Struct /\ InOrder(d, p) /\ Chained(d, h) /\ NamedOnce(d)
  BY DEF Good
<1>2. Fields(d)
  BY <1>1, StructFields
<1>3. e = Made(D1, d.buckets, d.hash_next, d.lru_prev, d.lru_next, d.size)
  BY <1>2 DEF Fields, Made
<1>4. /\ Fields(e) /\ e.data = D1 /\ e.buckets = d.buckets
      /\ e.hash_next = d.hash_next /\ e.size = d.size
      /\ e.lru_prev = d.lru_prev /\ e.lru_next = d.lru_next
  BY <1>3, MadeFields
<1>5. e \in Struct
  <2>1. /\ e.size \in 0 .. capacity
        /\ e.buckets \in [Bucket -> Node \cup {NULL}]
        /\ e.hash_next \in [Node -> Node \cup {NULL}]
        /\ e.lru_prev \in Pointers /\ e.lru_next \in Pointers
    BY <1>1, <1>4, StructFields
  <2>. QED
    BY <1>4, <2>1, StructOfFields
<1>6. InOrder(e, p)
  BY <1>1, <1>4 DEF InOrder
<1>7. Chained(e, h)
  <2>1. \A n, b : n \in DOMAIN D1 /\ hash[D1[n].qname] = b <=>
                    n \in DOMAIN d.data /\ hash[d.data[n].qname] = b
    OBVIOUS
  <2>. QED
    BY <1>1, <1>4, <2>1 DEF Chained, Chains
<1>8. NamedOnce(e)
  BY <1>1, <1>4 DEF NamedOnce
<1>. QED
  BY <1>4, <1>5, <1>6, <1>7, <1>8 DEF Good

\* cache_find_node finds the node of a name, if there is one.
LEMMA NodeFound ==
    ASSUME NEW d, NEW p, NEW h, Good(d, p, h), NEW q, q \in Name,
           NEW n, n = cache_find_node(d, q)
    PROVE  \/ n = NULL /\ \A m \in DOMAIN d.data : d.data[m].qname # q
           \/ n # NULL /\ n \in DOMAIN d.data /\ d.data[n].qname = q
<1>1. PICK b \in Bucket : b = hash[q]
  BY HashType
<1>2. PICK l \in Seq(Node) : l = h[b] /\ l = Chain(d, b)
  BY <1>1, GoodWalks
<1>3. \A m : Met(m, l) <=> m \in DOMAIN d.data /\ hash[d.data[m].qname] = b
  <2>1. \A x \in Bucket : \A m : Met(m, h[x]) <=> m \in DOMAIN d.data /\ hash[d.data[m].qname] = x
    BY DEF Good, Chained, Chains
  <2>2. \A m : Met(m, h[b]) <=> m \in DOMAIN d.data /\ hash[d.data[m].qname] = b
    BY <2>1, Zenon
  <2>3. l = h[b]
    BY <1>2
  <2>. QED
    BY <2>2, <2>3, Zenon
<1>4. PICK I : I = {i \in 1 .. Len(l) : d.data[l[i]].qname = q}
  OBVIOUS
<1>5. n = LET place == IF I # {} THEN Min(I) ELSE 0
          IN  IF place = 0 THEN NULL ELSE l[place]
  BY <1>1, <1>2, <1>4 DEF cache_find_node, SelectInSeq
<1>6. CASE I = {}
  <2>1. n = NULL
    BY <1>5, <1>6
  <2>2. ASSUME NEW m \in DOMAIN d.data, d.data[m].qname = q PROVE FALSE
    <3>1. PICK i \in 1 .. Len(l) : l[i] = m
      BY <1>1, <1>3, <2>2 DEF Met
    <3>2. i \in I
      BY <1>4, <2>2, <3>1
    <3>. QED
      BY <1>6, <3>2
  <2>. QED
    BY <2>1, <2>2
<1>7. CASE I # {}
  <2>1. I \subseteq Nat
    BY <1>4
  <2>2. Min(I) \in I
    BY <1>7, <2>1, MinChosen
  <2>3. Min(I) \in 1 .. Len(l) /\ d.data[l[Min(I)]].qname = q
    BY <1>4, <2>2
  <2>4. n = l[Min(I)]
    BY <1>5, <1>7, <2>3
  <2>5. n \in DOMAIN d.data
    BY <1>3, <2>3, <2>4 DEF Met
  <2>6. n \in Node
    BY <2>5, NodeFacts DEF Good
  <2>. QED
    BY <2>3, <2>4, <2>5, <2>6, PointersDiffer
<1>. QED
  BY <1>6, <1>7

\* A new node goes in front of its chain and of the list of use.
LEMMA Added ==
    ASSUME NEW d, NEW p, NEW h, Good(d, p, h), d.size < capacity,
           NEW n, n \in Node, n \notin DOMAIN d.data,
           NEW entry, entry \in Entry, \A m \in DOMAIN d.data : d.data[m].qname # entry.qname,
           NEW e, e = add_node(d, n, entry)
    PROVE  /\ \E g : Good(e, <<n>> \o p, g)
           /\ e.data[n] = entry
           /\ \A m \in DOMAIN d.data : e.data[m] = d.data[m]
<1>1. /\ d \in Struct /\ OnRing(d.lru_next, d.lru_prev, p)
      /\ d.size = Len(p) /\ \A m : m \in DOMAIN d.data <=> Met(m, p)
  BY DEF Good, InOrder
<1>2. /\ Fields(d) /\ d.data \in Heap /\ d.size \in Nat /\ capacity \in Nat
      /\ d.buckets \in [Bucket -> Node \cup {NULL}]
      /\ d.hash_next \in [Node -> Node \cup {NULL}]
  BY <1>1, CapacityIsPositive, StructFields
<1>3. p \in Seq(Node) /\ Once(p) /\ ~Met(n, p)
  BY <1>1 DEF OnRing
<1>4. PICK b \in Bucket : b = hash[entry.qname]
  BY HashType DEF Entry
<1>5. PICK D1, H1, B1, s1 :
         /\ D1 = [m \in DOMAIN d.data \cup {n} |->
                   IF m = n THEN entry ELSE d.data[m]]
         /\ H1 = [d.hash_next EXCEPT ![n] = d.buckets[b]]
         /\ B1 = [d.buckets EXCEPT ![b] = n]
         /\ s1 = d.size + 1
  OBVIOUS
<1>6. PICK u : u = [d EXCEPT !.data = D1, !.hash_next = H1, !.buckets = B1, !.size = s1]
  OBVIOUS
<1>7. u = Made(D1, B1, H1, d.lru_prev, d.lru_next, s1)
  <2>1. u = [x \in DOMAIN d |-> IF x = "size" THEN s1
                                ELSE IF x = "buckets" THEN B1
                                ELSE IF x = "hash_next" THEN H1
                                ELSE IF x = "data" THEN D1 ELSE d[x]]
    BY <1>6, Zenon
  <2>2. DOMAIN d = {"data", "buckets", "hash_next", "lru_prev", "lru_next", "size"}
    BY <1>2 DEF Fields, Made
  <2>. QED
    BY <2>1, <2>2 DEF Made
<1>8. /\ Fields(u) /\ u.data = D1 /\ u.buckets = B1 /\ u.hash_next = H1
      /\ u.lru_prev = d.lru_prev /\ u.lru_next = d.lru_next /\ u.size = s1
  BY <1>7, MadeFields
<1>9. e = lru_push_front(u, n)
  BY <1>4, <1>5, <1>6 DEF add_node
<1>10. PICK P2, N2 :
          /\ P2 = [d.lru_prev EXCEPT ![n] = lru_sentinel, ![d.lru_next[lru_sentinel]] = n]
          /\ N2 = [d.lru_next EXCEPT ![n] = d.lru_next[lru_sentinel], ![lru_sentinel] = n]
  OBVIOUS
<1>11. OnRing(N2, P2, <<n>> \o p)
  BY <1>1, <1>3, <1>10, OnRingPut
<1>12. e = Made(D1, B1, H1, P2, N2, s1)
  <2>1. /\ Fields(u)
        /\ P2 = [u.lru_prev EXCEPT ![n] = lru_sentinel, ![u.lru_next[lru_sentinel]] = n]
        /\ N2 = [u.lru_next EXCEPT ![n] = u.lru_next[lru_sentinel], ![lru_sentinel] = n]
    BY <1>8, <1>10
  <2>2. lru_push_front(u, n) = Made(u.data, u.buckets, u.hash_next, P2, N2, u.size)
    BY <2>1, PushOfList
  <2>. QED
    BY <1>8, <1>9, <2>2
<1>13. /\ Fields(e) /\ e.data = D1 /\ e.buckets = B1 /\ e.hash_next = H1
       /\ e.lru_prev = P2 /\ e.lru_next = N2 /\ e.size = s1
  BY <1>12, MadeFields
<1>15. /\ DOMAIN D1 = DOMAIN d.data \cup {n}
       /\ D1[n] = entry
       /\ \A m \in DOMAIN d.data : D1[m] = d.data[m]
       /\ D1 = [m \in DOMAIN D1 |-> D1[m]]
  BY <1>5
<1>16. D1 \in Heap
  <2>1. DOMAIN d.data \subseteq Node /\ \A m \in DOMAIN d.data : d.data[m] \in Entry
    BY <1>2, HeapIs
  <2>2. DOMAIN D1 \subseteq Node /\ \A m \in DOMAIN D1 : D1[m] \in Entry
    BY <1>15, <2>1
  <2>. QED
    BY <1>15, <2>2, HeapIs
<1>17. \A m : Met(m, <<n>> \o p) <=> Met(m, p) \/ m = n
  BY <1>3, OncePut
<1>18. s1 = Len(<<n>> \o p) /\ s1 \in 0 .. capacity
  <2>1. Len(<<n>> \o p) = Len(p) + 1
    BY <1>3, PutInFront
  <2>. QED
    BY <1>1, <1>2, <1>5, <2>1
<1>19. InOrder(e, <<n>> \o p)
  BY <1>1, <1>11, <1>13, <1>15, <1>17, <1>18 DEF InOrder
<1>20. \A x \in Bucket :
          /\ h[x] \in Seq(Node) /\ Once(h[x]) /\ Linked(d.hash_next, d.buckets[x], h[x])
          /\ \A m : Met(m, h[x]) <=> m \in DOMAIN d.data /\ hash[d.data[m].qname] = x
  <2>1. Chained(d, h)
    BY DEF Good
  <2>. QED
    BY <2>1 DEF Chained, Chains
<1>21. PICK g : g = [x \in Bucket |-> IF x = b THEN <<n>> \o h[b] ELSE h[x]]
  OBVIOUS
<1>22. ~Met(n, h[b]) /\ h[b] \in Seq(Node) /\ Once(h[b])
  BY <1>20
<1>23. /\ <<n>> \o h[b] \in Seq(Node) /\ Once(<<n>> \o h[b])
       /\ \A m : Met(m, <<n>> \o h[b]) <=> Met(m, h[b]) \/ m = n
  <2>1. <<n>> \o h[b] \in Seq(Node)
    BY <1>22, PutInFront
  <2>. QED
    BY <1>22, <2>1, OncePut
<1>24. g \in [Bucket -> Seq(Node)]
  BY <1>20, <1>21, <1>23
<1>25. H1 \in [Node -> Node \cup {NULL}] /\ B1 \in [Bucket -> Node \cup {NULL}]
  BY <1>2, <1>5
<1>26. ASSUME NEW x \in Bucket
       PROVE  /\ Once(g[x]) /\ Linked(H1, B1[x], g[x])
              /\ \A m : Met(m, g[x]) <=> m \in DOMAIN D1 /\ hash[D1[m].qname] = x
  <2>1. CASE x = b
    <3>1. g[x] = <<n>> \o h[b] /\ B1[x] = n
      BY <1>2, <1>5, <1>21, <2>1
    <3>2. Linked(H1, n, <<n>> \o h[b])
      <4>1. PICK l \in Seq(Node) : l = h[b]
        BY <1>22
      <4>2. PICK hn \in [Node -> Node \cup {NULL}], start \in Node \cup {NULL} :
               hn = d.hash_next /\ start = d.buckets[b]
        BY <1>2
      <4>3. PICK k \in Node : k = n
        OBVIOUS
      <4>4. Linked(hn, start, l) /\ Once(l) /\ ~Met(k, l) /\ H1 = [hn EXCEPT ![k] = start]
        BY <1>5, <1>20, <1>22, <4>1, <4>2, <4>3
      <4>5. Linked(H1, k, <<k>> \o l)
        BY <4>4, PutOntoChain
      <4>. QED
        BY <4>1, <4>3, <4>5
    <3>3. ASSUME NEW m PROVE Met(m, g[x]) <=> m \in DOMAIN D1 /\ hash[D1[m].qname] = x
      <4>1. Met(m, g[x]) <=> (m \in DOMAIN d.data /\ hash[d.data[m].qname] = x) \/ m = n
        BY <1>20, <1>23, <2>1, <3>1
      <4>2. m \in DOMAIN d.data => D1[m] = d.data[m]
        BY <1>15
      <4>. QED
        BY <1>4, <1>15, <2>1, <4>1, <4>2
    <3>. QED
      BY <1>23, <3>1, <3>2, <3>3
  <2>2. CASE x # b
    <3>1. g[x] = h[x] /\ B1[x] = d.buckets[x]
      BY <1>2, <1>5, <1>21, <2>2
    <3>2. ASSUME NEW i \in 1 .. Len(h[x]) PROVE H1[h[x][i]] = d.hash_next[h[x][i]]
      <4>1. h[x][i] \in Node /\ Met(h[x][i], h[x])
        BY <1>20 DEF Met
      <4>2. h[x][i] # n
        BY <1>20, <4>1
      <4>. QED
        BY <1>2, <1>5, <4>1, <4>2
    <3>3. Linked(H1, B1[x], h[x])
      BY <1>20, <3>1, <3>2 DEF Linked
    <3>4. ASSUME NEW m PROVE Met(m, g[x]) <=> m \in DOMAIN D1 /\ hash[D1[m].qname] = x
      <4>1. Met(m, g[x]) <=> m \in DOMAIN d.data /\ hash[d.data[m].qname] = x
        BY <1>20, <3>1
      <4>2. m \in DOMAIN d.data => D1[m] = d.data[m]
        BY <1>15
      <4>. QED
        BY <1>4, <1>15, <2>2, <4>1, <4>2
    <3>. QED
      BY <1>20, <3>1, <3>3, <3>4
  <2>. QED
    BY <2>1, <2>2
<1>27. Chained(e, g)
  BY <1>13, <1>24, <1>25, <1>26 DEF Chained, Chains
<1>28. e \in Struct
  <2>1. P2 \in Pointers /\ N2 \in Pointers
    BY <1>11 DEF OnRing
  <2>. QED
    BY <1>13, <1>16, <1>18, <1>25, <2>1, StructOfFields
<1>29. NamedOnce(e)
  <2>1. NamedOnce(d)
    BY DEF Good
  <2>. QED
    BY <1>13, <1>15, <2>1 DEF NamedOnce
<1>. QED
  BY <1>13, <1>15, <1>19, <1>27, <1>28, <1>29 DEF Good

\* What the pointers of the sentinel say of the list.
LEMMA Ends ==
    ASSUME NEW d, NEW p, NEW h, Good(d, p, h)
    PROVE  /\ p \in Seq(Node)
           /\ lru_head(d) = IF Len(p) = 0 THEN lru_sentinel ELSE p[1]
           /\ lru_tail(d) = IF Len(p) = 0 THEN NULL ELSE p[Len(p)]
<1>1. PICK q \in Seq(Node) : q = p
  BY DEF Good, InOrder, OnRing
<1>2. PICK L \in Nat : L = Len(q)
  OBVIOUS
<1>3. \A i \in 0 .. L : /\ d.lru_next[at(q, i)] = at(q, i + 1)
                        /\ d.lru_prev[at(q, i + 1)] = at(q, i)
  BY <1>1, <1>2 DEF Good, InOrder, OnRing, Ring
<1>4. at(q, 0) = lru_sentinel /\ at(q, L + 1) = lru_sentinel
  BY <1>2 DEF at, Place
<1>5. d.lru_next[lru_sentinel] = at(q, 1) /\ d.lru_prev[lru_sentinel] = at(q, L)
  BY <1>3, <1>4
<1>6. \A i \in 1 .. L : at(q, i) = q[i] /\ q[i] # lru_sentinel
  BY <1>2, PointersDiffer DEF at, Place
<1>7. CASE L = 0
  BY <1>1, <1>2, <1>4, <1>5, <1>7 DEF lru_head, lru_tail
<1>8. CASE L # 0
  <2>1. 1 \in 1 .. L /\ L \in 1 .. L
    BY <1>8
  <2>. QED
    BY <1>1, <1>2, <1>5, <1>6, <1>8, <2>1 DEF lru_head, lru_tail
<1>. QED
  BY <1>7, <1>8

\* make_room takes out the node that was used longest ago, when the cache is
\* full.
LEMMA RoomMade ==
    ASSUME NEW d, NEW p, NEW h, Good(d, p, h), NEW e, e = make_room(d)
    PROVE  IF d.size < capacity THEN e = d
           ELSE /\ d.size = capacity /\ Len(p) = capacity
                /\ \E g : Good(e, RemoveAt(p, Len(p)), g)
                /\ DOMAIN e.data = DOMAIN d.data \ {p[Len(p)]}
                /\ \A m \in DOMAIN e.data : e.data[m] = d.data[m]
<1>1. CASE d.size < capacity
  BY <1>1 DEF make_room
<1>2. CASE ~(d.size < capacity)
  <2>1. d \in Struct /\ d.size = Len(p)
    BY DEF Good, InOrder
  <2>2. d.size = capacity /\ capacity \in Nat \ {0}
    BY <1>2, <2>1, StructFields, CapacityIsPositive
  <2>3. PICK j \in 1 .. Len(p) : j = Len(p)
    BY <2>1, <2>2
  <2>4. PICK n : n = p[j]
    OBVIOUS
  <2>5. p \in Seq(Node) /\ lru_tail(d) = n
    BY <2>1, <2>2, <2>3, <2>4, Ends
  <2>6. n \in Node
    BY <2>3, <2>4, <2>5
  <2>7. n # NULL
    BY <2>6, PointersDiffer
  <2>8. e = cache_remove_node(lru_remove(d, n), n)
    BY <1>2, <2>5, <2>7 DEF make_room
  <2>9. j \in 1 .. Len(p)
    BY <2>3
  <2>10. e = cache_remove_node(d, n)
    BY <2>4, <2>8, <2>9, RemovedTwice
  <2>11. \E g : Good(e, RemoveAt(p, j), g)
    BY <2>4, <2>9, <2>10, Removed
  <2>12. /\ DOMAIN e.data = DOMAIN d.data \ {n}
         /\ \A m \in DOMAIN e.data : e.data[m] = d.data[m]
    BY <2>4, <2>9, <2>10, Removed
  <2>. QED
    BY <1>2, <2>1, <2>2, <2>3, <2>4, <2>11, <2>12
<1>. QED
  BY <1>1, <1>2

(***************************************************************************)
(* What the relay sees: the entries in order of use.                       *)
(***************************************************************************)
View(data, p) == [i \in 1 .. Len(p) |-> data[p[i]]]

LEMMA ViewSeq ==
    ASSUME NEW D, NEW p \in Seq(Node), \A i \in 1 .. Len(p) : D[p[i]] \in Entry
    PROVE  /\ View(D, p) \in Seq(Entry) /\ Len(View(D, p)) = Len(p)
           /\ \A i \in 1 .. Len(p) : View(D, p)[i] = D[p[i]]
<1>1. Len(p) \in Nat
  OBVIOUS
<1>. QED
  BY <1>1 DEF View

LEMMA ViewTaken ==
    ASSUME NEW D, NEW p \in Seq(Node), \A i \in 1 .. Len(p) : D[p[i]] \in Entry,
           NEW j \in 1 .. Len(p)
    PROVE  View(D, RemoveAt(p, j)) = RemoveAt(View(D, p), j)
<1>1. PICK L \in Nat : L = Len(p)
  OBVIOUS
<1>2. PICK v \in Seq(Entry) : v = View(D, p)
  BY ViewSeq
<1>10. Len(v) = L /\ \A i \in 1 .. L : v[i] = D[p[i]]
  BY <1>1, <1>2, ViewSeq
<1>3. PICK r \in Seq(Node) : r = RemoveAt(p, j)
  BY TakenOut
<1>4. /\ Len(r) = L - 1
      /\ \A i \in 1 .. L - 1 : r[i] = IF i < j THEN p[i] ELSE p[i + 1]
  BY <1>1, <1>3, TakenOut
<1>5. PICK w \in Seq(Entry) : w = RemoveAt(v, j)
  BY <1>1, <1>10, TakenOut
<1>6. /\ Len(w) = L - 1
      /\ \A i \in 1 .. L - 1 : w[i] = IF i < j THEN v[i] ELSE v[i + 1]
  <2>1. j \in 1 .. Len(v)
    BY <1>1, <1>10
  <2>. QED
    BY <1>5, <1>10, <2>1, TakenOut
<1>7. ASSUME NEW i \in 1 .. L - 1 PROVE w[i] = D[r[i]]
  <2>1. PICK k \in 1 .. L : k = IF i < j THEN i ELSE i + 1
    BY <1>1
  <2>2. w[i] = v[k] /\ r[i] = p[k]
    BY <1>4, <1>6, <2>1
  <2>. QED
    BY <1>10, <2>2
<1>8. View(D, r) = [i \in 1 .. L - 1 |-> D[r[i]]]
  BY <1>4 DEF View
<1>9. w = [i \in 1 .. L - 1 |-> w[i]]
  BY <1>6
<1>. QED
  BY <1>2, <1>3, <1>5, <1>7, <1>8, <1>9

LEMMA ViewPut ==
    ASSUME NEW D, NEW p \in Seq(Node), \A i \in 1 .. Len(p) : D[p[i]] \in Entry,
           NEW n \in Node, D[n] \in Entry
    PROVE  View(D, <<n>> \o p) = <<D[n]>> \o View(D, p)
<1>1. PICK L \in Nat : L = Len(p)
  OBVIOUS
<1>2. PICK v \in Seq(Entry) : v = View(D, p)
  BY ViewSeq
<1>10. Len(v) = L /\ \A i \in 1 .. L : v[i] = D[p[i]]
  BY <1>1, <1>2, ViewSeq
<1>3. PICK r \in Seq(Node) : r = <<n>> \o p
  BY PutInFront
<1>4. Len(r) = L + 1 /\ r[1] = n /\ \A i \in 1 .. L : r[i + 1] = p[i]
  BY <1>1, <1>3, PutInFront
<1>5. PICK w \in Seq(Entry) : w = <<D[n]>> \o v
  BY <1>2, PutInFront
<1>6. Len(w) = L + 1 /\ w[1] = D[n] /\ \A i \in 1 .. L : w[i + 1] = v[i]
  BY <1>5, <1>10, PutInFront
<1>7. ASSUME NEW i \in 1 .. L + 1 PROVE w[i] = D[r[i]]
  <2>1. CASE i = 1
    BY <1>4, <1>6, <2>1
  <2>2. CASE i # 1
    <3>1. PICK k \in 1 .. L : i = k + 1
      <4>1. i - 1 \in 1 .. L /\ i = (i - 1) + 1
        BY <1>1, <2>2
      <4>. QED
        BY <4>1
    <3>. QED
      BY <1>4, <1>6, <1>10, <3>1
  <2>. QED
    BY <2>1, <2>2
<1>8. View(D, r) = [i \in 1 .. L + 1 |-> D[r[i]]]
  BY <1>4 DEF View
<1>9. w = [i \in 1 .. L + 1 |-> w[i]]
  BY <1>6
<1>. QED
  BY <1>2, <1>3, <1>5, <1>7, <1>8, <1>9

LEMMA ViewSame ==
    ASSUME NEW D, NEW D1, NEW p, \A i \in 1 .. Len(p) : D1[p[i]] = D[p[i]]
    PROVE  View(D1, p) = View(D, p)
BY DEF View

\* The list a good structure shows.
LEMMA ViewIs ==
    ASSUME NEW d, NEW p, NEW h, Good(d, p, h), NEW V, V = View(d.data, p)
    PROVE  /\ p \in Seq(Node) /\ Len(p) \in Nat
           /\ \A i \in 1 .. Len(p) : d.data[p[i]] \in Entry
           /\ V \in Seq(Entry) /\ Len(V) = Len(p)
           /\ \A i \in 1 .. Len(p) : V[i] = d.data[p[i]]
<1>1. p \in Seq(Node) /\ Len(p) \in Nat
  BY DEF Good, InOrder, OnRing
<1>2. ASSUME NEW i \in 1 .. Len(p) PROVE d.data[p[i]] \in Entry
  <2>1. p[i] \in DOMAIN d.data
    BY DEF Good, InOrder, Met
  <2>. QED
    BY <2>1, NodeFacts DEF Good
<1>3. /\ V \in Seq(Entry) /\ Len(V) = Len(p)
      /\ \A i \in 1 .. Len(p) : V[i] = d.data[p[i]]
  BY <1>1, <1>2 DEF View
<1>. QED
  BY <1>1, <1>2, <1>3

\* The refinement mapping, of any state of the struct.
Shown(d) ==
    LET order == Walk(d.lru_next, d.lru_next[lru_sentinel], lru_sentinel)
    IN  [i \in 1 .. Len(order) |-> d.data[order[i]]]

LEMMA ShownIsView ==
    ASSUME NEW d, NEW p, NEW h, Good(d, p, h)
    PROVE  Shown(d) = View(d.data, p)
BY GoodWalks DEF Shown, View

\* A name without a node is not in the list.
LEMMA NotHeld ==
    ASSUME NEW d, NEW p, NEW h, Good(d, p, h), NEW q,
           \A m \in DOMAIN d.data : d.data[m].qname # q
    PROVE  ~cached(View(d.data, p), q)
<1>1. PICK V \in Seq(Entry) : V = View(d.data, p)
  BY ViewIs
<1>2. Len(V) = Len(p) /\ \A i \in 1 .. Len(p) : V[i] = d.data[p[i]]
  BY <1>1, ViewIs
<1>3. \A i \in 1 .. Len(p) : p[i] \in DOMAIN d.data
  BY DEF Good, InOrder, Met
<1>. QED
  BY <1>1, <1>2, <1>3 DEF cached

\* The node of a name and its place in the list.
LEMMA Held ==
    ASSUME NEW d, NEW p, NEW h, Good(d, p, h), NEW q, NEW n, n \in DOMAIN d.data,
           d.data[n].qname = q, NEW V, V = View(d.data, p)
    PROVE  /\ cached(V, q)
           /\ position(V, q) \in 1 .. Len(p) /\ p[position(V, q)] = n
           /\ entry_of(V, q) = d.data[n]
           /\ without(V, q) = RemoveAt(V, position(V, q))
<1>1. PICK l \in Seq(Entry) : l = V
  BY ViewIs
<1>2. Len(l) = Len(p) /\ \A i \in 1 .. Len(p) : l[i] = d.data[p[i]]
  BY <1>1, ViewIs
<1>3. PICK j \in 1 .. Len(p) : p[j] = n
  BY DEF Good, InOrder, Met
<1>4. cached(l, q)
  BY <1>2, <1>3 DEF cached
<1>5. PICK k \in 1 .. Len(p) : k = position(l, q) /\ l[k].qname = q /\ entry_of(l, q) = l[k]
  BY <1>2, <1>4, Found
<1>6. p[k] \in DOMAIN d.data /\ d.data[p[k]].qname = q
  <2>1. p[k] \in DOMAIN d.data
    BY DEF Good, InOrder, Met
  <2>. QED
    BY <1>2, <1>5, <2>1
<1>7. p[k] = n
  BY <1>6 DEF Good, NamedOnce
<1>. QED
  BY <1>1, <1>2, <1>4, <1>5, <1>7 DEF without

(***************************************************************************)
(* dns_cache_destroy.                                                      *)
(***************************************************************************)
\* One turn of the loop.
Shortened(d) == IF lru_head(d) = lru_sentinel THEN d ELSE cache_remove_node(d, lru_head(d))

\* f gives the states after 0, 1, ..., m turns.
Turns(f, d, m) == f = [k \in 0 .. m |-> IF k = 0 THEN d ELSE Shortened(f[k - 1])]

Emptying(d) ==
    CHOOSE f : f = [k \in 0 .. Cardinality(Node) |->
                       IF k = 0 THEN d
                       ELSE IF lru_head(f[k - 1]) = lru_sentinel THEN f[k - 1]
                       ELSE cache_remove_node(f[k - 1], lru_head(f[k - 1]))]

LEMMA EmptiedIs ==
    ASSUME NEW d
    PROVE  emptied(d) = Emptying(d)[Cardinality(Node)]
BY DEF emptied, Emptying

\* The function that emptied defines by recursion exists.
LEMMA TurnsExist ==
    ASSUME NEW d, NEW m \in Nat
    PROVE  \E f : Turns(f, d, m)
<1>. SUFFICES ASSUME ~ \E f : Turns(f, d, m) PROVE FALSE
  OBVIOUS
<1>1. PICK S : S = {k \in Nat : ~ \E f : Turns(f, d, k)}
  OBVIOUS
<1>2. S \subseteq Nat /\ m \in S
  BY <1>1
<1>3. PICK l \in S : \A k \in S : l <= k
  BY <1>2, LeastNumber
<1>4. l \in Nat /\ ~ \E f : Turns(f, d, l)
  BY <1>1, <1>3
<1>5. CASE l = 0
  <2>1. PICK f : f = [k \in 0 .. 0 |-> d]
    OBVIOUS
  <2>2. f = [k \in 0 .. 0 |-> IF k = 0 THEN d ELSE Shortened(f[k - 1])]
    BY <2>1
  <2>. QED
    BY <1>4, <1>5, <2>2 DEF Turns
<1>6. CASE l # 0
  <2>1. PICK j \in Nat : l = j + 1
    <3>1. l - 1 \in Nat /\ l = (l - 1) + 1
      BY <1>4, <1>6
    <3>. QED
      BY <3>1
  <2>2. j \notin S
    BY <1>3, <2>1
  <2>3. PICK f : Turns(f, d, j)
    BY <1>1, <2>2
  <2>4. \A k \in 0 .. j : f[k] = IF k = 0 THEN d ELSE Shortened(f[k - 1])
    BY <2>3 DEF Turns
  <2>5. PICK g : g = [k \in 0 .. l |-> IF k = l THEN Shortened(f[j]) ELSE f[k]]
    OBVIOUS
  <2>6. ASSUME NEW k \in 0 .. l PROVE g[k] = IF k = 0 THEN d ELSE Shortened(g[k - 1])
    <3>1. CASE k = 0
      BY <1>6, <2>4, <2>5, <3>1
    <3>2. CASE k # 0
      <4>1. PICK i \in 0 .. j : i = k - 1 /\ i \in 0 .. l /\ i # l
        BY <2>1, <3>2
      <4>2. g[i] = f[i]
        BY <2>5, <4>1
      <4>3. CASE k = l
        <5>1. i = j
          BY <2>1, <4>1, <4>3
        <5>. QED
          BY <2>5, <3>2, <4>1, <4>2, <4>3, <5>1
      <4>4. CASE k # l
        <5>1. k \in 0 .. j /\ g[k] = f[k]
          BY <2>1, <2>5, <4>4
        <5>. QED
          BY <2>4, <3>2, <4>1, <4>2, <5>1
      <4>. QED
        BY <4>3, <4>4
    <3>. QED
      BY <3>1, <3>2
  <2>7. g = [k \in 0 .. l |-> g[k]]
    BY <2>5
  <2>8. g = [k \in 0 .. l |-> IF k = 0 THEN d ELSE Shortened(g[k - 1])]
    BY <2>6, <2>7
  <2>. QED
    BY <1>4, <2>8 DEF Turns
<1>. QED
  BY <1>5, <1>6

LEMMA EmptyingTurns ==
    ASSUME NEW d, NEW N \in Nat, N = Cardinality(Node)
    PROVE  /\ Emptying(d)[0] = d
           /\ \A k \in 1 .. N : Emptying(d)[k] = Shortened(Emptying(d)[k - 1])
<1>1. PICK f : Turns(f, d, N)
  BY TurnsExist
<1>2. f = [k \in 0 .. N |-> IF k = 0 THEN d
                            ELSE IF lru_head(f[k - 1]) = lru_sentinel THEN f[k - 1]
                            ELSE cache_remove_node(f[k - 1], lru_head(f[k - 1]))]
  BY <1>1 DEF Turns, Shortened
<1>3. PICK e : e = Emptying(d)
  OBVIOUS
<1>4. e = [k \in 0 .. N |-> IF k = 0 THEN d
                            ELSE IF lru_head(e[k - 1]) = lru_sentinel THEN e[k - 1]
                            ELSE cache_remove_node(e[k - 1], lru_head(e[k - 1]))]
  BY <1>2, <1>3, Zenon DEF Emptying
<1>5. e[0] = d
  BY <1>4
<1>6. ASSUME NEW k \in 1 .. N PROVE e[k] = Shortened(e[k - 1])
  BY <1>4 DEF Shortened
<1>. QED
  BY <1>3, <1>5, <1>6

\* A turn takes out the first node.
LEMMA TurnTaken ==
    ASSUME NEW d, NEW p, NEW h, Good(d, p, h)
    PROVE  \E q, g : /\ Good(Shortened(d), q, g)
                     /\ Len(q) = IF Len(p) = 0 THEN 0 ELSE Len(p) - 1
<1>1. PICK l \in Seq(Node) : l = p
  BY Ends
<1>2. lru_head(d) = IF Len(l) = 0 THEN lru_sentinel ELSE l[1]
  BY <1>1, Ends
<1>3. CASE Len(l) = 0
  BY <1>1, <1>2, <1>3 DEF Shortened
<1>4. CASE Len(l) # 0
  <2>1. PICK j \in 1 .. Len(l) : j = 1
    BY <1>4
  <2>2. PICK n \in Node : n = l[j]
    OBVIOUS
  <2>3. Shortened(d) = cache_remove_node(d, n)
    BY <1>2, <1>4, <2>1, <2>2, PointersDiffer DEF Shortened
  <2>4. \E g : Good(Shortened(d), RemoveAt(p, j), g)
    BY <1>1, <2>2, <2>3, Removed
  <2>5. Len(RemoveAt(l, j)) = Len(l) - 1
    BY TakenOut
  <2>. QED
    BY <1>1, <1>4, <2>4, <2>5
<1>. QED
  BY <1>3, <1>4

\* Once there are no more turns than nodes to take out, the list is empty.
LEMMA Emptied ==
    ASSUME NEW d, NEW p, NEW h, Good(d, p, h)
    PROVE  \E q, g : Good(emptied(d), q, g) /\ q \in Seq(Node) /\ Len(q) = 0
<1>1. p \in Seq(Node) /\ Once(p)
  BY DEF Good, InOrder, OnRing
<1>2. PICK L \in Nat, N \in Nat : L = Len(p) /\ N = Cardinality(Node) /\ L <= N
  BY <1>1, NoLonger
<1>3. PICK e : e = Emptying(d)
  OBVIOUS
<1>4. e[0] = d /\ \A k \in 1 .. N : e[k] = Shortened(e[k - 1])
  BY <1>2, <1>3, EmptyingTurns
<1>5. PICK S : S = {k \in 0 .. N : ~ \E q, g : /\ Good(e[k], q, g)
                                               /\ Len(q) = IF k < L THEN L - k ELSE 0}
  OBVIOUS
<1>6. ASSUME NEW k \in 0 .. N
      PROVE  k \in S <=> ~ \E q, g : /\ Good(e[k], q, g)
                                     /\ Len(q) = IF k < L THEN L - k ELSE 0
  BY <1>5
<1>7. S = {}
  <2>. SUFFICES ASSUME S # {} PROVE FALSE
    OBVIOUS
  <2>1. S \subseteq Nat /\ S \subseteq 0 .. N
    BY <1>5
  <2>2. PICK l \in S : \A k \in S : l <= k
    BY <2>1, LeastNumber
  <2>3. l # 0
    <3>1. Len(p) = IF 0 < L THEN L - 0 ELSE 0
      BY <1>2
    <3>2. 0 \in 0 .. N /\ Good(e[0], p, h)
      BY <1>4
    <3>. QED
      BY <1>6, <2>2, <3>1, <3>2
  <2>4. PICK j \in 0 .. N : j = l - 1 /\ l \in 1 .. N /\ j \notin S
    <3>1. l \in 1 .. N
      BY <2>1, <2>3
    <3>2. l - 1 \in 0 .. N /\ ~(l <= l - 1)
      BY <3>1
    <3>. QED
      BY <2>2, <3>1, <3>2
  <2>5. PICK q, g : Good(e[j], q, g) /\ Len(q) = IF j < L THEN L - j ELSE 0
    BY <1>6, <2>4
  <2>6. e[l] = Shortened(e[j])
    BY <1>4, <2>4
  <2>7. PICK q1, g1 : /\ Good(Shortened(e[j]), q1, g1)
                      /\ Len(q1) = IF Len(q) = 0 THEN 0 ELSE Len(q) - 1
    BY <2>5, TurnTaken
  <2>8. Len(q1) = IF l < L THEN L - l ELSE 0
    BY <1>2, <2>4, <2>5, <2>7
  <2>9. l \in 0 .. N /\ l \in S
    BY <2>1, <2>2
  <2>. QED
    BY <1>6, <2>6, <2>7, <2>8, <2>9
<1>8. PICK q, g : Good(e[N], q, g) /\ Len(q) = IF N < L THEN L - N ELSE 0
  <2>1. N \in 0 .. N /\ N \notin S
    BY <1>7
  <2>. QED
    BY <1>6, <2>1
<1>9. Len(q) = 0
  BY <1>2, <1>8
<1>10. emptied(d) = e[N]
  BY <1>2, <1>3, EmptiedIs
<1>11. q \in Seq(Node)
  BY <1>8, Ends
<1>. QED
  BY <1>8, <1>9, <1>10, <1>11

(***************************************************************************)
(* Each call, on the structure and on the list that it shows.              *)
(***************************************************************************)
\* The struct is good and shows the list V.
Shows(d, V) == \E p, h : Good(d, p, h) /\ V = View(d.data, p)

LEMMA ShownIs ==
    ASSUME NEW d, NEW V, Shows(d, V)
    PROVE  d \in Struct /\ Shown(d) = V /\ V \in Seq(Entry)
<1>1. PICK p, h : Good(d, p, h) /\ V = View(d.data, p)
  BY DEF Shows
<1>2. d \in Struct
  BY <1>1 DEF Good
<1>3. Shown(d) = V
  BY <1>1, ShownIsView
<1>4. V \in Seq(Entry)
  BY <1>1, ViewIs
<1>. QED
  BY <1>2, <1>3, <1>4

LEMMA CreateShows == Shows(dns_cache_create, <<>>)
<1>1. PICK d : d = dns_cache_create
  OBVIOUS
<1>2. PICK D1, B1, H1, P1, N1 :
         /\ D1 = [n \in {} |-> NULL]
         /\ B1 = [b \in Bucket |-> NULL]
         /\ H1 = [n \in Node |-> NULL]
         /\ P1 = [n \in Listed |-> IF n = lru_sentinel THEN n ELSE NULL]
         /\ N1 = [n \in Listed |-> IF n = lru_sentinel THEN n ELSE NULL]
  OBVIOUS
<1>3. d = Made(D1, B1, H1, P1, N1, 0)
  BY <1>1, <1>2 DEF dns_cache_create, Made
<1>4. /\ Fields(d) /\ d.data = D1 /\ d.buckets = B1 /\ d.hash_next = H1
      /\ d.lru_prev = P1 /\ d.lru_next = N1 /\ d.size = 0
  BY <1>3, MadeFields
<1>5. D1 \in Heap /\ DOMAIN D1 = {}
  <2>1. DOMAIN D1 = {} /\ D1 = [n \in DOMAIN D1 |-> D1[n]]
    BY <1>2
  <2>. QED
    BY <2>1, HeapIs
<1>6. /\ B1 \in [Bucket -> Node \cup {NULL}] /\ H1 \in [Node -> Node \cup {NULL}]
      /\ P1 \in Pointers /\ N1 \in Pointers /\ lru_sentinel \in Listed
  BY <1>2 DEF Pointers, Listed
<1>7. d \in Struct
  <2>1. 0 \in 0 .. capacity
    BY CapacityIsPositive
  <2>. QED
    BY <1>4, <1>5, <1>6, <2>1, StructOfFields
<1>8. PICK p : p = <<>> /\ p \in Seq(Node) /\ Len(p) = 0
  BY EmptySeq
<1>9. Once(p) /\ \A m : ~Met(m, p)
  BY <1>8 DEF Once, Met
<1>10. Ring(N1, P1, p)
  BY <1>2, <1>6, <1>8 DEF Ring, at, Place
<1>11. InOrder(d, p)
  BY <1>4, <1>5, <1>6, <1>8, <1>9, <1>10 DEF InOrder, OnRing
<1>12. PICK h : h = [b \in Bucket |-> p]
  OBVIOUS
<1>13. Chained(d, h)
  <2>1. ASSUME NEW b \in Bucket
        PROVE  /\ Once(h[b]) /\ Linked(H1, B1[b], h[b])
               /\ \A n : Met(n, h[b]) <=> n \in DOMAIN D1 /\ hash[D1[n].qname] = b
    <3>1. h[b] = p /\ B1[b] = NULL
      BY <1>2, <1>12
    <3>2. Linked(H1, NULL, p)
      BY <1>8 DEF Linked, Place
    <3>. QED
      BY <1>5, <1>9, <3>1, <3>2
  <2>2. h \in [Bucket -> Seq(Node)]
    BY <1>8, <1>12
  <2>. QED
    BY <1>4, <1>6, <2>1, <2>2 DEF Chained, Chains
<1>14. NamedOnce(d)
  BY <1>4, <1>5 DEF NamedOnce
<1>15. Good(d, p, h)
  BY <1>7, <1>11, <1>13, <1>14 DEF Good
<1>16. View(d.data, p) = <<>>
  BY <1>8 DEF View
<1>. QED
  BY <1>1, <1>15, <1>16 DEF Shows

\* Taking out the node of a name.
LEMMA TakeShows ==
    ASSUME NEW d, NEW V, Shows(d, V), NEW n, n \in DOMAIN d.data,
           NEW q, q = d.data[n].qname
    PROVE  /\ cached(V, q) /\ entry_of(V, q) = d.data[n]
           /\ Shows(cache_remove_node(d, n), without(V, q))
<1>1. PICK p, h : Good(d, p, h) /\ V = View(d.data, p)
  BY DEF Shows
<1>2. /\ cached(V, q) /\ entry_of(V, q) = d.data[n]
      /\ position(V, q) \in 1 .. Len(p) /\ p[position(V, q)] = n
      /\ without(V, q) = RemoveAt(V, position(V, q))
  BY <1>1, Held
<1>3. PICK j \in 1 .. Len(p) : j = position(V, q)
  BY <1>2
<1>4. PICK e : e = cache_remove_node(d, n)
  OBVIOUS
<1>5. PICK g : Good(e, RemoveAt(p, j), g)
  BY <1>1, <1>2, <1>3, <1>4, Removed
<1>6. \A m \in DOMAIN e.data : e.data[m] = d.data[m]
  BY <1>1, <1>2, <1>3, <1>4, Removed
<1>7. PICK l \in Seq(Node) : l = p /\ \A i \in 1 .. Len(l) : d.data[l[i]] \in Entry
  BY <1>1, ViewIs
<1>8. View(d.data, RemoveAt(l, j)) = RemoveAt(View(d.data, l), j)
  BY <1>3, <1>7, ViewTaken
<1>9. View(e.data, RemoveAt(p, j)) = View(d.data, RemoveAt(p, j))
  <2>1. \A i \in 1 .. Len(RemoveAt(p, j)) : RemoveAt(p, j)[i] \in DOMAIN e.data
    BY <1>5 DEF Good, InOrder, Met
  <2>. QED
    BY <1>6, <2>1, ViewSame
<1>10. View(e.data, RemoveAt(p, j)) = without(V, q)
  BY <1>1, <1>2, <1>3, <1>7, <1>8, <1>9
<1>11. Shows(e, without(V, q))
  BY <1>5, <1>10 DEF Shows
<1>. QED
  BY <1>2, <1>4, <1>11

\* Moving the node of a name to the front, with a new entry for the name.
LEMMA MoveShows ==
    ASSUME NEW d, NEW V, Shows(d, V), NEW n, n \in DOMAIN d.data,
           NEW entry, entry \in Entry, entry.qname = d.data[n].qname,
           NEW u, u = [d EXCEPT !.data = [d.data EXCEPT ![n] = entry]]
    PROVE  Shows(lru_push_front(lru_remove(u, n), n),
                 <<entry>> \o without(V, entry.qname))
<1>1. PICK p, h : Good(d, p, h) /\ V = View(d.data, p)
  BY DEF Shows
<1>2. PICK q : q = entry.qname
  OBVIOUS
<1>3. /\ position(V, q) \in 1 .. Len(p) /\ p[position(V, q)] = n
      /\ without(V, q) = RemoveAt(V, position(V, q))
  BY <1>1, <1>2, Held
<1>4. PICK j \in 1 .. Len(p) : j = position(V, q)
  BY <1>3
<1>5. PICK D1 : D1 = [d.data EXCEPT ![n] = entry]
  OBVIOUS
<1>6. d \in Struct /\ d.data \in Heap
  BY <1>1, StructFields DEF Good
<1>7. /\ DOMAIN D1 = DOMAIN d.data
      /\ \A m \in DOMAIN D1 : D1[m] = IF m = n THEN entry ELSE d.data[m]
      /\ D1 = [m \in DOMAIN D1 |-> D1[m]]
  BY <1>5
<1>8. D1 \in Heap
  <2>1. DOMAIN d.data \subseteq Node /\ \A m \in DOMAIN d.data : d.data[m] \in Entry
    BY <1>6, HeapIs
  <2>. QED
    BY <1>7, <2>1, HeapIs
<1>9. \A m \in DOMAIN D1 : D1[m].qname = d.data[m].qname
  BY <1>7
<1>10. u = [d EXCEPT !.data = D1]
  BY <1>5
<1>11. Good(u, p, h)
  BY <1>1, <1>7, <1>8, <1>9, <1>10, Renewed
<1>12. u.data = D1
  BY <1>1, <1>7, <1>8, <1>9, <1>10, Renewed
<1>13. PICK e : e = lru_push_front(lru_remove(u, n), n)
  OBVIOUS
<1>14. Good(e, <<n>> \o RemoveAt(p, j), h)
  BY <1>3, <1>4, <1>11, <1>13, Moved
<1>15. e.data = D1
  <2>1. Fields(u)
    BY <1>11, StructFields DEF Good
  <2>2. lru_push_front(lru_remove(u, n), n).data = u.data
    BY <2>1, MovedData
  <2>. QED
    BY <1>12, <1>13, <2>2
<1>16. PICK l \in Seq(Node) : l = p /\ \A i \in 1 .. Len(l) : d.data[l[i]] \in Entry
  BY <1>1, ViewIs
<1>17. Once(l) /\ l[j] = n
  BY <1>1, <1>3, <1>4, <1>16 DEF Good, InOrder, OnRing
<1>18. PICK r \in Seq(Node) : r = RemoveAt(l, j)
  BY <1>4, <1>16, TakenOut
<1>19. View(d.data, r) = RemoveAt(View(d.data, l), j)
  BY <1>4, <1>16, <1>18, ViewTaken
<1>20. ASSUME NEW i \in 1 .. Len(r) PROVE r[i] \in DOMAIN d.data /\ r[i] # n
  <2>1. Met(r[i], r)
    BY DEF Met
  <2>2. Met(r[i], l) /\ r[i] # n
    BY <1>4, <1>16, <1>17, <1>18, <2>1, OnceTaken
  <2>. QED
    BY <1>1, <1>16, <2>2 DEF Good, InOrder
<1>21. View(D1, r) = View(d.data, r)
  <2>1. \A i \in 1 .. Len(r) : D1[r[i]] = d.data[r[i]]
    BY <1>7, <1>20
  <2>. QED
    BY <2>1, ViewSame
<1>22. n \in Node /\ D1[n] = entry
  BY <1>6, <1>7, NodeFacts
<1>23. \A i \in 1 .. Len(r) : D1[r[i]] \in Entry
  BY <1>6, <1>7, <1>20, NodeFacts
<1>24. View(D1, <<n>> \o r) = <<entry>> \o View(D1, r)
  BY <1>22, <1>23, ViewPut
<1>25. View(e.data, <<n>> \o RemoveAt(p, j)) = <<entry>> \o without(V, q)
  BY <1>1, <1>3, <1>4, <1>15, <1>16, <1>18, <1>19, <1>21, <1>24
<1>. QED
  BY <1>2, <1>13, <1>14, <1>25 DEF Shows

LEMMA AddShows ==
    ASSUME NEW d, NEW V, Shows(d, V), d.size < capacity,
           NEW n, n \in Node, n \notin DOMAIN d.data,
           NEW entry, entry \in Entry, \A m \in DOMAIN d.data : d.data[m].qname # entry.qname
    PROVE  Shows(add_node(d, n, entry), <<entry>> \o V)
<1>1. PICK p, h : Good(d, p, h) /\ V = View(d.data, p)
  BY DEF Shows
<1>2. PICK e : e = add_node(d, n, entry)
  OBVIOUS
<1>3. PICK g : Good(e, <<n>> \o p, g)
  BY <1>1, <1>2, Added
<1>4. e.data[n] = entry
  BY <1>1, <1>2, <1>3, Added
<1>5. \A m \in DOMAIN d.data : e.data[m] = d.data[m]
  BY <1>1, <1>2, <1>3, Added
<1>6. PICK l \in Seq(Node) : l = p /\ \A i \in 1 .. Len(l) : d.data[l[i]] \in Entry
  BY <1>1, ViewIs
<1>7. \A i \in 1 .. Len(l) : e.data[l[i]] = d.data[l[i]]
  <2>1. \A i \in 1 .. Len(l) : l[i] \in DOMAIN d.data
    BY <1>1, <1>6 DEF Good, InOrder, Met
  <2>. QED
    BY <1>5, <2>1
<1>8. View(e.data, l) = View(d.data, l)
  BY <1>7, ViewSame
<1>9. View(e.data, <<n>> \o l) = <<entry>> \o View(e.data, l)
  BY <1>4, <1>6, <1>7, ViewPut
<1>10. View(e.data, <<n>> \o p) = <<entry>> \o V
  BY <1>1, <1>6, <1>8, <1>9
<1>. QED
  BY <1>2, <1>3, <1>10 DEF Shows

\* Without its last entry a full list is what evicted leaves of it.
LEMMA LastTaken ==
    ASSUME NEW l \in Seq(Entry), Len(l) = capacity
    PROVE  RemoveAt(l, Len(l)) = evicted(l)
<1>1. PICK L \in Nat : L = Len(l) /\ L >= 1 /\ L = capacity
  BY CapacityIsPositive
<1>2. PICK k \in 1 .. Len(l) : k = L
  BY <1>1
<1>3. PICK r \in Seq(Entry) : r = RemoveAt(l, k)
  BY TakenOut
<1>4. Len(r) = L - 1 /\ \A i \in 1 .. L - 1 : r[i] = l[i]
  BY <1>1, <1>2, <1>3, TakenOut
<1>5. PICK s : s = SubSeq(l, 1, L - 1)
  OBVIOUS
<1>6. s \in Seq(Entry) /\ Len(s) = L - 1 /\ \A i \in 1 .. L - 1 : s[i] = l[i]
  <2>1. \A i \in 1 .. L - 1 : l[i] \in Entry
    BY <1>1
  <2>2. /\ SubSeq(l, 1, L - 1) \in Seq(Entry)
        /\ Len(SubSeq(l, 1, L - 1)) = IF 1 <= L - 1 THEN L - 1 - 1 + 1 ELSE 0
        /\ \A i \in 1 .. L - 1 - 1 + 1 : SubSeq(l, 1, L - 1)[i] = l[1 + i - 1]
    BY <1>1, <2>1, SubSeqProperties
  <2>. QED
    BY <1>1, <1>5, <2>2
<1>7. evicted(l) = s
  BY <1>1, <1>5 DEF evicted
<1>8. r = [i \in 1 .. L - 1 |-> r[i]] /\ s = [i \in 1 .. L - 1 |-> s[i]]
  BY <1>4, <1>6
<1>9. r = s
  BY <1>4, <1>6, <1>8
<1>. QED
  BY <1>1, <1>2, <1>3, <1>7, <1>9

\* The list with room, and the nodes that it leaves.
LEMMA RoomShows ==
    ASSUME NEW d, NEW V, Shows(d, V), NEW e, e = make_room(d)
    PROVE  /\ Shows(e, evicted(V))
           /\ e.size < capacity
           /\ \A m \in DOMAIN e.data : m \in DOMAIN d.data /\ e.data[m] = d.data[m]
<1>1. PICK p, h : Good(d, p, h) /\ V = View(d.data, p)
  BY DEF Shows
<1>2. d.size = Len(p) /\ d \in Struct
  BY <1>1 DEF Good, InOrder
<1>3. V \in Seq(Entry) /\ Len(V) = Len(p) /\ Len(p) \in Nat /\ capacity \in Nat
  BY <1>1, CapacityIsPositive, ViewIs
<1>4. IF d.size < capacity THEN e = d
      ELSE /\ d.size = capacity /\ Len(p) = capacity
           /\ \E g : Good(e, RemoveAt(p, Len(p)), g)
           /\ DOMAIN e.data = DOMAIN d.data \ {p[Len(p)]}
           /\ \A m \in DOMAIN e.data : e.data[m] = d.data[m]
  BY <1>1, RoomMade
<1>5. CASE d.size < capacity
  <2>1. evicted(V) = V
    BY <1>2, <1>3, <1>5 DEF evicted
  <2>. QED
    BY <1>4, <1>5, <2>1
<1>6. CASE ~(d.size < capacity)
  <2>1. PICK l \in Seq(Node) : l = p /\ \A i \in 1 .. Len(l) : d.data[l[i]] \in Entry
    BY <1>1, ViewIs
  <2>2. PICK j \in 1 .. Len(l) : j = Len(l) /\ j = Len(V) /\ j = capacity
    BY <1>3, <1>4, <1>6, <2>1, CapacityIsPositive
  <2>3. PICK g : Good(e, RemoveAt(l, j), g)
    BY <1>4, <1>6, <2>1, <2>2
  <2>4. View(d.data, RemoveAt(l, j)) = RemoveAt(View(d.data, l), j)
    BY <2>1, ViewTaken
  <2>5. RemoveAt(V, j) = evicted(V)
    BY <1>3, <2>2, LastTaken
  <2>6. View(e.data, RemoveAt(l, j)) = View(d.data, RemoveAt(l, j))
    <3>1. \A i \in 1 .. Len(RemoveAt(l, j)) : RemoveAt(l, j)[i] \in DOMAIN e.data
      BY <2>3 DEF Good, InOrder, Met
    <3>2. \A m \in DOMAIN e.data : e.data[m] = d.data[m]
      BY <1>4, <1>6
    <3>. QED
      BY <3>1, <3>2, ViewSame
  <2>7. Shows(e, evicted(V))
    BY <1>1, <2>1, <2>3, <2>4, <2>5, <2>6 DEF Shows
  <2>8. e.size < capacity
    <3>1. e.size = Len(RemoveAt(l, j))
      BY <2>3 DEF Good, InOrder
    <3>2. Len(RemoveAt(l, j)) = Len(l) - 1
      BY TakenOut
    <3>3. PICK L \in Nat : L = Len(l) /\ L = capacity
      BY <1>3, <2>1, <2>2
    <3>. QED
      BY <3>1, <3>2, <3>3
  <2>. QED
    BY <1>4, <1>6, <2>7, <2>8
<1>. QED
  BY <1>5, <1>6

LEMMA EmptyShows ==
    ASSUME NEW d, NEW V, Shows(d, V)
    PROVE  Shows(emptied(d), <<>>)
<1>1. PICK p, h : Good(d, p, h)
  BY DEF Shows
<1>2. PICK q, g : Good(emptied(d), q, g) /\ q \in Seq(Node) /\ Len(q) = 0
  BY <1>1, Emptied
<1>3. View(emptied(d).data, q) = <<>>
  BY <1>2 DEF View
<1>. QED
  BY <1>2, <1>3 DEF Shows

LEMMA AgeShows ==
    ASSUME NEW d, NEW V, Shows(d, V), NEW e,
           e = [d EXCEPT !.data = [n \in DOMAIN d.data |->
                                      [d.data[n] EXCEPT !.left = less(@)]]]
    PROVE  Shows(e, aged(V))
<1>1. PICK p, h : Good(d, p, h) /\ V = View(d.data, p)
  BY DEF Shows
<1>2. PICK D1 : D1 = [n \in DOMAIN d.data |-> [d.data[n] EXCEPT !.left = less(@)]]
  OBVIOUS
<1>3. d \in Struct /\ d.data \in Heap
  BY <1>1, StructFields DEF Good
<1>4. ASSUME NEW x \in Entry
      PROVE  /\ [x EXCEPT !.left = less(x.left)] \in Entry
             /\ [x EXCEPT !.left = less(x.left)].qname = x.qname
  <2>1. less(x.left) \in 0 .. MaxTtl
    BY MaxTtlIsNat DEF Entry, less
  <2>. QED
    BY <2>1 DEF Entry
<1>5. \A m \in DOMAIN d.data : d.data[m] \in Entry
  BY <1>3, HeapIs
<1>6. /\ DOMAIN D1 = DOMAIN d.data /\ D1 = [m \in DOMAIN D1 |-> D1[m]]
      /\ \A m \in DOMAIN D1 : D1[m] = [d.data[m] EXCEPT !.left = less(d.data[m].left)]
  BY <1>2
<1>7. \A m \in DOMAIN D1 : D1[m] \in Entry /\ D1[m].qname = d.data[m].qname
  BY <1>4, <1>5, <1>6
<1>8. D1 \in Heap
  <2>1. DOMAIN D1 \subseteq Node
    BY <1>3, <1>6, HeapIs
  <2>. QED
    BY <1>6, <1>7, <2>1, HeapIs
<1>9. e = [d EXCEPT !.data = D1]
  BY <1>2
<1>10. Good(e, p, h)
  BY <1>1, <1>6, <1>7, <1>8, <1>9, Renewed
<1>11. e.data = D1
  BY <1>3, <1>9 DEF Struct
<1>12. PICK L \in Nat : L = Len(p) /\ L = Len(V) /\ \A i \in 1 .. L : V[i] = d.data[p[i]]
  BY <1>1, ViewIs
<1>13. \A i \in 1 .. L : p[i] \in DOMAIN d.data
  BY <1>1, <1>12 DEF Good, InOrder, Met
<1>14. View(D1, p) = [i \in 1 .. L |-> D1[p[i]]]
  BY <1>12 DEF View
<1>15. aged(V) = [i \in 1 .. L |-> [V[i] EXCEPT !.left = less(V[i].left)]]
  BY <1>12 DEF aged
<1>16. ASSUME NEW i \in 1 .. L PROVE D1[p[i]] = [V[i] EXCEPT !.left = less(V[i].left)]
  BY <1>6, <1>12, <1>13
<1>17. View(D1, p) = aged(V)
  BY <1>14, <1>15, <1>16
<1>. QED
  BY <1>10, <1>11, <1>17 DEF Shows

(***************************************************************************)
(* The calls, and the list that they make of the one that was shown.       *)
(***************************************************************************)
LEMMA ResultsDiffer ==
    /\ Miss.kind = "MISS" /\ Expired.kind = "EXPIRED"
    /\ \A ipv4 : Hit(ipv4).kind = "HIT"
BY DEF Miss, Expired, Hit

\* Writing an entry over itself changes nothing.
LEMMA Rewritten ==
    ASSUME NEW d, d \in Struct, NEW n, n \in DOMAIN d.data, NEW entry, entry = d.data[n]
    PROVE  d = [d EXCEPT !.data = [d.data EXCEPT ![n] = entry]]
<1>1. d.data = [m \in DOMAIN d.data |-> d.data[m]]
  BY StructFields, HeapIs
<1>2. PICK D1 : D1 = [d.data EXCEPT ![n] = entry]
  OBVIOUS
<1>3. /\ D1 = [m \in DOMAIN d.data |-> D1[m]]
      /\ \A m \in DOMAIN d.data : D1[m] = d.data[m]
  BY <1>2
<1>4. D1 = d.data
  BY <1>1, <1>3
<1>5. d = [d EXCEPT !.data = d.data]
  BY DEF Struct
<1>. QED
  BY <1>2, <1>4, <1>5

\* What cache_find_node finds, on the list.
LEMMA NodeShown ==
    ASSUME NEW d, NEW V, Shows(d, V), NEW q, q \in Name,
           NEW n, n = cache_find_node(d, q)
    PROVE  \/ /\ n = NULL /\ ~cached(V, q)
              /\ \A m \in DOMAIN d.data : d.data[m].qname # q
           \/ /\ n # NULL /\ n \in DOMAIN d.data /\ d.data[n].qname = q
              /\ cached(V, q) /\ entry_of(V, q) = d.data[n]
<1>1. PICK p, h : Good(d, p, h) /\ V = View(d.data, p)
  BY DEF Shows
<1>2. \/ n = NULL /\ \A m \in DOMAIN d.data : d.data[m].qname # q
      \/ n # NULL /\ n \in DOMAIN d.data /\ d.data[n].qname = q
  BY <1>1, NodeFound
<1>3. CASE n = NULL /\ \A m \in DOMAIN d.data : d.data[m].qname # q
  <2>1. ~cached(View(d.data, p), q)
    BY <1>1, <1>3, NotHeld
  <2>. QED
    BY <1>1, <1>3, <2>1
<1>4. CASE n # NULL /\ n \in DOMAIN d.data /\ d.data[n].qname = q
  <2>1. cached(V, q) /\ entry_of(V, q) = d.data[n]
    BY <1>4, TakeShows
  <2>. QED
    BY <1>4, <2>1
<1>. QED
  BY <1>2, <1>3, <1>4

LEMMA LookupShows ==
    ASSUME NEW V, Shows(c, V), NEW s \in Spelling, dns_cache_lookup(s)
    PROVE  /\ Shows(c', looked_up(V, lower[s]))
           /\ result' = lookup_result(V, lower[s]) /\ result' \in Result
<1>1. PICK q : q = lower[s] /\ q \in Name
  BY LowerType
<1>2. PICK n : n = cache_find_node(c, q)
  OBVIOUS
<1>3. \/ /\ n = NULL /\ ~cached(V, q)
         /\ \A m \in DOMAIN c.data : c.data[m].qname # q
      \/ /\ n # NULL /\ n \in DOMAIN c.data /\ c.data[n].qname = q
         /\ cached(V, q) /\ entry_of(V, q) = c.data[n]
  BY <1>1, <1>2, NodeShown
<1>4. \/ n = NULL /\ result' = Miss /\ c' = c
      \/ /\ n # NULL /\ c.data[n].left = 0
         /\ c' = cache_remove_node(c, n) /\ result' = Expired
      \/ /\ n # NULL /\ c.data[n].left > 0
         /\ c' = lru_push_front(lru_remove(c, n), n) /\ result' = Hit(c.data[n].ipv4)
  BY <1>1, <1>2 DEF dns_cache_lookup
<1>5. CASE n = NULL
  <2>1. ~cached(V, q) /\ result' = Miss /\ c' = c
    BY <1>3, <1>4, <1>5
  <2>2. lookup_result(V, q) = Miss /\ without(V, q) = V
    BY <2>1 DEF lookup_result, without
  <2>3. looked_up(V, q) = V
    BY <2>2, ResultsDiffer DEF looked_up
  <2>. QED
    BY <1>1, <2>1, <2>2, <2>3 DEF Result
<1>6. CASE n # NULL
  <2>1. /\ n \in DOMAIN c.data /\ c.data[n].qname = q
        /\ cached(V, q) /\ entry_of(V, q) = c.data[n]
    BY <1>3, <1>6
  <2>2. c \in Struct
    BY ShownIs
  <2>3. c.data[n] \in Entry
    BY <2>1, <2>2, NodeFacts
  <2>4. CASE c.data[n].left = 0
    <3>1. c' = cache_remove_node(c, n) /\ result' = Expired
      BY <1>4, <1>6, <2>4
    <3>2. lookup_result(V, q) = Expired
      BY <2>1, <2>4 DEF lookup_result
    <3>3. looked_up(V, q) = without(V, q)
      BY <3>2, ResultsDiffer DEF looked_up
    <3>4. Shows(cache_remove_node(c, n), without(V, q))
      BY <2>1, TakeShows
    <3>. QED
      BY <1>1, <3>1, <3>2, <3>3, <3>4 DEF Result
  <2>5. CASE c.data[n].left # 0
    <3>1. c.data[n].left > 0
      BY <2>3, <2>5, MaxTtlIsNat DEF Entry
    <3>2. c' = lru_push_front(lru_remove(c, n), n) /\ result' = Hit(c.data[n].ipv4)
      BY <1>4, <1>6, <2>5
    <3>3. lookup_result(V, q) = Hit(c.data[n].ipv4)
      BY <2>1, <2>5 DEF lookup_result
    <3>4. looked_up(V, q) = <<c.data[n]>> \o without(V, q)
      BY <2>1, <3>3, ResultsDiffer DEF looked_up
    <3>5. PICK entry : entry = c.data[n]
      OBVIOUS
    <3>6. c = [c EXCEPT !.data = [c.data EXCEPT ![n] = entry]]
      BY <2>1, <2>2, <3>5, Rewritten
    <3>7. Shows(lru_push_front(lru_remove(c, n), n), <<entry>> \o without(V, entry.qname))
      BY <2>1, <2>3, <3>5, <3>6, MoveShows
    <3>8. Shows(c', looked_up(V, q))
      BY <2>1, <3>2, <3>4, <3>5, <3>7
    <3>9. result' \in Result
      BY <2>3, <3>2 DEF Entry, Result
    <3>. QED
      BY <1>1, <3>2, <3>3, <3>8, <3>9
  <2>. QED
    BY <2>4, <2>5
<1>. QED
  BY <1>5, <1>6

LEMMA InsertShows ==
    ASSUME NEW V, Shows(c, V), NEW s \in Spelling, NEW ipv4 \in Ipv4, NEW ttl \in 0 .. MaxTtl,
           dns_cache_insert(s, ipv4, ttl)
    PROVE  Shows(c', inserted(V, lower[s], ipv4, ttl))
<1>1. PICK q : q = lower[s] /\ q \in Name
  BY LowerType
<1>2. PICK n : n = cache_find_node(c, q)
  OBVIOUS
<1>3. \/ /\ n = NULL /\ ~cached(V, q)
         /\ \A m \in DOMAIN c.data : c.data[m].qname # q
      \/ /\ n # NULL /\ n \in DOMAIN c.data /\ c.data[n].qname = q
         /\ cached(V, q) /\ entry_of(V, q) = c.data[n]
  BY <1>1, <1>2, NodeShown
<1>4. PICK entry : entry = [qname |-> q, ipv4 |-> ipv4, left |-> ttl]
  OBVIOUS
<1>5. entry \in Entry /\ entry.qname = q
  BY <1>1, <1>4 DEF Entry
<1>6. \/ ttl = 0 /\ c' = c
      \/ /\ ttl > 0 /\ n # NULL
         /\ c' = lru_push_front(lru_remove([c EXCEPT !.data[n] = entry], n), n)
      \/ /\ ttl > 0 /\ n = NULL
         /\ \E fresh \in Node \ DOMAIN make_room(c).data :
               c' = add_node(make_room(c), fresh, entry)
  BY <1>1, <1>2, <1>4 DEF dns_cache_insert
<1>7. CASE ttl = 0
  <2>1. c' = c /\ inserted(V, q, ipv4, ttl) = V
    BY <1>6, <1>7 DEF inserted
  <2>. QED
    BY <1>1, <2>1
<1>8. CASE ttl # 0 /\ n # NULL
  <2>1. n \in DOMAIN c.data /\ c.data[n].qname = q /\ cached(V, q)
    BY <1>3, <1>8
  <2>2. PICK u : u = [c EXCEPT !.data = [c.data EXCEPT ![n] = entry]]
    OBVIOUS
  <2>3. c' = lru_push_front(lru_remove(u, n), n)
    BY <1>6, <1>8, <2>2
  <2>4. Shows(lru_push_front(lru_remove(u, n), n), <<entry>> \o without(V, entry.qname))
    BY <1>5, <2>1, <2>2, MoveShows
  <2>5. inserted(V, q, ipv4, ttl) = <<entry>> \o without(V, q)
    BY <1>4, <1>8, <2>1 DEF inserted
  <2>. QED
    BY <1>1, <1>5, <2>3, <2>4, <2>5
<1>9. CASE ttl # 0 /\ n = NULL
  <2>1. ~cached(V, q) /\ \A m \in DOMAIN c.data : c.data[m].qname # q
    BY <1>3, <1>9
  <2>2. PICK e : e = make_room(c)
    OBVIOUS
  <2>3. PICK fresh \in Node : fresh \notin DOMAIN e.data /\ c' = add_node(e, fresh, entry)
    BY <1>6, <1>9, <2>2
  <2>4. /\ Shows(e, evicted(V)) /\ e.size < capacity
        /\ \A m \in DOMAIN e.data : m \in DOMAIN c.data /\ e.data[m] = c.data[m]
    BY <2>2, RoomShows
  <2>5. \A m \in DOMAIN e.data : e.data[m].qname # entry.qname
    BY <1>5, <2>1, <2>4
  <2>6. Shows(add_node(e, fresh, entry), <<entry>> \o evicted(V))
    BY <1>5, <2>3, <2>4, <2>5, AddShows
  <2>7. inserted(V, q, ipv4, ttl) = <<entry>> \o evicted(V)
    BY <1>4, <1>9, <2>1 DEF inserted
  <2>. QED
    BY <1>1, <2>3, <2>6, <2>7
<1>. QED
  BY <1>7, <1>8, <1>9

LEMMA InsertFailsShows ==
    ASSUME NEW V, Shows(c, V), NEW s \in Spelling, dns_cache_insert_fails(s)
    PROVE  ~cached(V, lower[s]) /\ Shows(c', evicted(V))
<1>1. PICK q : q = lower[s] /\ q \in Name
  BY LowerType
<1>2. PICK n : n = cache_find_node(c, q)
  OBVIOUS
<1>3. n = NULL /\ c' = make_room(c)
  BY <1>1, <1>2 DEF dns_cache_insert_fails
<1>4. ~cached(V, q)
  <2>1. \/ /\ n = NULL /\ ~cached(V, q)
           /\ \A m \in DOMAIN c.data : c.data[m].qname # q
        \/ /\ n # NULL /\ n \in DOMAIN c.data /\ c.data[n].qname = q
           /\ cached(V, q) /\ entry_of(V, q) = c.data[n]
    BY <1>1, <1>2, NodeShown
  <2>. QED
    BY <1>3, <2>1
<1>5. Shows(c', evicted(V))
  BY <1>3, RoomShows
<1>. QED
  BY <1>1, <1>4, <1>5

LEMMA TickShows ==
    ASSUME NEW V, Shows(c, V), CacheTick
    PROVE  Shows(c', aged(V))
<1>1. PICK e : e = c'
  OBVIOUS
<1>2. e = [c EXCEPT !.data = [n \in DOMAIN c.data |->
                                 [c.data[n] EXCEPT !.left = less(@)]]]
  BY <1>1 DEF CacheTick
<1>3. Shows(e, aged(V))
  BY <1>2, AgeShows
<1>. QED
  BY <1>1, <1>3

(***************************************************************************)
(* The inductive invariant: the nodes are on one ring and on the chains of *)
(* their buckets, and together they show some list.                        *)
(***************************************************************************)
StructInv == (\E V : Shows(c, V)) /\ result \in Result

LEMMA CacheBegins == CacheInit => Shows(c, <<>>) /\ result = Miss /\ result \in Result
BY CreateShows DEF CacheInit, Result

\* What a step does, on the list.
ListStep(V, W) ==
    \/ \E q \in Name :
          \/ W = looked_up(V, q) /\ result' = lookup_result(V, q)
          \/ ~cached(V, q) /\ W = evicted(V) /\ result' = Miss
          \/ \E ipv4 \in Ipv4, ttl \in 0 .. MaxTtl :
                W = inserted(V, q, ipv4, ttl) /\ result' = Miss
    \/ W = aged(V) /\ result' = result
    \/ W = <<>> /\ result' = Miss
    \/ W = V /\ result' = result

LEMMA StepShows ==
    ASSUME NEW V, Shows(c, V), result \in Result, [CacheNext]_cacheVars
    PROVE  \E W : Shows(c', W) /\ result' \in Result /\ ListStep(V, W)
<1>1. Miss \in Result
  BY DEF Result
<1>2. ASSUME NEW s \in Spelling, dns_cache_lookup(s)
      PROVE  \E W : Shows(c', W) /\ result' \in Result /\ ListStep(V, W)
  <2>1. lower[s] \in Name
    BY LowerType
  <2>2. /\ Shows(c', looked_up(V, lower[s]))
        /\ result' = lookup_result(V, lower[s]) /\ result' \in Result
    BY <1>2, LookupShows
  <2>3. ListStep(V, looked_up(V, lower[s]))
    BY <2>1, <2>2, Zenon DEF ListStep
  <2>. QED
    BY <2>2, <2>3
<1>3. ASSUME NEW s \in Spelling, dns_cache_insert_fails(s)
      PROVE  \E W : Shows(c', W) /\ result' \in Result /\ ListStep(V, W)
  <2>1. lower[s] \in Name
    BY LowerType
  <2>2. ~cached(V, lower[s]) /\ Shows(c', evicted(V))
    BY <1>3, InsertFailsShows
  <2>3. result' = Miss
    BY <1>3 DEF dns_cache_insert_fails
  <2>4. ListStep(V, evicted(V))
    BY <2>1, <2>2, <2>3, Zenon DEF ListStep
  <2>. QED
    BY <1>1, <2>2, <2>3, <2>4
<1>4. ASSUME NEW s \in Spelling, NEW ipv4 \in Ipv4, NEW ttl \in 0 .. MaxTtl,
             dns_cache_insert(s, ipv4, ttl)
      PROVE  \E W : Shows(c', W) /\ result' \in Result /\ ListStep(V, W)
  <2>1. lower[s] \in Name
    BY LowerType
  <2>2. Shows(c', inserted(V, lower[s], ipv4, ttl))
    BY <1>4, InsertShows
  <2>3. result' = Miss
    BY <1>4 DEF dns_cache_insert
  <2>4. ListStep(V, inserted(V, lower[s], ipv4, ttl))
    BY <2>1, <2>3, Zenon DEF ListStep
  <2>. QED
    BY <1>1, <2>2, <2>3, <2>4
<1>5. ASSUME dns_cache_destroy
      PROVE  \E W : Shows(c', W) /\ result' \in Result /\ ListStep(V, W)
  <2>1. c' = emptied(c) /\ result' = Miss
    BY <1>5 DEF dns_cache_destroy
  <2>2. Shows(c', <<>>)
    BY <2>1, EmptyShows
  <2>3. ListStep(V, <<>>)
    BY <2>1 DEF ListStep
  <2>. QED
    BY <1>1, <2>1, <2>2, <2>3
<1>6. ASSUME CacheTick
      PROVE  \E W : Shows(c', W) /\ result' \in Result /\ ListStep(V, W)
  <2>1. result' = result
    BY <1>6 DEF CacheTick
  <2>2. Shows(c', aged(V))
    BY <1>6, TickShows
  <2>3. ListStep(V, aged(V))
    BY <2>1 DEF ListStep
  <2>. QED
    BY <2>1, <2>2, <2>3
<1>7. ASSUME UNCHANGED cacheVars
      PROVE  \E W : Shows(c', W) /\ result' \in Result /\ ListStep(V, W)
  <2>1. c' = c /\ result' = result
    BY <1>7 DEF cacheVars
  <2>2. ListStep(V, V)
    BY <2>1 DEF ListStep
  <2>. QED
    BY <2>1, <2>2
<1>. QED
  BY <1>2, <1>3, <1>4, <1>5, <1>6, <1>7 DEF CacheNext

LEMMA StructInvHolds == CacheSpec => []StructInv
<1>1. CacheInit => StructInv
  BY CacheBegins DEF StructInv
<1>2. StructInv /\ [CacheNext]_cacheVars => StructInv'
  BY StepShows DEF StructInv
<1>. QED
  BY <1>1, <1>2, PTL DEF CacheSpec

\* A sequence that meets every node once, in the words of the properties.
LEMMA OnceIs ==
    ASSUME NEW p \in Seq(Node), Once(p), NEW S, \A n : n \in S <=> Met(n, p)
    PROVE  /\ IsInjective(p) /\ ToSet(p) = S
           /\ IsFiniteSet(S) /\ Cardinality(S) = Len(p)
<1>1. PICK L \in Nat : L = Len(p)
  OBVIOUS
<1>2. DOMAIN p = 1 .. L
  BY <1>1
<1>3. IsInjective(p)
  BY <1>1, <1>2 DEF IsInjective, Once
<1>4. ToSet(p) = S
  BY <1>1, <1>2 DEF ToSet, Met
<1>5. PICK N \in Nat : N = L /\ IsFiniteSet(1 .. N) /\ Cardinality(1 .. N) = N
  BY <1>1, FS_Interval
<1>6. p \in Bijection(1 .. L, S)
  <2>1. p \in [1 .. L -> S]
    BY <1>1, <1>2 DEF Met
  <2>2. \A n \in S : \E i \in 1 .. L : p[i] = n
    BY <1>1 DEF Met
  <2>. QED
    BY <1>1, <1>2, <1>3, <2>1, <2>2 DEF Bijection, Injection, Surjection, IsInjective
<1>7. IsFiniteSet(S) /\ Cardinality(S) = L
  BY <1>5, <1>6, FS_Bijection DEF ExistsBijection
<1>. QED
  BY <1>1, <1>3, <1>4, <1>7

LEMMA ListIsWellFormed == StructInv => ListWellFormed
<1>. SUFFICES ASSUME StructInv PROVE ListWellFormed
  OBVIOUS
<1>1. PICK p, h : Good(c, p, h)
  BY DEF StructInv, Shows
<1>2. CacheTypeOK
  BY <1>1 DEF StructInv, CacheTypeOK, Good
<1>3. UsedForward = p /\ UsedBackward = Reverse(p)
  BY <1>1, GoodWalks DEF UsedForward, UsedBackward
<1>4. /\ p \in Seq(Node) /\ Once(p)
      /\ \A n : n \in DOMAIN c.data <=> Met(n, p)
  BY <1>1 DEF Good, InOrder, OnRing
<1>5. IsInjective(p) /\ ToSet(p) = DOMAIN c.data
  BY <1>4, OnceIs
<1>. QED
  BY <1>2, <1>3, <1>5 DEF ListWellFormed

LEMMA ChainsAreTheSame == StructInv => ChainsHoldTheSame
<1>. SUFFICES ASSUME StructInv PROVE ChainsHoldTheSame
  OBVIOUS
<1>1. PICK p, h : Good(c, p, h)
  BY DEF StructInv, Shows
<1>2. ASSUME NEW b \in Bucket
      PROVE  /\ IsInjective(Chain(c, b))
             /\ \A n : n \in ToSet(Chain(c, b)) <=>
                          n \in DOMAIN c.data /\ hash[c.data[n].qname] = b
  <2>1. PICK l \in Seq(Node) : l = h[b] /\ l = Chain(c, b)
    BY <1>1, GoodWalks
  <2>2. Once(l) /\ \A n : Met(n, l) <=> n \in DOMAIN c.data /\ hash[c.data[n].qname] = b
    <3>1. \A x \in Bucket :
             /\ Once(h[x])
             /\ \A n : Met(n, h[x]) <=> n \in DOMAIN c.data /\ hash[c.data[n].qname] = x
      BY <1>1 DEF Good, Chained, Chains
    <3>2. /\ Once(h[b])
          /\ \A n : Met(n, h[b]) <=> n \in DOMAIN c.data /\ hash[c.data[n].qname] = b
      BY <3>1, Zenon
    <3>. QED
      BY <2>1, <3>2, Zenon
  <2>3. PICK S : S = {n \in DOMAIN c.data : hash[c.data[n].qname] = b}
    OBVIOUS
  <2>4. \A n : n \in S <=> Met(n, l)
    BY <2>2, <2>3
  <2>5. IsInjective(l) /\ ToSet(l) = S
    BY <2>2, <2>4, OnceIs
  <2>. QED
    BY <2>1, <2>3, <2>5
<1>3. c \in Struct /\ NamedOnce(c) /\ c.size = Len(p)
  BY <1>1 DEF Good, InOrder
<1>4. UNION {ToSet(Chain(c, b)) : b \in Bucket} = DOMAIN c.data
  <2>1. ASSUME NEW n \in DOMAIN c.data
        PROVE  n \in UNION {ToSet(Chain(c, b)) : b \in Bucket}
    <3>1. PICK b \in Bucket : b = hash[c.data[n].qname]
      BY <1>3, NodeFacts
    <3>. QED
      BY <1>2, <3>1
  <2>2. ASSUME NEW n \in UNION {ToSet(Chain(c, b)) : b \in Bucket}
        PROVE  n \in DOMAIN c.data
    BY <1>2
  <2>. QED
    BY <2>1, <2>2
<1>5. c.size = Cardinality(DOMAIN c.data)
  <2>1. /\ p \in Seq(Node) /\ Once(p)
        /\ \A n : n \in DOMAIN c.data <=> Met(n, p)
    BY <1>1 DEF Good, InOrder, OnRing
  <2>. QED
    BY <1>3, <2>1, OnceIs
<1>. QED
  BY <1>2, <1>3, <1>4, <1>5 DEF ChainsHoldTheSame, NamedOnce

\* The list of use, read from the sentinel, meets every node that is allocated
\* once and no other, forwards and backwards, through every call of
\* dns_cache.c: moving a node, evicting it, replacing its entry.
THEOREM CacheListWellFormed == CacheSpec => []ListWellFormed
<1>. QED
  BY StructInvHolds, ListIsWellFormed, PTL

\* The chains of the buckets hold exactly the nodes of the list of use, each
\* name once and where cache_find_node looks for it, and size counts them.
THEOREM CacheChainsHoldTheSame == CacheSpec => []ChainsHoldTheSame
<1>. QED
  BY StructInvHolds, ChainsAreTheSame, PTL

(***************************************************************************)
(* The structure implements the list.                                      *)
(***************************************************************************)
LEMMA SameOperators ==
    /\ Lru!Miss = Miss
    /\ \A V, q : Lru!cached(V, q) <=> cached(V, q)
    /\ \A V, q : Lru!looked_up(V, q) = looked_up(V, q)
    /\ \A V, q : Lru!lookup_result(V, q) = lookup_result(V, q)
    /\ \A V : Lru!evicted(V) = evicted(V)
    /\ \A V, q, ipv4, ttl : Lru!inserted(V, q, ipv4, ttl) = inserted(V, q, ipv4, ttl)
    /\ \A V : Lru!aged(V) = aged(V)
<1>1. Lru!Miss = Miss /\ Lru!Expired = Expired
  BY DEF Lru!Miss, Miss, Lru!Expired, Expired
<1>2. ASSUME NEW ipv4 PROVE Lru!Hit(ipv4) = Hit(ipv4)
  BY DEF Lru!Hit, Hit
<1>3. ASSUME NEW V, NEW q
      PROVE  /\ Lru!cached(V, q) <=> cached(V, q)
             /\ Lru!position(V, q) = position(V, q)
  BY Zenon DEF Lru!cached, cached, Lru!position, position
<1>4. ASSUME NEW V, NEW q PROVE Lru!entry_of(V, q) = entry_of(V, q)
  BY <1>3, Zenon DEF Lru!entry_of, entry_of
<1>5. ASSUME NEW V, NEW q PROVE Lru!without(V, q) = without(V, q)
  BY <1>3, Zenon DEF Lru!without, without, Lru!RemoveAt, RemoveAt
<1>6. ASSUME NEW V, NEW q PROVE Lru!lookup_result(V, q) = lookup_result(V, q)
  BY <1>1, <1>2, <1>3, <1>4, Zenon DEF Lru!lookup_result, lookup_result
<1>7. ASSUME NEW V, NEW q PROVE Lru!looked_up(V, q) = looked_up(V, q)
  BY <1>4, <1>5, <1>6, Zenon DEF Lru!looked_up, looked_up
<1>8. ASSUME NEW V PROVE Lru!evicted(V) = evicted(V) /\ Lru!aged(V) = aged(V)
  BY Zenon DEF Lru!evicted, evicted, Lru!aged, aged, Lru!less, less
<1>9. ASSUME NEW V, NEW q, NEW ipv4, NEW ttl
      PROVE  Lru!inserted(V, q, ipv4, ttl) = inserted(V, q, ipv4, ttl)
  BY <1>3, <1>5, <1>8, Zenon DEF Lru!inserted, inserted
<1>. QED
  BY <1>1, <1>3, <1>6, <1>7, <1>8, <1>9

LEMMA LruInitially == CacheInit => Lru!Init
<1>. SUFFICES ASSUME CacheInit PROVE Lru!Init
  OBVIOUS
<1>1. Shown(c) = <<>>
  BY CacheBegins, ShownIs
<1>2. [i \in 1 .. Len(UsedForward) |-> c.data[UsedForward[i]]] = <<>>
  BY <1>1, Zenon DEF Shown, UsedForward
<1>3. result = Lru!Miss
  BY CacheBegins, SameOperators
<1>. QED
  BY <1>2, <1>3, Zenon DEF Lru!Init

\* A step of the code is the step of the list that has the same name, or none.
LEMMA LruStep == StructInv /\ [CacheNext]_cacheVars => [Lru!Next]_(Lru!vars)
<1>. SUFFICES ASSUME StructInv, [CacheNext]_cacheVars PROVE [Lru!Next]_(Lru!vars)
  OBVIOUS
<1>1. PICK V, W : Shows(c, V) /\ Shows(c', W) /\ ListStep(V, W)
  BY StepShows DEF StructInv
<1>2. V = Shown(c) /\ W = Shown(c')
  BY <1>1, ShownIs
<1>3. PICK A, B : /\ A = [i \in 1 .. Len(UsedForward) |-> c.data[UsedForward[i]]]
                  /\ B = [i \in 1 .. Len(UsedForward) |-> c.data[UsedForward[i]]]'
  OBVIOUS
<1>4. A = V
  BY <1>2, <1>3, Zenon DEF Shown, UsedForward
<1>5. B = W
  BY <1>2, <1>3, Zenon DEF Shown, UsedForward
<1>6. ListStep(A, B)
  BY <1>1, <1>4, <1>5
<1>7. ASSUME NEW q \in Name, B = looked_up(A, q), result' = lookup_result(A, q)
      PROVE  Lru!Lookup(q)
  BY <1>3, <1>7, SameOperators, Zenon DEF Lru!Lookup
<1>8. ASSUME NEW q \in Name, ~cached(A, q), B = evicted(A), result' = Miss
      PROVE  Lru!InsertFails(q)
  BY <1>3, <1>8, SameOperators, Zenon DEF Lru!InsertFails
<1>9. ASSUME NEW q \in Name, NEW ipv4 \in Ipv4, NEW ttl \in 0 .. MaxTtl,
             B = inserted(A, q, ipv4, ttl), result' = Miss
      PROVE  Lru!Insert(q, ipv4, ttl)
  BY <1>3, <1>9, SameOperators, Zenon DEF Lru!Insert
<1>10. ASSUME B = aged(A), result' = result PROVE Lru!Tick
  BY <1>3, <1>10, SameOperators, Zenon DEF Lru!Tick
<1>11. ASSUME B = <<>>, result' = Miss PROVE Lru!Destroy
  BY <1>3, <1>11, SameOperators, Zenon DEF Lru!Destroy
<1>12. ASSUME B = A, result' = result PROVE UNCHANGED Lru!vars
  BY <1>3, <1>12, Zenon DEF Lru!vars
<1>. QED
  BY <1>6, <1>7, <1>8, <1>9, <1>10, <1>11, <1>12, Zenon DEF ListStep, Lru!Next

\* Every run of dns_cache.c is a run of the bounded list of entries: what a
\* lookup returns and which name is evicted are what the list, without hash
\* table or pointers, says.
THEOREM CacheRefinement == CacheSpec => ImplementsLruCache
<1>. QED
  BY StructInvHolds, LruInitially, LruStep, PTL DEF CacheSpec, ImplementsLruCache, Lru!Spec
=============================================================================
