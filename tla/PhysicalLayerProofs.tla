------------------------ MODULE PhysicalLayerProofs ------------------------
(***************************************************************************)
(* Proofs about PhysicalLayer, for frames of any length, any number of     *)
(* them, any size of the ring and of the blocks, any rate and delay of the *)
(* channel, and any noise.                                                 *)
(***************************************************************************)
EXTENDS PhysicalLayer, TLAPS, SequenceTheorems, WellFoundedInduction

(***************************************************************************)
(* Numbers.                                                                *)
(***************************************************************************)
\* A set of natural numbers that is not empty has a least element.
LEMMA LeastNumber ==
    ASSUME NEW S, S \subseteq Nat, S # {}
    PROVE  \E x \in S : \A y \in S : x <= y
<1>1. PICK x \in S : \A y \in S : ~ (<<y, x>> \in OpToRel(<, Nat))
  BY NatLessThanWellFounded, WFMin
<1>2. ASSUME NEW y \in S PROVE ~ (y < x)
  <2>1. <<y, x>> \in Nat \X Nat /\ <<y, x>>[1] = y /\ <<y, x>>[2] = x
    OBVIOUS
  <2>. QED
    BY <1>1, <2>1, Zenon DEF OpToRel
<1>3. ASSUME NEW y \in S PROVE x <= y
  BY <1>2
<1>. QED
  BY <1>3

\* A remainder is determined by its size.
LEMMA Remainder ==
    ASSUME NEW n \in Nat \ {0}, NEW x \in 0 .. 2 * n - 1
    PROVE  x % n = IF x < n THEN x ELSE x - n
OBVIOUS

LEMMA Products ==
    ASSUME NEW x \in Nat, NEW y \in Nat, NEW z \in Nat, y <= z
    PROVE  x * y \in Nat /\ x * y <= x * z
OBVIOUS

LEMMA ProductPositive ==
    ASSUME NEW x \in Nat, NEW y \in Nat, x >= 1, y >= 1
    PROVE  x * y >= 1
<1>1. PICK d \in Nat : y = d + 1
  <2>1. y - 1 \in Nat /\ y = (y - 1) + 1
    OBVIOUS
  <2>. QED
    BY <2>1
<1>2. x * (d + 1) = x * d + x /\ x * d \in Nat
  OBVIOUS
<1>. QED
  BY <1>1, <1>2

LEMMA SpanIs == Span \in Nat /\ Span >= 4 /\ Span = 2 * FrameLen + 2
BY Sizes DEF Span

\* The places of one frame follow those of the frame before.
LEMMA Places ==
    ASSUME NEW f \in Nat \ {0}
    PROVE  /\ closing(f) \in Nat /\ closing(f - 1) \in Nat
           /\ opening(f) = closing(f - 1) + 1
           /\ closing(f) = closing(f - 1) + Span
<1>1. Span * f = Span * (f - 1) + Span /\ Span * f \in Nat /\ Span * (f - 1) \in Nat
  BY SpanIs
<1>. QED
  BY <1>1 DEF opening, closing

\* Frames in order have their places in order.
LEMMA PlacesOrdered ==
    ASSUME NEW f \in Nat, NEW g \in Nat, f < g
    PROVE  closing(f) + Span <= closing(g)
<1>1. PICK d \in Nat : g = f + 1 + d
  <2>1. g - f - 1 \in Nat /\ g = f + 1 + (g - f - 1)
    OBVIOUS
  <2>. QED
    BY <2>1
<1>2. PICK S \in Nat : S = Span
  BY SpanIs
<1>3. S * g = S * f + S + S * d /\ S * d \in Nat /\ S * f \in Nat /\ S * g \in Nat
  BY <1>1
<1>. QED
  BY <1>2, <1>3 DEF closing

(***************************************************************************)
(* The ring.                                                               *)
(***************************************************************************)
Index == 0 .. SQ_SIZE - 1
Ring == [Index -> Nat \cup {None}]

Slot(h, n) == IF h + n < SQ_SIZE THEN h + n ELSE h + n - SQ_SIZE

\* How many bytes there are from h to t.
Long(t, h) == IF t >= h THEN t - h ELSE t + SQ_SIZE - h

LEMMA RingLength ==
    ASSUME NEW t \in Index, NEW h \in Index
    PROVE  (t + SQ_SIZE - h) % SQ_SIZE = Long(t, h) /\ Long(t, h) \in Index
<1>1. PICK S \in Nat \ {0} : S = SQ_SIZE
  BY Sizes
<1>2. PICK x \in 0 .. 2 * S - 1 : x = t + S - h
  BY <1>1 DEF Index
<1>3. x % S = IF x < S THEN x ELSE x - S
  BY Remainder
<1>. QED
  BY <1>1, <1>2, <1>3 DEF Long, Index

LEMMA SlotIs ==
    ASSUME NEW h \in Index, NEW n, n \in 0 .. SQ_SIZE
    PROVE  (h + n) % SQ_SIZE = Slot(h, n) /\ Slot(h, n) \in Index
<1>1. PICK S \in Nat \ {0} : S = SQ_SIZE
  BY Sizes
<1>2. PICK x \in 0 .. 2 * S - 1 : x = h + n
  BY <1>1 DEF Index
<1>3. x % S = IF x < S THEN x ELSE x - S
  BY Remainder
<1>. QED
  BY <1>1, <1>2, <1>3 DEF Slot, Index

\* The ring holds the n places after x, from h on.
Holds(r, h, n, x) == \A k \in 0 .. n - 1 : r[Slot(h, k)] = x + k + 1

\* The sequence of the places after x, up to y.
Run(s, x, y) ==
    /\ s \in Seq(Nat) /\ x \in Nat /\ y \in Nat /\ x <= y
    /\ Len(s) = y - x
    /\ \A k \in 1 .. y - x : s[k] = x + k

LEMMA RunEmpty == \A x \in Nat : Run(<<>>, x, x)
BY EmptySeq DEF Run

LEMMA RunLonger ==
    ASSUME NEW s, NEW x, NEW y, NEW z, NEW u, Run(s, x, y), Run(u, y, z)
    PROVE  Run(s \o u, x, z)
<1>1. PICK A, B \in Seq(Nat) : A = s /\ B = u
  BY DEF Run
<1>2. PICK L \in Nat, M \in Nat : L = y - x /\ M = z - y
  BY DEF Run
<1>3. x \in Nat /\ y \in Nat /\ z \in Nat
  BY DEF Run
<1>4. Len(A) = L /\ Len(B) = M
  BY <1>1, <1>2 DEF Run
<1>5. PICK C \in Seq(Nat) : C = A \o B
  <2>1. A \o B \in Seq(Nat)
    OBVIOUS
  <2>. QED
    BY <2>1
<1>6. Len(C) = L + M
  BY <1>4, <1>5
<1>7. ASSUME NEW k \in 1 .. L + M PROVE C[k] = x + k
  <2>1. CASE k <= L
    <3>1. C[k] = A[k]
      BY <1>4, <1>5, <2>1
    <3>. QED
      BY <1>1, <1>2, <2>1, <3>1 DEF Run
  <2>2. CASE k > L
    <3>1. PICK j \in 1 .. M : j = k - L
      BY <2>2
    <3>2. C[k] = B[j]
      BY <1>4, <1>5, <2>2, <3>1
    <3>3. B[j] = y + j
      BY <1>1, <1>2 DEF Run
    <3>. QED
      BY <1>2, <1>3, <3>1, <3>2, <3>3
  <2>. QED
    BY <2>1, <2>2
<1>. QED
  BY <1>1, <1>2, <1>3, <1>5, <1>6, <1>7 DEF Run

LEMMA RunAppend ==
    ASSUME NEW s, NEW x, NEW y, Run(s, x, y)
    PROVE  Run(Append(s, y + 1), x, y + 1)
<1>1. PICK A \in Seq(Nat) : A = s
  BY DEF Run
<1>2. x \in Nat /\ y \in Nat /\ x <= y /\ Len(A) = y - x
  BY <1>1 DEF Run
<1>3. PICK z \in Nat, L \in Nat : z = y + 1 /\ L = Len(A) /\ L + 1 = z - x /\ x <= z
  <2>1. y + 1 \in Nat /\ x <= y + 1 /\ Len(A) + 1 = (y + 1) - x
    BY <1>2
  <2>. QED
    BY <2>1
<1>4. PICK C \in Seq(Nat) : C = Append(A, z)
  <2>1. Append(A, z) \in Seq(Nat)
    OBVIOUS
  <2>. QED
    BY <2>1
<1>5. Len(C) = z - x
  BY <1>3, <1>4
<1>6. ASSUME NEW k \in 1 .. z - x PROVE C[k] = x + k
  <2>1. CASE k = L + 1
    <3>1. C[k] = z
      BY <1>3, <1>4, <2>1
    <3>. QED
      BY <1>2, <1>3, <2>1, <3>1
  <2>2. CASE k # L + 1
    <3>1. k \in 1 .. L /\ k \in 1 .. y - x
      BY <1>2, <1>3, <2>2
    <3>2. C[k] = A[k]
      BY <1>3, <1>4, <3>1
    <3>3. A[k] = x + k
      BY <1>1, <3>1 DEF Run
    <3>. QED
      BY <3>2, <3>3
  <2>. QED
    BY <2>1, <2>2
<1>7. Run(C, x, z)
  BY <1>2, <1>3, <1>4, <1>5, <1>6 DEF Run
<1>. QED
  BY <1>1, <1>3, <1>4, <1>7

\* A run in two parts.
LEMMA RunCut ==
    ASSUME NEW s, NEW x, NEW y, Run(s, x, y), NEW n, n \in 0 .. y - x
    PROVE  /\ Run(SubSeq(s, 1, n), x, x + n)
           /\ Run(SubSeq(s, n + 1, Len(s)), x + n, y)
<1>1. PICK A \in Seq(Nat) : A = s
  BY DEF Run
<1>2. PICK L \in Nat : L = y - x
  BY DEF Run
<1>3. x \in Nat /\ y \in Nat /\ Len(A) = L
  BY <1>1, <1>2 DEF Run
<1>4. \A k \in 1 .. L : A[k] \in Nat /\ A[k] = x + k
  BY <1>1, <1>2, <1>3 DEF Run
<1>5. PICK m \in Nat : m = n /\ m <= L
  BY <1>2, <1>3
<1>6. PICK C : C = SubSeq(A, 1, m)
  OBVIOUS
<1>7. C \in Seq(Nat) /\ Len(C) = m /\ \A k \in 1 .. m : C[k] = A[k]
  <2>1. \A k \in 1 .. m : A[k] \in Nat
    BY <1>4, <1>5
  <2>2. /\ SubSeq(A, 1, m) \in Seq(Nat)
        /\ Len(SubSeq(A, 1, m)) = IF 1 <= m THEN m - 1 + 1 ELSE 0
        /\ \A k \in 1 .. m - 1 + 1 : SubSeq(A, 1, m)[k] = A[1 + k - 1]
    BY <1>5, <2>1, SubSeqProperties
  <2>. QED
    BY <1>5, <1>6, <2>2
<1>8. PICK D : D = SubSeq(A, m + 1, L)
  OBVIOUS
<1>9. D \in Seq(Nat) /\ Len(D) = L - m /\ \A k \in 1 .. L - m : D[k] = A[m + k]
  <2>1. \A k \in m + 1 .. L : A[k] \in Nat
    BY <1>4, <1>5
  <2>2. /\ SubSeq(A, m + 1, L) \in Seq(Nat)
        /\ Len(SubSeq(A, m + 1, L)) = IF m + 1 <= L THEN L - (m + 1) + 1 ELSE 0
        /\ \A k \in 1 .. L - (m + 1) + 1 : SubSeq(A, m + 1, L)[k] = A[m + 1 + k - 1]
    BY <1>5, <2>1, SubSeqProperties
  <2>. QED
    BY <1>5, <1>8, <2>2
<1>10. Run(C, x, x + n)
  BY <1>3, <1>4, <1>5, <1>7 DEF Run
<1>11. Run(D, x + n, y)
  BY <1>2, <1>3, <1>4, <1>5, <1>9 DEF Run
<1>. QED
  BY <1>1, <1>3, <1>5, <1>6, <1>8, <1>10, <1>11

(***************************************************************************)
(* The send queue.                                                         *)
(***************************************************************************)
Queues == [sq : Ring, tail : Index, allowed : Nat, wire : Seq(Nat), full : BOOLEAN]

QueueMade(r, t, w, p, e) == [sq |-> r, tail |-> t, allowed |-> w, wire |-> p, full |-> e]

LEMMA QueueFields ==
    ASSUME NEW q \in Queues
    PROVE  /\ q.sq \in Ring /\ q.tail \in Index /\ q.allowed \in Nat
           /\ q.wire \in Seq(Nat) /\ q.full \in BOOLEAN
           /\ DOMAIN q = {"sq", "tail", "allowed", "wire", "full"}
           /\ q = [k \in DOMAIN q |-> q[k]]
BY DEF Queues

LEMMA QueueMadeType ==
    ASSUME NEW r \in Ring, NEW t \in Index, NEW w \in Nat, NEW p \in Seq(Nat), NEW e \in BOOLEAN
    PROVE  QueueMade(r, t, w, p, e) \in Queues
BY DEF Queues, QueueMade

\* What the end of the ring does when a byte is put there.
LEMMA RingEnd ==
    ASSUME NEW h \in Index, NEW t \in Index, NEW n \in Index, n = Long(t, h), n # SQ_SIZE - 1
    PROVE  /\ Long(Slot(t, 1), h) = n + 1 /\ n + 1 \in Index
           /\ Slot(h, n) = t
           /\ \A k \in 0 .. n - 1 : Slot(h, k) # t
<1>1. PICK S \in Nat : S = SQ_SIZE /\ S >= 2
  BY Sizes
<1>2. h \in 0 .. S - 1 /\ t \in 0 .. S - 1 /\ n \in 0 .. S - 1 /\ n # S - 1
  BY <1>1 DEF Index
<1>3. n = IF t >= h THEN t - h ELSE t + S - h
  BY <1>1 DEF Long
<1>4. Slot(t, 1) = IF t + 1 < S THEN t + 1 ELSE t + 1 - S
  BY <1>1 DEF Slot
<1>5. PICK u \in 0 .. S - 1 : u = Slot(t, 1)
  BY <1>1, <1>2, <1>4
<1>6. Long(u, h) = IF u >= h THEN u - h ELSE u + S - h
  BY <1>1 DEF Long
<1>7. \A k \in 0 .. n : Slot(h, k) = IF h + k < S THEN h + k ELSE h + k - S
  BY <1>1 DEF Slot
<1>8. Long(u, h) = n + 1
  BY <1>1, <1>2, <1>3, <1>4, <1>5, <1>6
<1>9. Slot(h, n) = t
  BY <1>1, <1>2, <1>3, <1>7
<1>10. \A k \in 0 .. n - 1 : Slot(h, k) # t
  BY <1>1, <1>2, <1>3, <1>7
<1>. QED
  BY <1>1, <1>2, <1>5, <1>8, <1>9, <1>10 DEF Index

\* The bytes up to top have been put: those after low are on the wire, and from
\* some place on, which is not before floor, in the ring.
Put(q, low, floor, top) ==
    /\ q \in Queues
    /\ \E mid \in Nat :
          /\ floor <= mid
          /\ Run(q.wire, low, mid)
          /\ mid + Long(q.tail, sq_head) = top
          /\ Holds(q.sq, sq_head, Long(q.tail, sq_head), mid)

LEMMA PutInto ==
    ASSUME sq_head \in Index, NEW q \in Queues, NEW low, NEW floor \in Nat, NEW top, Put(q, low, floor, top), ~q.full,
           NEW e, e = into(q, top + 1)
    PROVE  Put(e, low, floor, IF e.full THEN top ELSE top + 1)
<1>1. PICK mid \in Nat : /\ floor <= mid
                         /\ Run(q.wire, low, mid)
                         /\ mid + Long(q.tail, sq_head) = top
                         /\ Holds(q.sq, sq_head, Long(q.tail, sq_head), mid)
  BY DEF Put
<1>2. PICK r0 \in Ring, t0 \in Index, w0 \in Nat, p0 \in Seq(Nat) :
         /\ r0 = q.sq /\ t0 = q.tail /\ w0 = q.allowed /\ p0 = q.wire
         /\ q.full = FALSE
  BY QueueFields
<1>3. PICK n \in Index : n = Long(q.tail, sq_head) /\ (q.tail + SQ_SIZE - sq_head) % SQ_SIZE = n
  BY <1>2, RingLength
<1>4. top \in Nat /\ n \in Nat /\ mid + n = top
  <2>1. n \in Nat
    BY DEF Index
  <2>2. mid + n = top
    BY <1>1, <1>3
  <2>. QED
    BY <2>1, <2>2
<1>5. CASE n = SQ_SIZE - 1
  <2>1. e = [q EXCEPT !.full = TRUE]
    BY <1>3, <1>5 DEF into
  <2>2. e = QueueMade(r0, t0, w0, p0, TRUE)
    BY <1>2, <2>1 DEF Queues, QueueMade
  <2>3. e \in Queues /\ e.sq = r0 /\ e.tail = t0 /\ e.wire = p0 /\ e.full = TRUE
    <3>1. e.sq = r0 /\ e.tail = t0 /\ e.wire = p0
      BY <2>2 DEF QueueMade
    <3>2. e.full = TRUE
      BY <2>2 DEF QueueMade
    <3>3. e \in Queues
      BY <1>2, <2>2, QueueMadeType
    <3>. QED
      BY <3>1, <3>2, <3>3
  <2>. QED
    BY <1>1, <1>2, <2>3 DEF Put
<1>6. CASE n # SQ_SIZE - 1
  <2>1. PICK t \in Index : t = Slot(t0, 1) /\ (t0 + 1) % SQ_SIZE = t
    <3>1. 1 \in 0 .. SQ_SIZE
      BY Sizes
    <3>. QED
      BY <3>1, SlotIs
  <2>2. PICK r : r = [r0 EXCEPT ![t0] = top + 1]
    OBVIOUS
  <2>3. r \in Ring
    BY <1>4, <2>2 DEF Ring
  <2>4. e = [q EXCEPT !.sq = [q.sq EXCEPT ![q.tail] = top + 1], !.tail = (q.tail + 1) % SQ_SIZE]
    BY <1>3, <1>6 DEF into
  <2>5. e = QueueMade(r, t, w0, p0, FALSE)
    BY <1>2, <2>1, <2>2, <2>4 DEF Queues, QueueMade
  <2>6. e \in Queues /\ e.sq = r /\ e.tail = t /\ e.wire = p0 /\ e.full = FALSE
    <3>1. e.sq = r /\ e.tail = t /\ e.wire = p0
      BY <2>5 DEF QueueMade
    <3>2. e.full = FALSE
      BY <2>5 DEF QueueMade
    <3>3. e \in Queues
      BY <1>2, <2>1, <2>3, <2>5, QueueMadeType
    <3>. QED
      BY <3>1, <3>2, <3>3
  <2>7. /\ Long(t, sq_head) = n + 1 /\ n + 1 \in Index
        /\ Slot(sq_head, n) = t0
        /\ \A k \in 0 .. n - 1 : Slot(sq_head, k) # t0
    BY <1>2, <1>3, <1>6, <2>1, RingEnd
  <2>8. ASSUME NEW k \in 0 .. n PROVE r[Slot(sq_head, k)] = mid + k + 1
    <3>1. CASE k = n
      <4>1. r[t0] = top + 1
        BY <2>2 DEF Ring
      <4>. QED
        BY <1>1, <1>2, <1>3, <2>7, <3>1, <4>1
    <3>2. CASE k # n
      <4>1. k \in 0 .. n - 1 /\ k \in 0 .. SQ_SIZE
        BY <3>2, Sizes DEF Index
      <4>2. PICK u \in Index : u = Slot(sq_head, k)
        BY <4>1, SlotIs
      <4>3. u # t0
        BY <2>7, <4>1, <4>2
      <4>4. r[u] = r0[u]
        BY <2>2, <4>3 DEF Ring
      <4>. QED
        BY <1>1, <1>2, <1>3, <4>1, <4>2, <4>4 DEF Holds
    <3>. QED
      BY <3>1, <3>2
  <2>9. Holds(r, sq_head, n + 1, mid)
    <3>1. n \in Nat
      BY DEF Index
    <3>2. (n + 1) - 1 = n
      BY <3>1
    <3>3. \A k \in 0 .. (n + 1) - 1 : r[Slot(sq_head, k)] = mid + k + 1
      BY <2>8, <3>2
    <3>. QED
      BY <3>3, Zenon DEF Holds
  <2>10. mid + (n + 1) = top + 1
    BY <1>4
  <2>11. floor <= mid /\ Run(e.wire, low, mid)
    BY <1>1, <1>2, <2>6
  <2>12. mid + Long(e.tail, sq_head) = top + 1
    BY <2>6, <2>7, <2>10
  <2>13. Holds(e.sq, sq_head, Long(e.tail, sq_head), mid)
    BY <2>6, <2>7, <2>9, <1>3
  <2>. QED
    BY <1>1, <2>6, <2>11, <2>12, <2>13 DEF Put
<1>. QED
  BY <1>5, <1>6

LEMMA PutOnto ==
    ASSUME sq_head \in Index, NEW q \in Queues, NEW low, NEW floor \in Nat, NEW top, Put(q, low, floor, top), ~q.full,
           q.allowed > 0, q.tail = sq_head,
           NEW e, e = onto(q, top + 1)
    PROVE  Put(e, low, floor, top + 1) /\ ~e.full
<1>1. PICK mid \in Nat : /\ floor <= mid
                         /\ Run(q.wire, low, mid)
                         /\ mid + Long(q.tail, sq_head) = top
  BY DEF Put
<1>2. PICK r0 \in Ring, t0 \in Index, w0 \in Nat, p0 \in Seq(Nat) :
         /\ r0 = q.sq /\ t0 = q.tail /\ w0 = q.allowed /\ p0 = q.wire
         /\ q.full = FALSE
  BY QueueFields
<1>3. Long(t0, sq_head) = 0
  BY <1>2 DEF Long, Index
<1>4. mid = top
  BY <1>1, <1>2, <1>3
<1>5. PICK p \in Seq(Nat), w \in Nat : p = Append(p0, top + 1) /\ w = w0 - 1
  <2>1. Append(p0, top + 1) \in Seq(Nat) /\ w0 - 1 \in Nat
    BY <1>2, <1>4
  <2>. QED
    BY <2>1
<1>6. e = [q EXCEPT !.wire = p, !.allowed = w]
  BY <1>2, <1>5 DEF onto
<1>7. e = QueueMade(r0, t0, w, p, FALSE)
  BY <1>2, <1>6 DEF Queues, QueueMade
<1>8. e \in Queues /\ e.sq = r0 /\ e.tail = t0 /\ e.wire = p /\ e.full = FALSE
  <2>1. e.sq = r0 /\ e.tail = t0 /\ e.wire = p
    BY <1>7 DEF QueueMade
  <2>2. e.full = FALSE
    BY <1>7 DEF QueueMade
  <2>3. e \in Queues
    <3>1. FALSE \in BOOLEAN
      OBVIOUS
    <3>2. QueueMade(r0, t0, w, p, FALSE) \in Queues
      BY <3>1, QueueMadeType
    <3>. QED
      BY <1>7, <3>2
  <2>. QED
    BY <2>1, <2>2, <2>3
<1>9. Run(p, low, top + 1)
  BY <1>1, <1>2, <1>4, <1>5, RunAppend
<1>10. Holds(r0, sq_head, 0, top + 1)
  BY DEF Holds
<1>11. top + 1 \in Nat /\ floor <= top + 1 /\ top + 1 + 0 = top + 1
  BY <1>1, <1>4
<1>. QED
  BY <1>3, <1>8, <1>9, <1>10, <1>11 DEF Put

LEMMA BytePut ==
    ASSUME sq_head \in Index, NEW q, NEW low, NEW floor \in Nat, NEW top, Put(q, low, floor, top), ~q.full,
           NEW e, e = send_byte(q, top + 1)
    PROVE  Put(e, low, floor, IF e.full THEN top ELSE top + 1)
<1>1. q \in Queues
  BY DEF Put
<1>2. CASE q.allowed > 0 /\ q.tail = sq_head
  <2>1. e = onto(q, top + 1)
    BY <1>2 DEF send_byte
  <2>. QED
    BY <1>1, <1>2, <2>1, PutOnto
<1>3. CASE ~(q.allowed > 0 /\ q.tail = sq_head)
  <2>1. e = into(q, top + 1)
    BY <1>3 DEF send_byte
  <2>. QED
    BY <1>1, <2>1, PutInto
<1>. QED
  BY <1>2, <1>3

(***************************************************************************)
(* send_frame.                                                             *)
(***************************************************************************)
Sending(q, p) == IF q.full THEN q ELSE send_byte(q, p)

\* s gives the queue after 0, 1, ..., m bytes that follow the place c.
Bytes(s, c, m) == s = [n \in 0 .. m |-> IF n = 0 THEN queue ELSE Sending(s[n - 1], c + n)]

Sent(f) ==
    CHOOSE s : s = [n \in 0 .. Span |->
                       IF n = 0 THEN queue
                       ELSE IF s[n - 1].full THEN s[n - 1]
                       ELSE send_byte(s[n - 1], closing(f - 1) + n)]

LEMMA SendFrameIs ==
    ASSUME NEW f
    PROVE  send_frame(f) = Sent(f)[Span]
BY DEF send_frame, Sent

\* The function that send_frame defines by recursion exists.
LEMMA BytesExist ==
    ASSUME NEW c, NEW m \in Nat
    PROVE  \E s : Bytes(s, c, m)
<1>. SUFFICES ASSUME ~ \E s : Bytes(s, c, m) PROVE FALSE
  OBVIOUS
<1>1. PICK U : U = {k \in Nat : ~ \E s : Bytes(s, c, k)}
  OBVIOUS
<1>2. U \subseteq Nat /\ m \in U
  BY <1>1
<1>3. PICK l \in U : \A k \in U : l <= k
  BY <1>2, LeastNumber
<1>4. l \in Nat /\ ~ \E s : Bytes(s, c, l)
  BY <1>1, <1>3
<1>5. CASE l = 0
  <2>1. PICK s : s = [k \in 0 .. 0 |-> queue]
    OBVIOUS
  <2>2. s = [k \in 0 .. 0 |-> IF k = 0 THEN queue ELSE Sending(s[k - 1], c + k)]
    BY <2>1
  <2>. QED
    BY <1>4, <1>5, <2>2 DEF Bytes
<1>6. CASE l # 0
  <2>1. PICK j \in Nat : l = j + 1
    <3>1. l - 1 \in Nat /\ l = (l - 1) + 1
      BY <1>4, <1>6
    <3>. QED
      BY <3>1
  <2>2. j \notin U
    BY <1>3, <2>1
  <2>3. PICK s : Bytes(s, c, j)
    BY <1>1, <2>2
  <2>4. \A k \in 0 .. j : s[k] = IF k = 0 THEN queue ELSE Sending(s[k - 1], c + k)
    BY <2>3 DEF Bytes
  <2>5. PICK g : g = [k \in 0 .. l |-> IF k = l THEN Sending(s[j], c + k) ELSE s[k]]
    OBVIOUS
  <2>6. ASSUME NEW k \in 0 .. l PROVE g[k] = IF k = 0 THEN queue ELSE Sending(g[k - 1], c + k)
    <3>1. CASE k = 0
      BY <1>6, <2>4, <2>5, <3>1
    <3>2. CASE k # 0
      <4>1. PICK d \in 0 .. j : d = k - 1 /\ d \in 0 .. l /\ d # l
        BY <2>1, <3>2
      <4>2. g[d] = s[d]
        BY <2>5, <4>1
      <4>3. CASE k = l
        <5>1. d = j
          BY <2>1, <4>1, <4>3
        <5>. QED
          BY <2>5, <3>2, <4>1, <4>2, <4>3, <5>1
      <4>4. CASE k # l
        <5>1. k \in 0 .. j /\ g[k] = s[k]
          BY <2>1, <2>5, <4>4
        <5>. QED
          BY <2>4, <3>2, <4>1, <4>2, <5>1
      <4>. QED
        BY <4>3, <4>4
    <3>. QED
      BY <3>1, <3>2
  <2>7. g = [k \in 0 .. l |-> g[k]]
    BY <2>5
  <2>8. g = [k \in 0 .. l |-> IF k = 0 THEN queue ELSE Sending(g[k - 1], c + k)]
    BY <2>6, <2>7
  <2>. QED
    BY <1>4, <2>8 DEF Bytes
<1>. QED
  BY <1>5, <1>6

LEMMA SentBytes ==
    ASSUME NEW f, NEW c, c = closing(f - 1), NEW N \in Nat, N = Span
    PROVE  /\ Sent(f)[0] = queue
           /\ \A n \in 1 .. N : Sent(f)[n] = Sending(Sent(f)[n - 1], c + n)
<1>1. PICK s : Bytes(s, c, N)
  BY BytesExist
<1>2. s = [n \in 0 .. Span |-> IF n = 0 THEN queue
                               ELSE IF s[n - 1].full THEN s[n - 1]
                               ELSE send_byte(s[n - 1], closing(f - 1) + n)]
  BY <1>1 DEF Bytes, Sending
<1>3. PICK e : e = Sent(f)
  OBVIOUS
<1>4. e = [n \in 0 .. Span |-> IF n = 0 THEN queue
                               ELSE IF e[n - 1].full THEN e[n - 1]
                               ELSE send_byte(e[n - 1], closing(f - 1) + n)]
  BY <1>2, <1>3, Zenon DEF Sent
<1>5. e[0] = queue
  BY <1>4
<1>6. ASSUME NEW n \in 1 .. N PROVE e[n] = Sending(e[n - 1], c + n)
  BY <1>4 DEF Sending
<1>. QED
  BY <1>3, <1>5, <1>6

\* The queue after n bytes that follow the place c.
Progress(q, n, c, low, floor) ==
    \E top \in c .. c + n : Put(q, low, floor, top) /\ (~q.full => top = c + n)

\* A frame is put byte by byte, until the ring is full.
LEMMA FramePut ==
    ASSUME sq_head \in Index, NEW f, NEW c \in Nat, c = closing(f - 1),
           NEW low, NEW floor \in Nat, Put(queue, low, floor, c),
           NEW N \in Nat, N = Span, NEW e, e = send_frame(f)
    PROVE  Progress(e, N, c, low, floor)
<1>1. PICK s : s = Sent(f)
  OBVIOUS
<1>2. s[0] = queue /\ \A n \in 1 .. N : s[n] = Sending(s[n - 1], c + n)
  BY <1>1, SentBytes
<1>3. PICK U : U = {n \in 0 .. N : ~Progress(s[n], n, c, low, floor)}
  OBVIOUS
<1>4. CASE U = {}
  <2>1. N \notin U /\ N \in 0 .. N
    BY <1>4
  <2>2. Progress(s[N], N, c, low, floor)
    BY <1>3, <2>1
  <2>. QED
    BY <1>1, <2>2, SendFrameIs
<1>5. CASE U # {}
  <2>1. U \subseteq Nat
    BY <1>3
  <2>2. PICK l \in U : \A n \in U : l <= n
    BY <1>5, <2>1, LeastNumber
  <2>3. l \in 0 .. N /\ ~Progress(s[l], l, c, low, floor)
    BY <1>3, <2>2
  <2>4. CASE l = 0
    <3>1. c \in c .. c + l /\ c = c + l
      BY <2>4
    <3>2. Put(s[l], low, floor, c)
      BY <1>2, <2>4
    <3>. QED
      BY <2>3, <3>1, <3>2 DEF Progress
  <2>5. CASE l # 0
    <3>1. PICK j \in 0 .. N : j = l - 1 /\ l = j + 1
      BY <2>3, <2>5
    <3>2. j \notin U
      BY <2>2, <3>1
    <3>3. PICK top \in c .. c + j : Put(s[j], low, floor, top) /\ (~s[j].full => top = c + j)
      BY <1>3, <3>1, <3>2 DEF Progress
    <3>4. s[l] = Sending(s[j], c + l)
      BY <1>2, <2>3, <2>5, <3>1
    <3>5. CASE s[j].full
      <4>1. s[l] = s[j]
        BY <3>4, <3>5 DEF Sending
      <4>2. top \in c .. c + l
        BY <3>1, <3>3
      <4>. QED
        BY <2>3, <3>3, <3>5, <4>1, <4>2 DEF Progress
    <3>6. CASE ~s[j].full
      <4>1. top = c + j /\ c + l = top + 1
        BY <3>1, <3>3, <3>6
      <4>2. s[l] = send_byte(s[j], top + 1)
        BY <3>4, <3>6, <4>1 DEF Sending
      <4>3. PICK t \in Nat : t = (IF s[l].full THEN top ELSE top + 1)
        BY <4>1, <3>1
      <4>4. Put(s[l], low, floor, t)
        BY <3>3, <3>6, <4>2, <4>3, BytePut
      <4>5. t \in c .. c + l /\ (~s[l].full => t = c + l)
        BY <3>1, <4>1, <4>3
      <4>. QED
        BY <2>3, <4>4, <4>5 DEF Progress
    <3>. QED
      BY <3>5, <3>6
  <2>. QED
    BY <2>4, <2>5
<1>. QED
  BY <1>4, <1>5

(***************************************************************************)
(* Whose byte a place is.                                                  *)
(***************************************************************************)
\* The place p belongs to frame f.
Within(p, f) == closing(f - 1) < p /\ p <= closing(f)

LEMMA Located ==
    ASSUME NEW p \in Nat \ {0}, p <= closing(MaxFrames)
    PROVE  \E f \in 1 .. MaxFrames : Within(p, f)
<1>1. PICK M \in Nat : M = MaxFrames
  BY Sizes
<1>2. closing(0) = 0
  BY SpanIs DEF closing
<1>3. PICK U : U = {f \in 1 .. M : p <= closing(f)}
  OBVIOUS
<1>4. M \in U
  BY <1>1, <1>2, <1>3
<1>5. PICK f \in U : \A g \in U : f <= g
  <2>1. U \subseteq Nat
    BY <1>3
  <2>. QED
    BY <1>4, <2>1, LeastNumber
<1>6. f \in 1 .. M /\ p <= closing(f)
  BY <1>3, <1>5
<1>7. closing(f - 1) \in Nat
  BY <1>6, Places
<1>8. closing(f - 1) < p
  <2>1. CASE f = 1
    BY <1>2, <2>1
  <2>2. CASE f # 1
    <3>1. f - 1 \in 1 .. M /\ ~(f <= f - 1)
      BY <1>6, <2>2
    <3>2. f - 1 \notin U
      BY <1>5, <3>1
    <3>. QED
      BY <1>3, <1>7, <3>1, <3>2
  <2>. QED
    BY <2>1, <2>2
<1>. QED
  BY <1>1, <1>6, <1>8 DEF Within

LEMMA LocatedOnce ==
    ASSUME NEW p \in Nat, NEW f \in Nat \ {0}, NEW g \in Nat \ {0}, Within(p, f), Within(p, g)
    PROVE  f = g
<1>1. /\ closing(f) \in Nat /\ closing(f - 1) \in Nat
      /\ closing(f) = closing(f - 1) + Span
  BY Places
<1>2. /\ closing(g) \in Nat /\ closing(g - 1) \in Nat
      /\ closing(g) = closing(g - 1) + Span
  BY Places
<1>3. f < g => closing(f) + Span <= closing(g)
  BY PlacesOrdered
<1>4. g < f => closing(g) + Span <= closing(f)
  BY PlacesOrdered
<1>. QED
  BY <1>1, <1>2, <1>3, <1>4, SpanIs DEF Within

\* The delimiters of a frame are its first byte and its last.
LEMMA Delimiters ==
    ASSUME NEW p \in Nat, NEW f \in 1 .. MaxFrames, Within(p, f)
    PROVE  p \in delimiters <=> p = opening(f) \/ p = closing(f)
<1>1. MaxFrames \in Nat
  BY Sizes
<1>2. ASSUME p = opening(f) \/ p = closing(f) PROVE p \in delimiters
  BY <1>2 DEF delimiters
<1>3. ASSUME p \in delimiters PROVE p = opening(f) \/ p = closing(f)
  <2>1. PICK g \in 1 .. MaxFrames : p = opening(g) \/ p = closing(g)
    BY <1>3 DEF delimiters
  <2>2. /\ closing(g) \in Nat /\ closing(g - 1) \in Nat
        /\ opening(g) = closing(g - 1) + 1
        /\ closing(g) = closing(g - 1) + Span
    BY <1>1, Places
  <2>3. Within(p, g)
    BY <2>1, <2>2, SpanIs DEF Within
  <2>4. f = g
    BY <1>1, <2>3, LocatedOnce
  <2>. QED
    BY <2>1, <2>4
<1>. QED
  BY <1>2, <1>3

(***************************************************************************)
(* What station B has heard.                                               *)
(***************************************************************************)
Buffer == Seq(Nat) \cup {None}

\* No place from the end of the frame before f up to p was hit.
Clean(h, f, p) == (closing(f - 1) .. p) \cap h = {}

IntactIn(h, received, f) ==
    /\ SubSeq(received, 1, 2 * length_of(received)) =
          [n \in 1 .. 2 * FrameLen |-> opening(f) + n]
    /\ nibbles(f) \cap h = {}

\* The frames begin in the order in which they were sent.
Ordered(buf, arr, got) ==
    /\ \A n \in 1 .. Len(arr) : Len(arr[n]) > 0 /\ arr[n][1] <= got
    /\ \A m, n \in 1 .. Len(arr) : m < n => arr[m][1] < arr[n][1]
    /\ (buf # None /\ Len(buf) > 0) =>
          (buf[1] <= got /\ \A n \in 1 .. Len(arr) : arr[n][1] < buf[1])

\* Every frame that is over and that noise left alone is there.
Complete(h, arr, got) ==
    \A f \in 1 .. MaxFrames :
        (closing(f) <= got /\ Clean(h, f, closing(f))) =>
            \E n \in 1 .. Len(arr) : IntactIn(h, arr[n], f)

\* Within a frame, the buffer holds all of it so far if noise left it alone;
\* and it is never shorter, unless there is none.
Partway(h, buf, got) ==
    \A f \in 1 .. MaxFrames :
        (closing(f - 1) < got /\ got < closing(f)) =>
            /\ buf # None => Len(buf) >= got - opening(f)
            /\ Clean(h, f, got) => buf = [n \in 1 .. got - opening(f) |-> opening(f) + n]

\* After a delimiter that ends a frame, nothing is held.
Between(h, buf, got) ==
    \A f \in 0 .. MaxFrames :
        (got = closing(f) /\ got \notin h) => (buf = None \/ buf = <<>>)

Heard(h, buf, arr, got) ==
    /\ buf \in Buffer /\ arr \in Seq(Seq(Nat)) /\ got \in Nat
    /\ Ordered(buf, arr, got)
    /\ Complete(h, arr, got)
    /\ Partway(h, buf, got)
    /\ Between(h, buf, got)

\* What take_byte does.
Byte(p, buf, arr, nbuf, narr) ==
    \/ is_delimiter(p) /\ buf = None /\ nbuf = <<>> /\ narr = arr
    \/ is_delimiter(p) /\ buf # None /\ length_of(buf) > 0 /\ nbuf = None /\ narr = Append(arr, buf)
    \/ is_delimiter(p) /\ buf # None /\ ~(length_of(buf) > 0) /\ nbuf = buf /\ narr = arr
    \/ ~is_delimiter(p) /\ buf = None /\ nbuf = None /\ narr = arr
    \/ ~is_delimiter(p) /\ buf # None /\ nbuf = Append(buf, p) /\ narr = arr

LEMMA NoneIsNoBuffer == None \notin Seq(Nat)
BY NoneDiffers

LEMMA Halves ==
    ASSUME NEW buf \in Seq(Nat)
    PROVE  length_of(buf) \in Nat /\ (length_of(buf) > 0 <=> Len(buf) >= 2)
           /\ (length_of(buf) > 0 => Len(buf) > 0)
<1>1. PICK L \in Nat : L = Len(buf)
  OBVIOUS
<1>2. L \div 2 \in Nat /\ (L \div 2 > 0 <=> L >= 2)
  OBVIOUS
<1>. QED
  BY <1>1, <1>2 DEF length_of

\* A byte more, whatever it is, leaves types and order.
LEMMA ByteOrdered ==
    ASSUME NEW buf \in Buffer, NEW arr \in Seq(Seq(Nat)), NEW got \in Nat, Ordered(buf, arr, got),
           NEW p, p = got + 1, NEW nbuf, NEW narr, Byte(p, buf, arr, nbuf, narr)
    PROVE  nbuf \in Buffer /\ narr \in Seq(Seq(Nat)) /\ Ordered(nbuf, narr, p)
<1>0. PICK L \in Nat : L = Len(arr)
  OBVIOUS
<1>1. /\ \A n \in 1 .. Len(arr) : Len(arr[n]) > 0 /\ arr[n][1] <= got
      /\ \A m, n \in 1 .. Len(arr) : m < n => arr[m][1] < arr[n][1]
  BY DEF Ordered
<1>2. ASSUME NEW n \in 1 .. Len(arr)
      PROVE  arr[n][1] \in Nat /\ arr[n][1] <= p /\ arr[n][1] < p
  <2>1. arr[n] \in Seq(Nat)
    BY ElementOfSeq
  <2>2. PICK s \in Seq(Nat) : s = arr[n]
    BY <2>1
  <2>3. PICK l \in Nat : l = Len(s) /\ l > 0 /\ s[1] <= got
    BY <1>1, <2>2
  <2>4. PICK x \in Nat : x = s[1]
    <3>1. 1 \in 1 .. Len(s)
      BY <2>3
    <3>2. s[1] \in Nat
      BY <3>1, ElementOfSeq
    <3>. QED
      BY <3>2
  <2>5. x <= p /\ x < p
    BY <2>3, <2>4
  <2>. QED
    BY <2>2, <2>4, <2>5
<1>3. CASE nbuf = <<>> /\ narr = arr
  <2>1. nbuf \in Buffer /\ Len(nbuf) = 0
    BY <1>3, EmptySeq DEF Buffer
  <2>2. \A n \in 1 .. Len(arr) : Len(arr[n]) > 0 /\ arr[n][1] <= p
    BY <1>1, <1>2
  <2>. QED
    BY <1>1, <1>3, <2>1, <2>2 DEF Ordered
<1>4. CASE nbuf = buf /\ narr = arr
  <2>1. (buf # None /\ Len(buf) > 0) => buf[1] \in Nat
    BY DEF Buffer
  <2>. QED
    BY <1>1, <1>2, <1>4, <2>1 DEF Ordered
<1>5. CASE buf # None /\ Len(buf) > 0 /\ nbuf = None /\ narr = Append(arr, buf)
  <2>1. PICK B \in Seq(Nat) : B = buf
    BY <1>5 DEF Buffer
  <2>2. B[1] \in Nat /\ B[1] <= got /\ \A n \in 1 .. Len(arr) : arr[n][1] < B[1]
    BY <1>5, <2>1 DEF Ordered
  <2>3. PICK N \in Seq(Seq(Nat)) : N = Append(arr, B)
    <3>1. Append(arr, B) \in Seq(Seq(Nat))
      OBVIOUS
    <3>. QED
      BY <3>1
  <2>4. /\ Len(N) = Len(arr) + 1 /\ N[Len(arr) + 1] = B
        /\ \A n \in 1 .. Len(arr) : N[n] = arr[n]
    BY <2>3
  <2>5. ASSUME NEW n \in 1 .. Len(N) PROVE Len(N[n]) > 0 /\ N[n][1] <= p
    <3>1. CASE n = Len(arr) + 1
      BY <1>5, <2>1, <2>2, <2>4, <3>1
    <3>2. CASE n # Len(arr) + 1
      <4>1. n \in 1 .. Len(arr) /\ N[n] = arr[n]
        BY <2>4, <3>2
      <4>2. Len(arr[n]) > 0 /\ arr[n][1] <= p
        BY <1>1, <1>2, <4>1
      <4>. QED
        BY <4>1, <4>2
    <3>. QED
      BY <3>1, <3>2
  <2>6. ASSUME NEW m \in 1 .. Len(N), NEW n \in 1 .. Len(N), m < n PROVE N[m][1] < N[n][1]
    <3>0. m \in 1 .. L + 1 /\ n \in 1 .. L + 1
      BY <1>0, <2>4
    <3>1. m \in 1 .. Len(arr) /\ N[m] = arr[m]
      <4>1. m \in 1 .. L
        BY <2>6, <3>0
      <4>. QED
        BY <1>0, <2>4, <4>1
    <3>2. CASE n = Len(arr) + 1
      BY <2>2, <2>4, <3>1, <3>2
    <3>3. CASE n # Len(arr) + 1
      <4>1. n \in 1 .. Len(arr)
        BY <2>4, <3>3
      <4>. QED
        BY <1>1, <2>4, <2>6, <3>1, <4>1
    <3>. QED
      BY <3>2, <3>3
  <2>7. nbuf \in Buffer
    BY <1>5 DEF Buffer
  <2>. QED
    BY <1>5, <2>1, <2>3, <2>5, <2>6, <2>7 DEF Ordered
<1>6. CASE buf # None /\ nbuf = Append(buf, p) /\ narr = arr
  <2>1. PICK B \in Seq(Nat) : B = buf
    BY <1>6 DEF Buffer
  <2>2. PICK D \in Seq(Nat) : D = Append(B, p)
    <3>1. Append(B, p) \in Seq(Nat)
      OBVIOUS
    <3>. QED
      BY <3>1
  <2>3. D[1] = IF Len(B) > 0 THEN B[1] ELSE p
    BY <2>2
  <2>4. Len(B) > 0 => B[1] \in Nat /\ B[1] <= got /\ \A n \in 1 .. Len(arr) : arr[n][1] < B[1]
    BY <1>6, <2>1 DEF Ordered
  <2>5. D[1] <= p /\ \A n \in 1 .. Len(arr) : arr[n][1] < D[1]
    <3>1. CASE Len(B) > 0
      <4>1. D[1] = B[1] /\ B[1] \in Nat /\ B[1] <= got
            /\ \A n \in 1 .. Len(arr) : arr[n][1] < B[1]
        BY <2>3, <2>4, <3>1
      <4>. QED
        BY <4>1
    <3>2. CASE ~(Len(B) > 0)
      <4>1. D[1] = p
        BY <2>3, <3>2
      <4>2. \A n \in 1 .. Len(arr) : arr[n][1] < p
        BY <1>2
      <4>3. p <= p
        OBVIOUS
      <4>. QED
        BY <4>1, <4>2, <4>3
    <3>. QED
      BY <3>1, <3>2
  <2>6. \A n \in 1 .. Len(arr) : Len(arr[n]) > 0 /\ arr[n][1] <= p
    BY <1>1, <1>2
  <2>. QED
    BY <1>1, <1>6, <2>1, <2>2, <2>5, <2>6 DEF Ordered, Buffer
<1>7. ASSUME buf # None, length_of(buf) > 0 PROVE Len(buf) > 0
  BY <1>7, Halves DEF Buffer
<1>. QED
  BY <1>3, <1>4, <1>5, <1>6, <1>7 DEF Byte

\* The nibbles of a frame, as they are heard when noise leaves them alone.
LEMMA Nibbles ==
    ASSUME NEW o \in Nat, NEW n \in Nat, NEW s, s = [k \in 1 .. n |-> o + k]
    PROVE  s \in Seq(Nat) /\ Len(s) = n /\ s # None
<1>1. s \in Seq(Nat) /\ Len(s) = n
  <2>1. \A k \in 1 .. n : o + k \in Nat
    OBVIOUS
  <2>. QED
    BY <2>1
<1>. QED
  BY <1>1, NoneIsNoBuffer

LEMMA OneNibbleMore ==
    ASSUME NEW o \in Nat, NEW n \in Nat, NEW s, s = [k \in 1 .. n |-> o + k],
           NEW p, p = o + n + 1
    PROVE  Append(s, p) = [k \in 1 .. n + 1 |-> o + k]
<1>1. s \in Seq(Nat) /\ Len(s) = n
  BY Nibbles
<1>2. PICK d \in Seq(Nat) : d = Append(s, p)
  <2>1. Append(s, p) \in Seq(Nat)
    BY <1>1
  <2>. QED
    BY <2>1
<1>3. Len(d) = n + 1 /\ \A k \in 1 .. n + 1 : d[k] = IF k <= n THEN s[k] ELSE p
  BY <1>1, <1>2
<1>4. \A k \in 1 .. n + 1 : d[k] = o + k
  BY <1>3
<1>5. d = [k \in 1 .. n + 1 |-> d[k]]
  BY <1>3
<1>. QED
  BY <1>2, <1>4, <1>5

\* The frame that f's closing delimiter ends is complete.
LEMMA WholeFrame ==
    ASSUME NEW f \in Nat \ {0}, NEW h, Clean(h, f, closing(f)),
           NEW buf, buf = [k \in 1 .. 2 * FrameLen |-> opening(f) + k]
    PROVE  IntactIn(h, buf, f) /\ buf \in Seq(Nat) /\ length_of(buf) > 0
<1>1. PICK L \in Nat \ {0} : L = FrameLen
  BY Sizes
<1>2. PICK o \in Nat : o = opening(f)
  BY Places
<1>3. buf \in Seq(Nat) /\ Len(buf) = 2 * L
  BY <1>1, <1>2, Nibbles
<1>4. length_of(buf) = L
  <2>1. (2 * L) \div 2 = L
    OBVIOUS
  <2>. QED
    BY <1>3, <2>1 DEF length_of
<1>5. SubSeq(buf, 1, 2 * L) = buf
  <2>1. PICK M \in Nat : M = 2 * L
    OBVIOUS
  <2>2. PICK A \in Seq(Nat) : A = buf /\ Len(A) = M
    BY <1>3, <2>1
  <2>3. ASSUME NEW k \in 1 .. M PROVE A[k] \in Nat
    <3>1. k \in 1 .. Len(A)
      BY <2>2
    <3>. QED
      BY <3>1, ElementOfSeq
  <2>4. /\ SubSeq(A, 1, M) \in Seq(Nat)
        /\ Len(SubSeq(A, 1, M)) = IF 1 <= M THEN M - 1 + 1 ELSE 0
        /\ \A k \in 1 .. M - 1 + 1 : SubSeq(A, 1, M)[k] = A[1 + k - 1]
    BY <2>1, <2>3, SubSeqProperties
  <2>5. PICK d \in Seq(Nat) : d = SubSeq(A, 1, M)
    BY <2>4
  <2>6. Len(d) = M /\ \A k \in 1 .. M : d[k] = A[k]
    BY <2>4, <2>5
  <2>7. d = A
    BY <2>2, <2>6, SeqEqual
  <2>. QED
    BY <2>1, <2>2, <2>5, <2>7
<1>6. nibbles(f) \cap h = {}
  <2>1. nibbles(f) \subseteq closing(f - 1) .. closing(f)
    <3>1. PICK x \in Nat, y \in Nat : x = closing(f - 1) /\ y = closing(f) /\ opening(f) = x + 1
      BY Places
    <3>2. (x + 1) + 1 .. y - 1 \subseteq x .. y
      OBVIOUS
    <3>. QED
      BY <3>1, <3>2 DEF nibbles
  <2>. QED
    BY <2>1 DEF Clean
<1>. QED
  BY <1>1, <1>2, <1>3, <1>4, <1>5, <1>6 DEF IntactIn

\* The byte that follows within a frame.
LEMMA NextWithin ==
    ASSUME NEW f \in Nat \ {0}, NEW got \in Nat, NEW p, p = got + 1, Within(p, f)
    PROVE  /\ p = opening(f) <=> got = closing(f - 1)
           /\ p # opening(f) => /\ closing(f - 1) < got /\ got < closing(f)
                                /\ opening(f) \in Nat /\ got - opening(f) \in Nat
           /\ p = closing(f) => got - opening(f) = 2 * FrameLen /\ p # opening(f)
<1>1. /\ closing(f) \in Nat /\ closing(f - 1) \in Nat
      /\ opening(f) = closing(f - 1) + 1
      /\ closing(f) = closing(f - 1) + Span
  BY Places
<1>2. PICK L \in Nat \ {0} : L = FrameLen
  BY Sizes
<1>. QED
  BY <1>1, <1>2, SpanIs DEF Within

LEMMA ByteComplete ==
    ASSUME NEW buf \in Buffer, NEW arr \in Seq(Seq(Nat)), NEW got \in Nat,
           NEW p, p = got + 1, NEW nbuf, NEW narr, Byte(p, buf, arr, nbuf, narr),
           Complete(hit, arr, got), Partway(hit, buf, got)
    PROVE  Complete(hit, narr, p)
<1>. SUFFICES ASSUME NEW f \in 1 .. MaxFrames, closing(f) <= p, Clean(hit, f, closing(f))
              PROVE  \E n \in 1 .. Len(narr) : IntactIn(hit, narr[n], f)
  BY DEF Complete
<1>1. f \in Nat \ {0}
  BY Sizes
<1>2. closing(f) \in Nat /\ closing(f - 1) \in Nat /\ closing(f) = closing(f - 1) + Span
  BY <1>1, Places
<1>3. CASE closing(f) <= got
  <2>1. PICK n \in 1 .. Len(arr) : IntactIn(hit, arr[n], f)
    BY <1>3 DEF Complete
  <2>2. ASSUME NEW B \in Seq(Nat), narr = Append(arr, B) PROVE n \in 1 .. Len(narr) /\ narr[n] = arr[n]
    BY <2>2
  <2>3. n \in 1 .. Len(narr) /\ narr[n] = arr[n]
    BY <2>2 DEF Byte, Buffer
  <2>. QED
    BY <2>1, <2>3
<1>4. CASE ~(closing(f) <= got)
  <2>1. p = closing(f)
    BY <1>2, <1>4
  <2>2. Within(p, f)
    BY <1>2, <2>1, SpanIs DEF Within
  <2>3. /\ closing(f - 1) < got /\ got < closing(f)
        /\ got - opening(f) = 2 * FrameLen
    BY <1>1, <2>1, <2>2, NextWithin
  <2>4. Clean(hit, f, got) /\ p \notin hit
    BY <1>2, <2>1, <2>3 DEF Clean
  <2>5. buf = [k \in 1 .. 2 * FrameLen |-> opening(f) + k]
    BY <2>3, <2>4 DEF Partway
  <2>6. IntactIn(hit, buf, f) /\ buf \in Seq(Nat) /\ length_of(buf) > 0
    BY <1>1, <2>5, WholeFrame
  <2>7. is_delimiter(p)
    BY <2>1, <2>2, <2>4, Delimiters DEF is_delimiter
  <2>8. narr = Append(arr, buf)
    BY <2>6, <2>7, NoneIsNoBuffer DEF Byte
  <2>9. Len(arr) + 1 \in 1 .. Len(narr) /\ narr[Len(arr) + 1] = buf
    BY <2>6, <2>8
  <2>. QED
    BY <2>6, <2>9
<1>. QED
  BY <1>3, <1>4

LEMMA BytePartway ==
    ASSUME NEW buf \in Buffer, NEW arr, NEW got \in Nat,
           NEW p, p = got + 1, NEW nbuf, NEW narr, Byte(p, buf, arr, nbuf, narr),
           Partway(hit, buf, got), Between(hit, buf, got)
    PROVE  Partway(hit, nbuf, p)
<1>. SUFFICES ASSUME NEW f \in 1 .. MaxFrames, closing(f - 1) < p, p < closing(f)
              PROVE  /\ nbuf # None => Len(nbuf) >= p - opening(f)
                     /\ Clean(hit, f, p) => nbuf = [n \in 1 .. p - opening(f) |-> opening(f) + n]
  BY DEF Partway
<1>1. f \in Nat \ {0} /\ f - 1 \in 0 .. MaxFrames
  BY Sizes
<1>2. /\ closing(f) \in Nat /\ closing(f - 1) \in Nat /\ closing(f) = closing(f - 1) + Span
      /\ opening(f) = closing(f - 1) + 1
  BY <1>1, Places
<1>3. Within(p, f)
  BY <1>2 DEF Within
<1>4. PICK o \in Nat : o = opening(f)
  BY <1>2
<1>5. CASE p = o
  <2>1. got = closing(f - 1)
    BY <1>2, <1>4, <1>5
  <2>2. p - o = 0
    BY <1>4, <1>5
  <2>3. nbuf # None => Len(nbuf) >= 0
    <3>1. nbuf \in Buffer
      <4>1. buf # None => Append(buf, p) \in Seq(Nat)
        BY DEF Buffer
      <4>. QED
        BY <4>1, EmptySeq DEF Byte, Buffer
    <3>. QED
      BY <3>1 DEF Buffer
  <2>4. ASSUME Clean(hit, f, p) PROVE nbuf = <<>>
    <3>1. got \notin hit /\ p \notin hit
      BY <1>2, <2>1, <2>4 DEF Clean
    <3>2. buf = None \/ buf = <<>>
      BY <1>1, <2>1, <3>1 DEF Between
    <3>3. is_delimiter(p)
      BY <1>3, <1>4, <1>5, <3>1, Delimiters DEF is_delimiter
    <3>4. ASSUME buf = <<>> PROVE ~(length_of(buf) > 0)
      <4>1. PICK B \in Seq(Nat) : B = buf /\ Len(B) = 0
        BY <3>4, EmptySeq
      <4>2. ~(length_of(B) > 0)
        BY <4>1 DEF length_of
      <4>. QED
        BY <4>1, <4>2
    <3>. QED
      BY <3>2, <3>3, <3>4 DEF Byte
  <2>5. [n \in 1 .. 0 |-> o + n] = <<>>
    OBVIOUS
  <2>. QED
    BY <1>4, <2>2, <2>3, <2>4, <2>5
<1>6. CASE p # o
  <2>1. /\ closing(f - 1) < got /\ got < closing(f)
        /\ got - opening(f) \in Nat
    BY <1>1, <1>3, <1>4, <1>6, NextWithin
  <2>2. PICK m \in Nat : m = got - o
    BY <1>4, <2>1
  <2>3. p = o + m + 1 /\ p - o = m + 1
    BY <2>2
  <2>4. ~is_delimiter(p)
    BY <1>2, <1>3, <1>4, <1>6, Delimiters DEF is_delimiter
  <2>5. ASSUME nbuf # None PROVE Len(nbuf) >= m + 1
    <3>1. nbuf = Append(buf, p) /\ buf # None
      BY <2>4, <2>5 DEF Byte
    <3>2. PICK B \in Seq(Nat) : B = buf
      BY <3>1 DEF Buffer
    <3>3. Len(B) >= m
      BY <1>4, <2>1, <2>2, <3>1, <3>2 DEF Partway
    <3>4. Len(Append(B, p)) = Len(B) + 1
      OBVIOUS
    <3>. QED
      BY <3>1, <3>2, <3>3, <3>4
  <2>6. ASSUME Clean(hit, f, p) PROVE nbuf = [n \in 1 .. m + 1 |-> o + n]
    <3>1. Clean(hit, f, got)
      BY <1>2, <2>6 DEF Clean
    <3>2. buf = [n \in 1 .. m |-> o + n]
      BY <1>4, <2>1, <2>2, <3>1 DEF Partway
    <3>3. buf # None
      BY <3>2, Nibbles
    <3>4. nbuf = Append(buf, p)
      BY <2>4, <3>3 DEF Byte
    <3>. QED
      BY <2>3, <3>2, <3>4, OneNibbleMore
  <2>. QED
    BY <1>4, <2>3, <2>5, <2>6
<1>. QED
  BY <1>5, <1>6

LEMMA ByteBetween ==
    ASSUME NEW buf \in Buffer, NEW arr, NEW got \in Nat,
           NEW p, p = got + 1, NEW nbuf, NEW narr, Byte(p, buf, arr, nbuf, narr),
           Partway(hit, buf, got)
    PROVE  Between(hit, nbuf, p)
<1>. SUFFICES ASSUME NEW f \in 0 .. MaxFrames, p = closing(f), p \notin hit
              PROVE  nbuf = None \/ nbuf = <<>>
  BY DEF Between
<1>1. f \in 1 .. MaxFrames
  <2>1. closing(0) = 0
    BY SpanIs DEF closing
  <2>. QED
    BY <2>1
<1>2. f \in Nat \ {0}
  BY <1>1, Sizes
<1>3. closing(f) \in Nat /\ closing(f - 1) \in Nat /\ closing(f) = closing(f - 1) + Span
  BY <1>2, Places
<1>4. Within(p, f)
  BY <1>3, SpanIs DEF Within
<1>5. is_delimiter(p)
  BY <1>1, <1>4, Delimiters DEF is_delimiter
<1>6. CASE buf = None
  BY <1>5, <1>6 DEF Byte
<1>7. CASE buf # None
  <2>1. /\ closing(f - 1) < got /\ got < closing(f)
        /\ got - opening(f) = 2 * FrameLen
    BY <1>2, <1>4, NextWithin
  <2>2. PICK B \in Seq(Nat) : B = buf
    BY <1>7 DEF Buffer
  <2>3. Len(B) >= 2 * FrameLen
    BY <1>1, <1>7, <2>1, <2>2 DEF Partway
  <2>4. length_of(B) > 0
    BY <2>3, Sizes, Halves
  <2>. QED
    BY <1>5, <1>7, <2>2, <2>4 DEF Byte
<1>. QED
  BY <1>6, <1>7

\* A byte more is heard.
LEMMA ByteHeard ==
    ASSUME NEW buf, NEW arr, NEW got, Heard(hit, buf, arr, got),
           NEW p, p = got + 1, NEW nbuf, NEW narr, Byte(p, buf, arr, nbuf, narr)
    PROVE  Heard(hit, nbuf, narr, p)
<1>1. /\ buf \in Buffer /\ arr \in Seq(Seq(Nat)) /\ got \in Nat
      /\ Ordered(buf, arr, got) /\ Complete(hit, arr, got)
      /\ Partway(hit, buf, got) /\ Between(hit, buf, got)
  BY DEF Heard
<1>2. nbuf \in Buffer /\ narr \in Seq(Seq(Nat)) /\ Ordered(nbuf, narr, p)
  BY <1>1, ByteOrdered
<1>3. Complete(hit, narr, p)
  BY <1>1, ByteComplete
<1>4. Partway(hit, nbuf, p)
  BY <1>1, BytePartway
<1>5. Between(hit, nbuf, p)
  BY <1>1, ByteBetween
<1>. QED
  BY <1>1, <1>2, <1>3, <1>4, <1>5 DEF Heard

(***************************************************************************)
(* The bytes of a block.                                                   *)
(***************************************************************************)
Received(buf, r) == [buf |-> buf, rf |-> r]

LEMMA ReceivedFields ==
    ASSUME NEW buf, NEW r
    PROVE  Received(buf, r).buf = buf /\ Received(buf, r).rf = r
BY DEF Received

LEMMA ConcatAppend ==
    ASSUME NEW S, NEW g \in Seq(S), NEW r \in Seq(S), NEW x \in S
    PROVE  g \o Append(r, x) = Append(g \o r, x)
<1>1. <<x>> \in Seq(S) /\ g \o r \in Seq(S)
  OBVIOUS
<1>2. Append(r, x) = r \o <<x>> /\ Append(g \o r, x) = (g \o r) \o <<x>>
  BY <1>1, AppendIsConcat
<1>3. (g \o r) \o <<x>> = g \o (r \o <<x>>)
  BY <1>1, ConcatAssociative
<1>. QED
  BY <1>2, <1>3

LEMMA ByteTaken ==
    ASSUME NEW buf \in Buffer, NEW r \in Seq(Seq(Nat)), NEW g \in Seq(Seq(Nat)), NEW p \in Nat
    PROVE  \E nbuf \in Buffer, nr \in Seq(Seq(Nat)) :
              /\ take_byte(Received(buf, r), p) = Received(nbuf, nr)
              /\ Byte(p, buf, g \o r, nbuf, g \o nr)
<1>1. PICK s : s = Received(buf, r)
  OBVIOUS
<1>2. s.buf = buf /\ s.rf = r
  BY <1>1, ReceivedFields
<1>3. PICK e : e = take_byte(s, p)
  OBVIOUS
<1>4. CASE is_delimiter(p) /\ buf = None
  <2>1. e = [s EXCEPT !.buf = <<>>]
    BY <1>2, <1>3, <1>4 DEF take_byte
  <2>2. e = Received(<<>>, r)
    BY <1>1, <2>1 DEF Received
  <2>3. Byte(p, buf, g \o r, <<>>, g \o r)
    BY <1>4 DEF Byte
  <2>4. <<>> \in Buffer
    BY EmptySeq DEF Buffer
  <2>. QED
    BY <1>1, <1>3, <2>2, <2>3, <2>4
<1>5. CASE is_delimiter(p) /\ buf # None /\ length_of(buf) > 0
  <2>1. PICK B \in Seq(Nat) : B = buf
    BY <1>5 DEF Buffer
  <2>2. PICK nr \in Seq(Seq(Nat)) : nr = Append(r, B)
    <3>1. Append(r, B) \in Seq(Seq(Nat))
      OBVIOUS
    <3>. QED
      BY <3>1
  <2>3. e = Received(None, nr)
    BY <1>2, <1>3, <1>5, <2>1, <2>2 DEF take_byte, frame_ends, Received
  <2>4. g \o nr = Append(g \o r, B)
    BY <2>1, <2>2, ConcatAppend
  <2>5. Byte(p, buf, g \o r, None, g \o nr)
    BY <1>5, <2>1, <2>4 DEF Byte
  <2>6. None \in Buffer
    BY DEF Buffer
  <2>. QED
    BY <1>1, <1>3, <2>3, <2>5, <2>6
<1>6. CASE is_delimiter(p) /\ buf # None /\ ~(length_of(buf) > 0)
  <2>1. e = Received(buf, r)
    BY <1>1, <1>2, <1>3, <1>6 DEF take_byte, frame_ends
  <2>2. Byte(p, buf, g \o r, buf, g \o r)
    BY <1>6 DEF Byte
  <2>. QED
    BY <1>1, <1>3, <2>1, <2>2
<1>7. CASE ~is_delimiter(p) /\ buf = None
  <2>1. e = Received(buf, r)
    BY <1>1, <1>2, <1>3, <1>7 DEF take_byte
  <2>2. Byte(p, buf, g \o r, buf, g \o r)
    BY <1>7 DEF Byte
  <2>. QED
    BY <1>1, <1>3, <2>1, <2>2
<1>8. CASE ~is_delimiter(p) /\ buf # None
  <2>1. PICK B \in Seq(Nat) : B = buf
    BY <1>8 DEF Buffer
  <2>2. PICK D \in Seq(Nat) : D = Append(B, p)
    <3>1. Append(B, p) \in Seq(Nat)
      OBVIOUS
    <3>. QED
      BY <3>1
  <2>3. e = [s EXCEPT !.buf = D]
    BY <1>2, <1>3, <1>8, <2>1, <2>2 DEF take_byte
  <2>4. e = Received(D, r)
    BY <1>1, <2>3 DEF Received
  <2>5. Byte(p, buf, g \o r, D, g \o r)
    BY <1>8, <2>1, <2>2 DEF Byte
  <2>6. D \in Buffer
    BY <2>2 DEF Buffer
  <2>. QED
    BY <1>1, <1>3, <2>4, <2>5, <2>6
<1>. QED
  BY <1>4, <1>5, <1>6, <1>7, <1>8

\* s gives what is received after 0, 1, ..., m bytes of data.
Takes(s, data, m) ==
    s = [n \in 0 .. m |-> IF n = 0 THEN [buf |-> rf_buf, rf |-> rf] ELSE take_byte(s[n - 1], data[n])]

Taking(data) ==
    CHOOSE s : s = [n \in 0 .. Len(data) |->
                       IF n = 0 THEN [buf |-> rf_buf, rf |-> rf] ELSE take_byte(s[n - 1], data[n])]

LEMMA TakenIs ==
    ASSUME NEW data
    PROVE  taken(data) = Taking(data)[Len(data)]
BY DEF taken, Taking

\* The function that taken defines by recursion exists.
LEMMA TakesExist ==
    ASSUME NEW data, NEW m \in Nat
    PROVE  \E s : Takes(s, data, m)
<1>. SUFFICES ASSUME ~ \E s : Takes(s, data, m) PROVE FALSE
  OBVIOUS
<1>. DEFINE begun == [buf |-> rf_buf, rf |-> rf]
<1>1. PICK U : U = {k \in Nat : ~ \E s : Takes(s, data, k)}
  OBVIOUS
<1>2. U \subseteq Nat /\ m \in U
  BY <1>1
<1>3. PICK l \in U : \A k \in U : l <= k
  BY <1>2, LeastNumber
<1>4. l \in Nat /\ ~ \E s : Takes(s, data, l)
  BY <1>1, <1>3
<1>5. CASE l = 0
  <2>1. PICK s : s = [k \in 0 .. 0 |-> begun]
    OBVIOUS
  <2>2. s = [k \in 0 .. 0 |-> IF k = 0 THEN begun ELSE take_byte(s[k - 1], data[k])]
    BY <2>1
  <2>. QED
    BY <1>4, <1>5, <2>2 DEF Takes
<1>6. CASE l # 0
  <2>1. PICK j \in Nat : l = j + 1
    <3>1. l - 1 \in Nat /\ l = (l - 1) + 1
      BY <1>4, <1>6
    <3>. QED
      BY <3>1
  <2>2. j \notin U
    BY <1>3, <2>1
  <2>3. PICK s : Takes(s, data, j)
    BY <1>1, <2>2
  <2>4. \A k \in 0 .. j : s[k] = IF k = 0 THEN begun ELSE take_byte(s[k - 1], data[k])
    BY <2>3 DEF Takes
  <2>5. PICK g : g = [k \in 0 .. l |-> IF k = l THEN take_byte(s[j], data[k]) ELSE s[k]]
    OBVIOUS
  <2>6. ASSUME NEW k \in 0 .. l PROVE g[k] = IF k = 0 THEN begun ELSE take_byte(g[k - 1], data[k])
    <3>1. CASE k = 0
      BY <1>6, <2>4, <2>5, <3>1
    <3>2. CASE k # 0
      <4>1. PICK d \in 0 .. j : d = k - 1 /\ d \in 0 .. l /\ d # l
        BY <2>1, <3>2
      <4>2. g[d] = s[d]
        BY <2>5, <4>1
      <4>3. CASE k = l
        <5>1. d = j
          BY <2>1, <4>1, <4>3
        <5>. QED
          BY <2>5, <3>2, <4>1, <4>2, <4>3, <5>1
      <4>4. CASE k # l
        <5>1. k \in 0 .. j /\ g[k] = s[k]
          BY <2>1, <2>5, <4>4
        <5>. QED
          BY <2>4, <3>2, <4>1, <4>2, <5>1
      <4>. QED
        BY <4>3, <4>4
    <3>. QED
      BY <3>1, <3>2
  <2>7. g = [k \in 0 .. l |-> g[k]]
    BY <2>5
  <2>8. g = [k \in 0 .. l |-> IF k = 0 THEN begun ELSE take_byte(g[k - 1], data[k])]
    BY <2>6, <2>7
  <2>. QED
    BY <1>4, <2>8 DEF Takes
<1>. QED
  BY <1>5, <1>6

LEMMA TakingBytes ==
    ASSUME NEW data, NEW N \in Nat, N = Len(data)
    PROVE  /\ Taking(data)[0] = Received(rf_buf, rf)
           /\ \A n \in 1 .. N : Taking(data)[n] = take_byte(Taking(data)[n - 1], data[n])
<1>1. PICK s : Takes(s, data, N)
  BY TakesExist
<1>2. s = [n \in 0 .. Len(data) |-> IF n = 0 THEN [buf |-> rf_buf, rf |-> rf]
                                    ELSE take_byte(s[n - 1], data[n])]
  BY <1>1 DEF Takes
<1>3. PICK e : e = Taking(data)
  OBVIOUS
<1>4. e = [n \in 0 .. Len(data) |-> IF n = 0 THEN [buf |-> rf_buf, rf |-> rf]
                                    ELSE take_byte(e[n - 1], data[n])]
  BY <1>2, <1>3, Zenon DEF Taking
<1>5. e[0] = Received(rf_buf, rf)
  BY <1>4 DEF Received
<1>6. ASSUME NEW n \in 1 .. N PROVE e[n] = take_byte(e[n - 1], data[n])
  BY <1>4
<1>. QED
  BY <1>3, <1>5, <1>6

\* What is received, and all that was received before, after some place.
HeardTo(s, p) ==
    \E buf \in Buffer, r \in Seq(Seq(Nat)) : s = Received(buf, r) /\ Heard(hit, buf, given \o r, p)

\* A block is heard byte by byte.
LEMMA BlockHeard ==
    ASSUME given \in Seq(Seq(Nat)), rf_buf \in Buffer, rf \in Seq(Seq(Nat)),
           NEW got, Heard(hit, rf_buf, given \o rf, got),
           NEW data, NEW y, Run(data, got, y)
    PROVE  HeardTo(taken(data), y)
<1>1. PICK N \in Nat : N = y - got /\ N = Len(data) /\ got \in Nat /\ got + N = y
  BY DEF Run
<1>2. PICK s : s = Taking(data)
  OBVIOUS
<1>3. s[0] = Received(rf_buf, rf) /\ \A n \in 1 .. N : s[n] = take_byte(s[n - 1], data[n])
  BY <1>1, <1>2, TakingBytes
<1>4. PICK U : U = {n \in 0 .. N : ~HeardTo(s[n], got + n)}
  OBVIOUS
<1>5. CASE U = {}
  <2>1. N \notin U /\ N \in 0 .. N
    BY <1>5
  <2>2. HeardTo(s[N], got + N)
    BY <1>4, <2>1
  <2>. QED
    BY <1>1, <1>2, <2>2, TakenIs
<1>6. CASE U # {}
  <2>1. U \subseteq Nat
    BY <1>4
  <2>2. PICK l \in U : \A n \in U : l <= n
    BY <1>6, <2>1, LeastNumber
  <2>3. l \in 0 .. N /\ ~HeardTo(s[l], got + l)
    BY <1>4, <2>2
  <2>4. CASE l = 0
    <3>1. s[l] = Received(rf_buf, rf) /\ got + l = got
      BY <1>1, <1>3, <2>4
    <3>2. HeardTo(s[l], got)
      BY <3>1 DEF HeardTo
    <3>. QED
      BY <2>3, <3>1, <3>2
  <2>5. CASE l # 0
    <3>1. PICK j \in 0 .. N : j = l - 1 /\ l = j + 1 /\ l \in 1 .. N
      BY <2>3, <2>5
    <3>2. j \notin U
      BY <2>2, <3>1
    <3>3. HeardTo(s[j], got + j)
      BY <1>4, <3>1, <3>2
    <3>4. PICK buf \in Buffer, r \in Seq(Seq(Nat)) :
             s[j] = Received(buf, r) /\ Heard(hit, buf, given \o r, got + j)
      BY <3>3 DEF HeardTo
    <3>5. PICK p \in Nat : p = got + l /\ p = (got + j) + 1
      BY <1>1, <3>1
    <3>6. data[l] = p
      BY <1>1, <3>1, <3>5 DEF Run
    <3>7. s[l] = take_byte(Received(buf, r), p)
      BY <1>3, <3>1, <3>4, <3>6
    <3>8. PICK nbuf \in Buffer, nr \in Seq(Seq(Nat)) :
             /\ take_byte(Received(buf, r), p) = Received(nbuf, nr)
             /\ Byte(p, buf, given \o r, nbuf, given \o nr)
      BY ByteTaken
    <3>9. Heard(hit, nbuf, given \o nr, p)
      BY <3>4, <3>5, <3>8, ByteHeard
    <3>10. HeardTo(s[l], p)
      BY <3>7, <3>8, <3>9 DEF HeardTo
    <3>. QED
      BY <2>3, <3>5, <3>10
  <2>. QED
    BY <2>4, <2>5
<1>. QED
  BY <1>5, <1>6

\* What noise does to later bytes changes nothing of what was heard.
LEMMA HitLater ==
    ASSUME NEW h, NEW buf, NEW arr, NEW got, Heard(h, buf, arr, got),
           NEW p \in Nat, got < p
    PROVE  Heard(h \cup {p}, buf, arr, got)
<1>1. PICK k : k = h \cup {p}
  OBVIOUS
<1>2. got \in Nat
  BY DEF Heard
<1>3. ASSUME NEW f, NEW q, Clean(k, f, q) PROVE Clean(h, f, q)
  BY <1>1, <1>3 DEF Clean
<1>4. Complete(k, arr, got)
  <2>. SUFFICES ASSUME NEW f \in 1 .. MaxFrames, closing(f) <= got, Clean(k, f, closing(f))
                PROVE  \E n \in 1 .. Len(arr) : IntactIn(k, arr[n], f)
    BY DEF Complete
  <2>1. PICK n \in 1 .. Len(arr) : IntactIn(h, arr[n], f)
    BY <1>3 DEF Heard, Complete
  <2>2. f \in Nat \ {0}
    BY Sizes
  <2>3. PICK x \in Nat, y \in Nat : x = opening(f) /\ y = closing(f)
    BY <2>2, Places
  <2>4. p \notin x + 1 .. y - 1
    BY <1>2, <2>3
  <2>5. nibbles(f) \cap k = {}
    BY <1>1, <2>1, <2>3, <2>4 DEF IntactIn, nibbles
  <2>. QED
    BY <2>1, <2>5 DEF IntactIn
<1>5. Partway(k, buf, got)
  BY <1>3 DEF Heard, Partway
<1>6. Between(k, buf, got)
  BY <1>1 DEF Heard, Between
<1>. QED
  BY <1>1, <1>4, <1>5, <1>6 DEF Heard

(***************************************************************************)
(* The bytes that are on the way.                                          *)
(***************************************************************************)
Block == [left : Nat, data : Seq(Nat)]

\* base[k] is the last place that is in the first k blocks.
Bounds(base, bs, got, low) ==
    /\ base \in [0 .. Len(bs) -> Nat] /\ base[0] = got /\ base[Len(bs)] = low
    /\ \A k \in 0 .. Len(bs) : base[k] <= low
    /\ \A k \in 1 .. Len(bs) : Run(bs[k].data, base[k - 1], base[k])

\* The blocks hold the places after got, up to low.
InBlocks(bs, got, low) == got \in Nat /\ low \in Nat /\ \E base : Bounds(base, bs, got, low)

\* After these, up to mid, the connection does; and up to top the queue.
Stream(bs, w, r, t, h, got, low, mid, top) ==
    /\ mid \in Nat /\ top \in Nat
    /\ InBlocks(bs, got, low)
    /\ Run(w, low, mid)
    /\ mid + Long(t, h) = top
    /\ Holds(r, h, Long(t, h), mid)

\* Whole frames are in the queue, except when the ring was full.
Counted(station, n, top) ==
    closing(n) <= top /\ (station # "aborted" => top = closing(n))

\* A timer that is on leaves its frame the time to get as far as mid.
Timed(tm, l, n, mid) ==
    \A f \in 1 .. MaxFrames :
        tm[f] # None =>
            /\ l # None /\ f <= n
            /\ closing(f) > mid => LINE_TIME * (closing(f) - mid) <= tm[f] + l

Types ==
    /\ lag \in Nat \cup {None} /\ since \in Nat \cup {None} /\ allowed \in Nat
    /\ sq \in Ring /\ sq_head \in Index /\ sq_tail \in Index
    /\ inform_phl_ready \in BOOLEAN
    /\ timer \in [1 .. MaxFrames -> Nat \cup {None}]
    /\ frames \in 0 .. MaxFrames /\ event \in BOOLEAN
    /\ wire \in Seq(Nat) /\ blocks \in Seq(Block)
    /\ rf_buf \in Buffer /\ rf \in Seq(Seq(Nat)) /\ given \in Seq(Seq(Nat))
    /\ report \in BOOLEAN

\* No event is returned before the first turn, and no frame that is not there.
Returned == (event => lag # None) /\ (report => rf # <<>>)

\* What was sent last was sent in a turn.
Sampled == lag # None => since # None /\ lag <= since

OnTheWay(got, low, mid, top) ==
    /\ Stream(blocks, wire, sq, sq_tail, sq_head, got, low, mid, top)
    /\ Counted(a, frames, top)
    /\ Heard(hit, rf_buf, given \o rf, got)
    /\ Timed(timer, since, frames, mid)

IInv == Types /\ Returned /\ Sampled /\ \E got, low, mid, top : OnTheWay(got, low, mid, top)

LEMMA NoBlocks == \A got \in Nat : InBlocks(<<>>, got, got)
<1>. TAKE got \in Nat
<1>1. PICK base : base = [k \in 0 .. 0 |-> got]
  OBVIOUS
<1>2. Len(<<>>) = 0
  OBVIOUS
<1>3. Bounds(base, <<>>, got, got)
  BY <1>1, <1>2 DEF Bounds
<1>. QED
  BY <1>3 DEF InBlocks

\* The first block.
LEMMA FirstBlock ==
    ASSUME NEW bs \in Seq(Block), bs # <<>>, NEW got, NEW low, InBlocks(bs, got, low)
    PROVE  \E x \in Nat : /\ Run(Head(bs).data, got, x)
                          /\ Tail(bs) \in Seq(Block) /\ InBlocks(Tail(bs), x, low)
<1>1. PICK base : Bounds(base, bs, got, low)
  BY DEF InBlocks
<1>2. PICK L \in Nat \ {0} : L = Len(bs)
  <2>1. Len(bs) \in Nat \ {0}
    BY EmptySeq
  <2>. QED
    BY <2>1
<1>3. PICK rest \in Seq(Block) : rest = Tail(bs)
  <2>1. Tail(bs) \in Seq(Block)
    OBVIOUS
  <2>. QED
    BY <2>1
<1>4. Len(rest) = L - 1 /\ \A k \in 1 .. L - 1 : rest[k] = bs[k + 1]
  BY <1>2, <1>3
<1>5. PICK up : up = [k \in 0 .. L - 1 |-> base[k + 1]]
  OBVIOUS
<1>6. \A k \in 0 .. L : base[k] \in Nat /\ base[k] <= low
  BY <1>1, <1>2 DEF Bounds
<1>7. \A k \in 1 .. L : Run(bs[k].data, base[k - 1], base[k])
  BY <1>1, <1>2 DEF Bounds
<1>8. base[0] = got /\ base[L] = low
  BY <1>1, <1>2 DEF Bounds
<1>9. up \in [0 .. L - 1 -> Nat]
  BY <1>5, <1>6
<1>10. up[0] = base[1] /\ up[L - 1] = low
  BY <1>5, <1>8
<1>11. \A k \in 0 .. L - 1 : up[k] <= low
  BY <1>5, <1>6
<1>12. ASSUME NEW k \in 1 .. L - 1 PROVE Run(rest[k].data, up[k - 1], up[k])
  <2>1. up[k - 1] = base[k] /\ up[k] = base[k + 1]
    BY <1>5
  <2>2. PICK j \in 1 .. L : j = k + 1 /\ j - 1 = k
    OBVIOUS
  <2>3. Run(bs[j].data, base[j - 1], base[j])
    BY <1>7
  <2>. QED
    BY <1>4, <2>1, <2>2, <2>3
<1>13. Bounds(up, rest, base[1], low)
  BY <1>4, <1>9, <1>10, <1>11, <1>12 DEF Bounds
<1>14. Run(bs[1].data, got, base[1]) /\ base[1] \in Nat
  <2>1. 1 \in 1 .. L /\ 1 - 1 = 0
    OBVIOUS
  <2>2. Run(bs[1].data, base[1 - 1], base[1])
    BY <1>7, <2>1
  <2>. QED
    BY <1>6, <1>8, <2>1, <2>2
<1>15. Head(bs) = bs[1]
  BY <1>2
<1>. QED
  BY <1>3, <1>13, <1>14, <1>15 DEF InBlocks

\* A block more.
LEMMA LastBlock ==
    ASSUME NEW bs \in Seq(Block), NEW got, NEW low, InBlocks(bs, got, low),
           NEW x \in Block, NEW y, Run(x.data, low, y)
    PROVE  Append(bs, x) \in Seq(Block) /\ InBlocks(Append(bs, x), got, y)
<1>1. PICK base : Bounds(base, bs, got, low)
  BY DEF InBlocks
<1>2. PICK L \in Nat : L = Len(bs)
  OBVIOUS
<1>3. PICK cs \in Seq(Block) : cs = Append(bs, x)
  <2>1. Append(bs, x) \in Seq(Block)
    OBVIOUS
  <2>. QED
    BY <2>1
<1>4. /\ Len(cs) = L + 1 /\ cs[L + 1] = x
      /\ \A k \in 1 .. L : cs[k] = bs[k]
  BY <1>2, <1>3
<1>5. PICK up : up = [k \in 0 .. L + 1 |-> IF k = L + 1 THEN y ELSE base[k]]
  OBVIOUS
<1>6. low \in Nat /\ y \in Nat /\ low <= y /\ got \in Nat
  BY DEF Run, InBlocks
<1>7. ASSUME NEW k \in 0 .. L PROVE base[k] \in Nat /\ base[k] <= low /\ up[k] = base[k]
  <2>1. base[k] \in Nat /\ base[k] <= low
    BY <1>1, <1>2 DEF Bounds
  <2>2. k \in 0 .. L + 1 /\ k # L + 1
    OBVIOUS
  <2>3. up[k] = base[k]
    BY <1>5, <2>2
  <2>. QED
    BY <2>1, <2>3
<1>8. up[L + 1] = y /\ up[0] = got /\ up[L] = low
  BY <1>1, <1>2, <1>5 DEF Bounds
<1>9. up \in [0 .. L + 1 -> Nat]
  <2>1. ASSUME NEW k \in 0 .. L + 1 PROVE (IF k = L + 1 THEN y ELSE base[k]) \in Nat
    <3>1. k # L + 1 => k \in 0 .. L
      OBVIOUS
    <3>. QED
      BY <1>6, <1>7, <3>1
  <2>. QED
    BY <1>5, <2>1
<1>10. ASSUME NEW k \in 0 .. L + 1 PROVE up[k] <= y
  <2>1. CASE k = L + 1
    BY <1>6, <1>8, <2>1
  <2>2. CASE k # L + 1
    <3>1. k \in 0 .. L
      BY <2>2
    <3>2. up[k] \in Nat /\ up[k] <= low
      BY <1>7, <3>1
    <3>. QED
      BY <1>6, <3>2
  <2>. QED
    BY <2>1, <2>2
<1>11. ASSUME NEW k \in 1 .. L + 1 PROVE Run(cs[k].data, up[k - 1], up[k])
  <2>1. CASE k = L + 1
    BY <1>4, <1>8, <2>1
  <2>2. CASE k # L + 1
    <3>1. k \in 1 .. L /\ k - 1 \in 0 .. L /\ k \in 0 .. L
      BY <2>2
    <3>2. Run(bs[k].data, base[k - 1], base[k])
      BY <1>1, <1>2, <3>1 DEF Bounds
    <3>. QED
      BY <1>4, <1>7, <3>1, <3>2
  <2>. QED
    BY <2>1, <2>2
<1>12. Bounds(up, cs, got, y)
  BY <1>4, <1>8, <1>9, <1>10, <1>11 DEF Bounds
<1>. QED
  BY <1>3, <1>6, <1>12 DEF InBlocks

\* Only what the blocks hold counts.
LEMMA SameBlocks ==
    ASSUME NEW bs \in Seq(Block), NEW got, NEW low, InBlocks(bs, got, low),
           NEW cs \in Seq(Block), Len(cs) = Len(bs), \A k \in 1 .. Len(bs) : cs[k].data = bs[k].data
    PROVE  InBlocks(cs, got, low)
BY DEF InBlocks, Bounds

\* Every place after got, up to low, is in some block.
LEMMA SomeBlock ==
    ASSUME NEW bs \in Seq(Block), NEW got, NEW low, InBlocks(bs, got, low),
           NEW p \in Nat, got < p, p <= low
    PROVE  \E k \in 1 .. Len(bs) : p \in ToSet(bs[k].data)
<1>1. PICK base : Bounds(base, bs, got, low)
  BY DEF InBlocks
<1>2. PICK L \in Nat : L = Len(bs)
  OBVIOUS
<1>3. PICK U : U = {k \in 0 .. L : p <= base[k]}
  OBVIOUS
<1>4. L \in U
  BY <1>1, <1>2, <1>3 DEF Bounds
<1>5. PICK k \in U : \A j \in U : k <= j
  <2>1. U \subseteq Nat
    BY <1>3
  <2>. QED
    BY <1>4, <2>1, LeastNumber
<1>6. k \in 0 .. L /\ p <= base[k]
  BY <1>3, <1>5
<1>7. k # 0
  BY <1>1, <1>6 DEF Bounds, InBlocks
<1>8. PICK j \in 0 .. L : j = k - 1 /\ j < k
  BY <1>6, <1>7
<1>9. j \notin U
  BY <1>5, <1>6, <1>8
<1>10. ~(p <= base[j])
  BY <1>3, <1>9
<1>11. PICK x \in Nat, y \in Nat : x = base[j] /\ y = base[k] /\ Run(bs[k].data, x, y)
  <2>1. base[j] \in Nat /\ base[k] \in Nat
    BY <1>1, <1>2, <1>6 DEF Bounds
  <2>2. k \in 1 .. L
    BY <1>6, <1>7
  <2>3. Run(bs[k].data, base[k - 1], base[k])
    BY <1>1, <1>2, <2>2 DEF Bounds
  <2>. QED
    BY <1>8, <2>1, <2>3
<1>12. PICK n \in 1 .. y - x : n = p - x
  BY <1>6, <1>10, <1>11
<1>13. PICK d \in Seq(Nat) : d = bs[k].data /\ Len(d) = y - x /\ d[n] = p
  <2>1. PICK d : d = bs[k].data
    OBVIOUS
  <2>2. d \in Seq(Nat) /\ Len(d) = y - x /\ d[n] = x + n
    BY <1>11, <1>12, <2>1 DEF Run
  <2>3. x + n = p
    BY <1>12
  <2>. QED
    BY <2>1, <2>2, <2>3
<1>14. p \in ToSet(d)
  <2>1. n \in DOMAIN d
    BY <1>12, <1>13
  <2>. QED
    BY <1>13, <2>1, Zenon DEF ToSet
<1>. QED
  BY <1>2, <1>6, <1>7, <1>13, <1>14

(***************************************************************************)
(* The queue drains, and timers run.                                       *)
(***************************************************************************)
\* What the start of the ring does when bytes are taken there.
LEMMA RingStart ==
    ASSUME NEW h \in Index, NEW t \in Index, NEW n \in Index, n = Long(t, h), NEW m \in 0 .. n
    PROVE  /\ Slot(h, m) \in Index /\ Long(t, Slot(h, m)) = n - m
           /\ \A k \in 0 .. n - m - 1 : Slot(Slot(h, m), k) = Slot(h, m + k)
<1>1. PICK S \in Nat : S = SQ_SIZE /\ S >= 2
  BY Sizes
<1>2. h \in 0 .. S - 1 /\ t \in 0 .. S - 1 /\ n \in 0 .. S - 1
  BY <1>1 DEF Index
<1>3. n = IF t >= h THEN t - h ELSE t + S - h
  BY <1>1 DEF Long
<1>4. PICK g \in 0 .. S - 1 : g = Slot(h, m) /\ g = IF h + m < S THEN h + m ELSE h + m - S
  <2>1. Slot(h, m) = IF h + m < S THEN h + m ELSE h + m - S
    BY <1>1 DEF Slot
  <2>. QED
    BY <1>2, <2>1
<1>5. Long(t, g) = IF t >= g THEN t - g ELSE t + S - g
  BY <1>1 DEF Long
<1>6. Long(t, g) = n - m
  BY <1>2, <1>3, <1>4, <1>5
<1>7. ASSUME NEW k \in 0 .. n - m - 1 PROVE Slot(g, k) = Slot(h, m + k)
  <2>1. Slot(g, k) = IF g + k < S THEN g + k ELSE g + k - S
    BY <1>1 DEF Slot
  <2>2. Slot(h, m + k) = IF h + (m + k) < S THEN h + (m + k) ELSE h + (m + k) - S
    BY <1>1 DEF Slot
  <2>. QED
    BY <1>2, <1>3, <1>4, <2>1, <2>2
<1>. QED
  BY <1>1, <1>4, <1>6, <1>7 DEF Index

LEMMA Drains ==
    ASSUME NEW bs, NEW w, NEW r \in Ring, NEW t \in Index, NEW h \in Index,
           NEW got, NEW low, NEW mid, NEW top, Stream(bs, w, r, t, h, got, low, mid, top),
           NEW m \in 0 .. Long(t, h),
           NEW d, d = [n \in 1 .. m |-> r[(h + n - 1) % SQ_SIZE]],
           NEW g, g = (h + m) % SQ_SIZE
    PROVE  g \in Index /\ Stream(bs, w \o d, r, t, g, got, low, mid + m, top)
<1>1. PICK n \in Index : n = Long(t, h)
  BY RingLength
<1>2. m \in 0 .. SQ_SIZE /\ n \in Nat /\ SQ_SIZE \in Nat
  BY <1>1, Sizes DEF Index
<1>3. g = Slot(h, m)
  BY <1>2, SlotIs
<1>4. /\ g \in Index /\ Long(t, g) = n - m
      /\ \A k \in 0 .. n - m - 1 : Slot(g, k) = Slot(h, m + k)
  BY <1>1, <1>3, RingStart
<1>5. /\ mid \in Nat /\ top \in Nat /\ InBlocks(bs, got, low) /\ Run(w, low, mid)
      /\ mid + n = top /\ \A k \in 0 .. n - 1 : r[Slot(h, k)] = mid + k + 1
  BY <1>1 DEF Stream, Holds
<1>6. ASSUME NEW k \in 1 .. m PROVE d[k] = mid + k
  <2>1. PICK j \in 0 .. n - 1 : j = k - 1 /\ h + k - 1 = h + j /\ j \in 0 .. SQ_SIZE
    BY <1>1, <1>2 DEF Index
  <2>2. (h + k - 1) % SQ_SIZE = Slot(h, j)
    BY <2>1, SlotIs
  <2>3. r[Slot(h, j)] = mid + k
    BY <1>5, <2>1
  <2>. QED
    BY <2>2, <2>3
<1>7. Run(d, mid, mid + m)
  <2>1. d \in Seq(Nat) /\ Len(d) = m
    <3>1. \A k \in 1 .. m : d[k] \in Nat
      BY <1>5, <1>6
    <3>2. d = [k \in 1 .. m |-> d[k]] /\ m \in Nat
      BY <1>2
    <3>3. PICK s \in [1 .. m -> Nat] : s = d
      BY <3>1, <3>2
    <3>4. s \in Seq(Nat) /\ Len(s) = m
      BY <3>2
    <3>. QED
      BY <3>3, <3>4
  <2>2. mid + m - mid = m
    BY <1>5
  <2>. QED
    BY <1>5, <1>6, <2>1, <2>2 DEF Run
<1>8. Run(w \o d, low, mid + m)
  BY <1>5, <1>7, RunLonger
<1>9. ASSUME NEW k \in 0 .. n - m - 1 PROVE r[Slot(g, k)] = mid + m + k + 1
  <2>1. m + k \in 0 .. n - 1
    BY <1>2
  <2>2. r[Slot(h, m + k)] = mid + (m + k) + 1
    BY <1>5, <2>1
  <2>. QED
    BY <1>4, <1>5, <2>2
<1>10. Holds(r, g, n - m, mid + m)
  BY <1>9 DEF Holds
<1>11. mid + m \in Nat /\ mid + m + (n - m) = top
  BY <1>2, <1>5
<1>. QED
  BY <1>4, <1>5, <1>8, <1>10, <1>11 DEF Stream

\* Frames that are sent are in the stream.
LEMMA PlacesUpTo ==
    ASSUME NEW f \in Nat, NEW g \in Nat, f <= g
    PROVE  closing(f) \in Nat /\ closing(g) \in Nat /\ closing(f) <= closing(g)
<1>1. closing(f) \in Nat /\ closing(g) \in Nat
  BY SpanIs DEF closing
<1>2. CASE f = g
  BY <1>1, <1>2
<1>3. CASE f # g
  BY <1>1, <1>3, PlacesOrdered, SpanIs
<1>. QED
  BY <1>2, <1>3

\* The time since the last turn is as many bytes as drain in it, at least.
LEMMA TurnTime ==
    ASSUME NEW x \in Nat, NEW l \in Nat, NEW e \in Nat,
           LINE_TIME * (e + RATE * l) <= x + l
    PROVE  LINE_TIME * e <= x
<1>1. PICK T \in Nat, R \in Nat : T = LINE_TIME /\ R = RATE /\ R * T >= 1
  BY Sizes
<1>2. PICK k \in Nat : k = R * T /\ k >= 1
  BY <1>1
<1>3. T * (e + R * l) = T * e + k * l /\ k * l >= l /\ T * e \in Nat /\ k * l \in Nat
  <2>1. T * (e + R * l) = T * e + (R * T) * l
    OBVIOUS
  <2>2. l * 1 <= l * k
    BY <1>2, Products
  <2>3. T * e \in Nat /\ k * l \in Nat /\ l * k = k * l /\ l * 1 = l
    OBVIOUS
  <2>. QED
    BY <1>2, <2>1, <2>2, <2>3
<1>. QED
  BY <1>1, <1>3

LEMMA TimersTurned ==
    ASSUME NEW tm \in [1 .. MaxFrames -> Nat \cup {None}], NEW l \in Nat \cup {None},
           NEW n \in 0 .. MaxFrames, NEW mid \in Nat, NEW top \in Nat,
           Timed(tm, l, n, mid), closing(n) <= top, mid <= top,
           NEW m \in Nat, m = IF l # None /\ l # 0 THEN least(top - mid, RATE * l) ELSE 0
    PROVE  /\ Timed(tm, 0, n, mid + m)
           /\ \A f \in 1 .. MaxFrames : tm[f] = 0 => closing(f) <= mid + m
<1>1. ASSUME NEW f \in 1 .. MaxFrames, tm[f] # None
      PROVE  f <= n /\ (closing(f) > mid + m => LINE_TIME * (closing(f) - (mid + m)) <= tm[f])
  <2>1. f <= n /\ (closing(f) > mid => LINE_TIME * (closing(f) - mid) <= tm[f] + l)
    BY <1>1 DEF Timed
  <2>2. PICK x \in Nat, t \in Nat : x = tm[f] /\ t = l
    BY <1>1 DEF Timed
  <2>3. PICK c \in Nat : c = closing(f) /\ c <= top
    <3>1. f \in Nat /\ n \in Nat
      BY Sizes
    <3>2. closing(f) \in Nat /\ closing(n) \in Nat /\ closing(f) <= closing(n)
      BY <2>1, <3>1, PlacesUpTo
    <3>. QED
      BY <3>2
  <2>4. ASSUME c > mid + m PROVE LINE_TIME * (c - (mid + m)) <= x
    <3>1. LINE_TIME * (c - mid) <= x + t
      BY <2>1, <2>2, <2>3, <2>4
    <3>2. CASE t = 0
      <4>1. m = 0 /\ mid + m = mid /\ x + t = x
        BY <2>2, <3>2
      <4>. QED
        BY <3>1, <4>1
    <3>3. CASE t # 0
      <4>1. m = least(top - mid, RATE * t) /\ RATE * t \in Nat
        BY <2>2, <3>3, NoneDiffers, Sizes
      <4>2. m = RATE * t
        BY <2>3, <2>4, <4>1 DEF least
      <4>3. PICK e \in Nat : e = c - (mid + m) /\ c - mid = e + RATE * t
        <5>1. c - (mid + m) \in Nat /\ c - mid = (c - (mid + m)) + m
          BY <2>4
        <5>. QED
          BY <4>2, <5>1
      <4>4. LINE_TIME * (e + RATE * t) <= x + t
        BY <3>1, <4>3
      <4>. QED
        BY <4>3, <4>4, TurnTime
    <3>. QED
      BY <3>2, <3>3
  <2>. QED
    BY <2>1, <2>2, <2>3, <2>4
<1>2. 0 # None
  BY NoneDiffers
<1>3. ASSUME NEW f \in 1 .. MaxFrames, tm[f] # None PROVE tm[f] \in Nat /\ tm[f] + 0 = tm[f]
  BY <1>3
<1>4. Timed(tm, 0, n, mid + m)
  BY <1>1, <1>2, <1>3 DEF Timed
<1>5. ASSUME NEW f \in 1 .. MaxFrames, tm[f] = 0 PROVE closing(f) <= mid + m
  <2>1. PICK c \in Nat : c = closing(f)
    BY Sizes, PlacesUpTo
  <2>2. c > mid + m => LINE_TIME * (c - (mid + m)) <= 0
    BY <1>1, <1>2, <1>5, <2>1
  <2>3. ASSUME c > mid + m PROVE FALSE
    <3>1. PICK e \in Nat : e = c - (mid + m) /\ 1 <= e
      <4>1. c - (mid + m) \in Nat /\ 1 <= c - (mid + m)
        BY <2>3
      <4>. QED
        BY <4>1
    <3>2. PICK T \in Nat, R \in Nat : T = LINE_TIME /\ R = RATE /\ R * T >= 1
      BY Sizes
    <3>3. T >= 1
      <4>1. T = 0 => R * T = 0
        OBVIOUS
      <4>. QED
        BY <3>2, <4>1
    <3>4. T * e >= 1
      BY <3>1, <3>3, ProductPositive
    <3>5. LINE_TIME * (c - (mid + m)) = T * e
      BY <3>1, <3>2
    <3>6. T * e <= 0 /\ T * e \in Nat
      BY <2>2, <2>3, <3>5
    <3>. QED
      BY <3>4, <3>6
  <2>. QED
    BY <2>1, <2>3
<1>. QED
  BY <1>4, <1>5

\* What drains does not shorten any timer.
LEMMA TimersLater ==
    ASSUME NEW tm \in [1 .. MaxFrames -> Nat \cup {None}], NEW l \in Nat \cup {None},
           NEW n \in 0 .. MaxFrames, NEW mid \in Nat, Timed(tm, l, n, mid),
           NEW later \in Nat, mid <= later, NEW f \in 1 .. MaxFrames, tm[f] # None
    PROVE  /\ l # None /\ f <= n
           /\ closing(f) > later => LINE_TIME * (closing(f) - later) <= tm[f] + l
<1>1. /\ l # None /\ f <= n
      /\ closing(f) > mid => LINE_TIME * (closing(f) - mid) <= tm[f] + l
  BY DEF Timed
<1>2. PICK c \in Nat : c = closing(f)
  BY Sizes, PlacesUpTo
<1>3. ASSUME c > later PROVE LINE_TIME * (c - later) <= LINE_TIME * (c - mid)
  <2>1. c - later \in Nat /\ c - mid \in Nat /\ c - later <= c - mid
    BY <1>3
  <2>. QED
    BY <2>1, Sizes, Products
<1>4. LINE_TIME * (c - later) \in Int /\ LINE_TIME * (c - mid) \in Int /\ tm[f] + l \in Int
  BY <1>1, Sizes
<1>. QED
  BY <1>1, <1>2, <1>3, <1>4

LEMMA MinusIs ==
    ASSUME NEW t \in Nat, NEW u \in Nat
    PROVE  minus(t, u) \in Nat /\ minus(t, u) + u >= t
BY DEF minus

(***************************************************************************)
(* Who is connected.                                                       *)
(***************************************************************************)
Linked ==
    /\ StartsConnected
    /\ i \in 0 .. Attempts
    /\ connected => i < Attempts
    /\ report => connected

\* Station B goes on exactly if it is connected, and A only with the epoch.
LEMMA LinkedKept ==
    ASSUME Linked, [Next]_vars
    PROVE  Linked'
<1>. USE AttemptsType DEF Linked, StartsConnected
<1>1. CASE Connects
  <2>1. report' = report
    BY <1>1 DEF Connects, bvars
  <2>2. CASE Listen
    BY <2>1, <2>2 DEF Listen
  <2>3. CASE Connect
    BY <2>1, <2>3 DEF Connect
  <2>4. CASE Connected
    BY <2>1, <2>4 DEF Connected, gives_up
  <2>5. CASE Accept
    BY <2>1, <2>5 DEF Accept
  <2>. QED
    BY <1>1, <2>2, <2>3, <2>4, <2>5 DEF Connects, Connecting
<1>2. CASE Tick
  BY <1>2 DEF Tick, cvars
<1>3. CASE SendFrame
  <2>1. /\ b' = b /\ i' = i /\ connected' = connected /\ epoch' = epoch /\ report' = report
        /\ a' = a \/ a' = "aborted"
    BY <1>3 DEF SendFrame, bvars
  <2>. QED
    BY <2>1
<1>4. CASE TurnA
  BY <1>4 DEF TurnA, cvars, bvars
<1>5. CASE TurnB
  <2>1. connected
    BY <1>5 DEF TurnB, running
  <2>. QED
    BY <1>5, <2>1 DEF TurnB, cvars
<1>6. CASE RecvFrame
  <2>1. /\ report /\ ~report' /\ a' = a /\ i' = i /\ connected' = connected /\ epoch' = epoch
        /\ b' = b \/ b' = "stopped"
    BY <1>6 DEF RecvFrame
  <2>. QED
    BY <2>1
<1>7. CASE UNCHANGED vars
  BY <1>7 DEF vars, cvars, bvars
<1>. QED
  BY <1>1, <1>2, <1>3, <1>4, <1>5, <1>6, <1>7 DEF Next

\* Station B leaves the loop of protocol_init to run exactly if it is connected,
\* and A runs only when the epoch of B's clock was sent, after any attempts.
THEOREM ConnectedStart == Spec => []StartsConnected
<1>1. Init => Linked
  BY AttemptsType DEF Init, ConnectionInit, Linked, StartsConnected
<1>2. Linked /\ [Next]_vars => Linked'
  BY LinkedKept
<1>3. Linked => StartsConnected
  BY DEF Linked
<1>. QED
  BY <1>1, <1>2, <1>3, PTL DEF Spec

(***************************************************************************)
(* The inductive invariant.                                                *)
(***************************************************************************)
LEMMA InitIInv == Init => IInv
<1>. SUFFICES ASSUME Init PROVE IInv
  OBVIOUS
<1>. USE DEF Init
<1>1. MaxFrames \in Nat /\ 0 \in Index /\ 0 \in 0 .. MaxFrames
  BY Sizes DEF Index
<1>2. closing(0) = 0
  BY SpanIs DEF closing
<1>3. sq \in Ring
  BY DEF Ring, Index
<1>4. timer \in [1 .. MaxFrames -> Nat \cup {None}]
  OBVIOUS
<1>5. Types
  BY <1>1, <1>3, <1>4, EmptySeq DEF Types, Buffer
<1>6. Returned /\ Sampled
  BY DEF Returned, Sampled
<1>7. Long(0, 0) = 0
  BY DEF Long
<1>8. Stream(blocks, wire, sq, sq_tail, sq_head, 0, 0, 0, 0)
  <2>1. InBlocks(<<>>, 0, 0) /\ Run(<<>>, 0, 0)
    BY NoBlocks, RunEmpty
  <2>. QED
    BY <1>7, <2>1 DEF Stream, Holds
<1>9. Counted(a, frames, 0)
  BY <1>2 DEF Counted
<1>10. Heard(hit, rf_buf, given \o rf, 0)
  <2>1. given \o rf = <<>> /\ <<>> \in Seq(Seq(Nat)) /\ Len(<<>>) = 0
    BY EmptySeq
  <2>2. Ordered(None, <<>>, 0)
    BY <2>1 DEF Ordered
  <2>3. ASSUME NEW f \in 1 .. MaxFrames PROVE ~(closing(f) <= 0) /\ ~(closing(f - 1) < 0)
    <3>1. f \in Nat \ {0}
      BY <1>1
    <3>2. PICK x \in Nat, y \in Nat : x = closing(f - 1) /\ y = closing(f) /\ y = x + Span
      BY <3>1, Places
    <3>. QED
      BY <3>2, SpanIs
  <2>4. Complete(hit, <<>>, 0) /\ Partway(hit, None, 0)
    BY <2>3 DEF Complete, Partway
  <2>5. Between(hit, None, 0)
    BY DEF Between
  <2>. QED
    BY <2>1, <2>2, <2>4, <2>5 DEF Heard, Buffer
<1>11. Timed(timer, since, frames, 0)
  BY DEF Timed
<1>12. OnTheWay(0, 0, 0, 0)
  BY <1>8, <1>9, <1>10, <1>11 DEF OnTheWay
<1>. QED
  BY <1>5, <1>6, <1>12 DEF IInv

LEMMA ConnectsKeeps ==
    ASSUME IInv, Connects
    PROVE  IInv'
<1>1. UNCHANGED <<lag, since, allowed, sq, sq_head, sq_tail, inform_phl_ready, timer, frames, event,
                  wire, blocks, rf_buf, rf, given, report, hit>>
  BY DEF Connects, avars, bvars
<1>2. a' # "aborted" => a # "aborted"
  BY DEF Connects, Connecting, Listen, Connect, Connected, Accept
<1>3. PICK got, low, mid, top : OnTheWay(got, low, mid, top)
  BY DEF IInv
<1>4. Types'
  BY <1>1 DEF IInv, Types
<1>5. Returned' /\ Sampled'
  BY <1>1 DEF IInv, Returned, Sampled
<1>6. Counted(a', frames, top)
  BY <1>2, <1>3 DEF OnTheWay, Counted
<1>7. OnTheWay(got, low, mid, top)'
  BY <1>1, <1>3, <1>6 DEF OnTheWay
<1>. QED
  BY <1>4, <1>5, <1>7 DEF IInv

LEMMA TickKeeps ==
    ASSUME IInv, Tick
    PROVE  IInv'
<1>1. UNCHANGED <<a, allowed, sq, sq_head, sq_tail, inform_phl_ready, frames, event,
                  wire, rf_buf, rf, given, report, hit>>
  BY DEF Tick, cvars
<1>2. /\ lag \in Nat /\ lag' = lag + 1 /\ lag <= since
      /\ since \in Nat /\ since' = since + 1
  BY DEF Tick, IInv, Types, Sampled
<1>3. PICK got, low, mid, top : OnTheWay(got, low, mid, top)
  BY DEF IInv
<1>4. blocks \in Seq(Block)
  BY DEF IInv, Types
<1>5. PICK L \in Nat : L = Len(blocks) /\ DOMAIN blocks = 1 .. L
  BY <1>4
<1>6. blocks' = [n \in 1 .. L |-> [blocks[n] EXCEPT !.left = minus(@, 1)]]
  BY <1>5 DEF Tick
<1>7. ASSUME NEW n \in 1 .. L PROVE blocks'[n] \in Block /\ blocks'[n].data = blocks[n].data
  <2>1. PICK x \in Block : x = blocks[n]
    BY <1>4, <1>5, ElementOfSeq
  <2>2. minus(x.left, 1) \in Nat
    BY <2>1, MinusIs DEF Block
  <2>3. blocks'[n] = [x EXCEPT !.left = minus(x.left, 1)]
    BY <1>6, <2>1
  <2>. QED
    BY <2>1, <2>2, <2>3 DEF Block
<1>8. blocks' \in Seq(Block) /\ Len(blocks') = L
  <2>1. PICK s \in [1 .. L -> Block] : s = blocks'
    BY <1>6, <1>7
  <2>2. s \in Seq(Block) /\ Len(s) = L
    OBVIOUS
  <2>. QED
    BY <2>1, <2>2
<1>9. timer \in [1 .. MaxFrames -> Nat \cup {None}]
  BY DEF IInv, Types
<1>10. timer' = [f \in 1 .. MaxFrames |-> IF timer[f] = None THEN None ELSE minus(timer[f], 1)]
  BY <1>9 DEF Tick
<1>11. ASSUME NEW f \in 1 .. MaxFrames
       PROVE  /\ timer'[f] \in Nat \cup {None}
              /\ timer'[f] # None => /\ timer[f] # None
                                     /\ timer'[f] + since' \in Nat /\ timer[f] + since \in Nat
                                     /\ timer[f] + since <= timer'[f] + since'
  <2>1. CASE timer[f] = None
    BY <1>10, <2>1
  <2>2. CASE timer[f] # None
    <3>1. PICK t \in Nat : t = timer[f]
      BY <1>9, <2>2
    <3>2. timer'[f] = minus(t, 1)
      BY <1>10, <2>2, <3>1
    <3>3. PICK u \in Nat : u = minus(t, 1) /\ u + 1 >= t
      BY MinusIs
    <3>. QED
      BY <1>2, <2>2, <3>1, <3>2, <3>3
  <2>. QED
    BY <2>1, <2>2
<1>12. Types'
  <2>1. timer' \in [1 .. MaxFrames -> Nat \cup {None}]
    BY <1>10, <1>11
  <2>. QED
    BY <1>1, <1>2, <1>8, <2>1 DEF IInv, Types
<1>13. Returned' /\ Sampled'
  BY <1>1, <1>2, NoneDiffers DEF IInv, Returned, Sampled
<1>14. Stream(blocks', wire, sq, sq_tail, sq_head, got, low, mid, top)
  <2>1. InBlocks(blocks, got, low)
    BY <1>3 DEF OnTheWay, Stream
  <2>2. InBlocks(blocks', got, low)
    BY <1>4, <1>5, <1>7, <1>8, <2>1, SameBlocks
  <2>. QED
    BY <1>3, <2>2 DEF OnTheWay, Stream
<1>15. Timed(timer', since', frames, mid)
  <2>. SUFFICES ASSUME NEW f \in 1 .. MaxFrames, timer'[f] # None
                PROVE  /\ since' # None /\ f <= frames
                       /\ closing(f) > mid => LINE_TIME * (closing(f) - mid) <= timer'[f] + since'
    BY DEF Timed
  <2>1. /\ timer[f] # None /\ timer'[f] + since' \in Nat /\ timer[f] + since \in Nat
        /\ timer[f] + since <= timer'[f] + since'
    BY <1>11
  <2>2. f <= frames /\ (closing(f) > mid => LINE_TIME * (closing(f) - mid) <= timer[f] + since)
    BY <1>3, <2>1 DEF OnTheWay, Timed
  <2>3. since' # None
    BY <1>2, NoneDiffers
  <2>4. PICK c \in Nat, m \in Nat : c = closing(f) /\ m = mid
    BY <1>3, Sizes, PlacesUpTo DEF OnTheWay, Stream
  <2>5. LINE_TIME * (c - m) \in Int
    BY Sizes
  <2>. QED
    BY <2>1, <2>2, <2>3, <2>4, <2>5
<1>16. OnTheWay(got, low, mid, top)'
  BY <1>1, <1>3, <1>14, <1>15 DEF OnTheWay
<1>. QED
  BY <1>12, <1>13, <1>16 DEF IInv

\* What the frame of the queue needs of the stream.
LEMMA QueuePut ==
    ASSUME IInv, NEW got, NEW low, NEW mid, NEW top,
           Stream(blocks, wire, sq, sq_tail, sq_head, got, low, mid, top)
    PROVE  Put(queue, low, mid, top)
<1>1. /\ sq \in Ring /\ sq_tail \in Index /\ allowed \in Nat /\ wire \in Seq(Nat)
  BY DEF IInv, Types
<1>2. queue = QueueMade(sq, sq_tail, allowed, wire, FALSE)
  BY DEF queue, QueueMade
<1>3. queue \in Queues
  BY <1>1, <1>2, QueueMadeType
<1>4. queue.sq = sq /\ queue.tail = sq_tail /\ queue.wire = wire
  BY DEF queue
<1>. QED
  BY <1>3, <1>4 DEF Put, Stream

LEMMA SendFrameKeeps ==
    ASSUME IInv, SendFrame
    PROVE  /\ IInv'
           /\ \A f \in 1 .. MaxFrames : timer[f] # None => timer'[f] # None
<1>1. UNCHANGED <<lag, since, sq_head, event, blocks, rf_buf, rf, given, report, hit>>
  BY DEF SendFrame, bvars
<1>2. PICK got, low, mid, top : OnTheWay(got, low, mid, top)
  BY DEF IInv
<1>3. frames \in Nat /\ frames < MaxFrames /\ a = "running" /\ event
  BY DEF SendFrame, IInv, Types
<1>4. PICK f \in 1 .. MaxFrames : f = frames + 1 /\ f - 1 = frames
  BY <1>3, Sizes
<1>5. PICK q : q = send_frame(f)
  OBVIOUS
<1>6. /\ sq' = q.sq /\ sq_tail' = q.tail /\ allowed' = q.allowed /\ wire' = q.wire
      /\ IF q.full
         THEN a' = "aborted" /\ timer' = timer /\ frames' = frames
         ELSE /\ frames' = f
              /\ timer' = [timer EXCEPT ![f] = time_left((q.tail + SQ_SIZE - sq_head) % SQ_SIZE)]
              /\ a' = a
  BY <1>4, <1>5 DEF SendFrame
<1>7. sq_head \in Index /\ mid \in Nat /\ top \in Nat /\ top = closing(frames)
  BY <1>2, <1>3 DEF IInv, Types, OnTheWay, Stream, Counted
<1>8. PICK N \in Nat : N = Span
  BY SpanIs
<1>9. Put(queue, low, mid, top)
  BY <1>2, QueuePut DEF OnTheWay
<1>10. Progress(q, N, top, low, mid)
  BY <1>4, <1>5, <1>7, <1>8, <1>9, FramePut
<1>11. PICK end \in top .. top + N : Put(q, low, mid, end) /\ (~q.full => end = top + N)
  BY <1>10 DEF Progress
<1>12. end \in Nat /\ top <= end
  BY <1>7
<1>13. PICK sent \in Nat : /\ mid <= sent
                           /\ Run(q.wire, low, sent)
                           /\ sent + Long(q.tail, sq_head) = end
                           /\ Holds(q.sq, sq_head, Long(q.tail, sq_head), sent)
  BY <1>11 DEF Put
<1>14. /\ q \in Queues
       /\ q.sq \in Ring /\ q.tail \in Index /\ q.allowed \in Nat
       /\ q.wire \in Seq(Nat) /\ q.full \in BOOLEAN
  BY <1>11, QueueFields DEF Put
<1>15. Stream(blocks, wire', sq', sq_tail', sq_head, got, low, sent, end)
  BY <1>2, <1>6, <1>12, <1>13 DEF OnTheWay, Stream
<1>16. closing(f) = top + N
  <2>1. f \in Nat \ {0}
    OBVIOUS
  <2>2. closing(f) = closing(f - 1) + Span
    BY <2>1, Places
  <2>. QED
    BY <1>4, <1>7, <1>8, <2>2
<1>17. Counted(a', frames', end)
  <2>1. CASE q.full
    BY <1>6, <1>7, <1>12, <2>1 DEF Counted
  <2>2. CASE ~q.full
    <3>1. end = closing(f) /\ frames' = f
      BY <1>6, <1>11, <1>16, <2>2
    <3>. QED
      BY <1>12, <3>1 DEF Counted
  <2>. QED
    BY <2>1, <2>2
<1>18. /\ timer \in [1 .. MaxFrames -> Nat \cup {None}] /\ lag \in Nat /\ since \in Nat /\ lag <= since
       /\ since # None /\ frames \in 0 .. MaxFrames /\ Timed(timer, since, frames, mid)
  BY <1>2, <1>3 DEF IInv, Types, Returned, Sampled, OnTheWay
<1>19. PICK n \in Index : n = Long(q.tail, sq_head) /\ (q.tail + SQ_SIZE - sq_head) % SQ_SIZE = n
  BY <1>7, <1>14, RingLength
<1>20. PICK x \in Nat : x = time_left(n) /\ LINE_TIME * n <= x + since
  <2>1. n * LINE_TIME + TIMER \in Nat /\ LINE_TIME * n <= n * LINE_TIME + TIMER
    <3>1. PICK m \in Nat, T \in Nat, U \in Nat : m = n /\ T = LINE_TIME /\ U = TIMER
      BY <1>19, Sizes DEF Index
    <3>2. m * T \in Nat /\ T * m = m * T
      OBVIOUS
    <3>. QED
      BY <3>1, <3>2
  <2>2. PICK t \in Nat, u \in Nat, T \in Nat :
           t = n * LINE_TIME + TIMER /\ u = lag /\ T = LINE_TIME * n /\ T <= t
    <3>1. LINE_TIME * n \in Nat
      BY <1>19, Sizes DEF Index
    <3>. QED
      BY <1>18, <2>1, <3>1
  <2>3. PICK y \in Nat : y = minus(t, u) /\ y + u >= t
    BY MinusIs
  <2>4. y = time_left(n)
    BY <2>2, <2>3 DEF time_left
  <2>5. T <= y + since
    BY <1>18, <2>2, <2>3
  <2>. QED
    BY <2>2, <2>4, <2>5
<1>21. timer' \in [1 .. MaxFrames -> Nat \cup {None}] /\ frames' \in 0 .. MaxFrames
  BY <1>4, <1>6, <1>18, <1>19, <1>20
<1>22. Timed(timer', since, frames', sent)
  <2>. SUFFICES ASSUME NEW g \in 1 .. MaxFrames, timer'[g] # None
                PROVE  /\ since # None /\ g <= frames'
                       /\ closing(g) > sent => LINE_TIME * (closing(g) - sent) <= timer'[g] + since
    BY DEF Timed
  <2>1. CASE timer'[g] = timer[g] /\ frames <= frames'
    <3>1. /\ g <= frames
          /\ closing(g) > sent => LINE_TIME * (closing(g) - sent) <= timer[g] + since
      BY <1>7, <1>13, <1>18, <2>1, TimersLater
    <3>2. g \in Nat /\ frames' \in Nat
      BY <1>21, Sizes
    <3>. QED
      BY <1>3, <1>18, <2>1, <3>1, <3>2
  <2>2. CASE ~q.full /\ g = f
    <3>1. frames' = f /\ timer'[g] = x
      BY <1>6, <1>18, <1>19, <1>20, <2>2
    <3>2. closing(g) - sent = n
      BY <1>11, <1>13, <1>16, <1>19, <2>2 DEF Index
    <3>. QED
      BY <1>18, <1>20, <2>2, <3>1, <3>2
  <2>3. CASE ~q.full /\ g # f
    <3>1. timer'[g] = timer[g] /\ frames' = f
      BY <1>6, <1>18, <2>3
    <3>. QED
      BY <1>3, <1>4, <2>1, <3>1
  <2>4. CASE q.full
    BY <1>3, <1>6, <2>1, <2>4
  <2>. QED
    BY <2>2, <2>3, <2>4
<1>23. OnTheWay(got, low, sent, end)'
  BY <1>1, <1>2, <1>15, <1>17, <1>22 DEF OnTheWay
<1>24. Types'
  <2>1. inform_phl_ready' = TRUE
    BY DEF SendFrame
  <2>. QED
    BY <1>1, <1>6, <1>14, <1>21, <2>1 DEF IInv, Types
<1>25. Returned' /\ Sampled'
  BY <1>1 DEF IInv, Returned, Sampled
<1>26. ASSUME NEW g \in 1 .. MaxFrames, timer[g] # None PROVE timer'[g] # None
  <2>1. x # None
    BY NoneDiffers
  <2>. QED
    BY <1>6, <1>18, <1>19, <1>20, <1>26, <2>1
<1>. QED
  BY <1>23, <1>24, <1>25, <1>26 DEF IInv

\* What a turn sends: the bytes up to mid then have left the queue.
TurnSends(got, low, mid, top) ==
    /\ wire' \in Seq(Nat) /\ sq_head' \in Index /\ allowed' \in Nat /\ since' \in Nat
    /\ Stream(blocks, wire', sq, sq_tail, sq_head', got, low, mid, top)
    /\ Timed(timer, since', frames, mid)
    /\ since' = 0 => \A f \in 1 .. MaxFrames : timer[f] = 0 => closing(f) <= mid

LEMMA SocketSends ==
    ASSUME IInv, NEW got, NEW low, NEW mid, NEW top, OnTheWay(got, low, mid, top), socket_send
    PROVE  \E m : TurnSends(got, low, m, top)
<1>1. /\ wire' = wire \o drained
      /\ sq_head' = (sq_head + sent_now) % SQ_SIZE
      /\ allowed' = IF may_send THEN RATE * since - sent_now ELSE allowed
      /\ since' = 0
  BY DEF socket_send
<1>2. /\ timer \in [1 .. MaxFrames -> Nat \cup {None}] /\ since \in Nat \cup {None}
      /\ sq \in Ring /\ sq_head \in Index /\ sq_tail \in Index /\ frames \in 0 .. MaxFrames
      /\ allowed \in Nat /\ wire \in Seq(Nat)
  BY DEF IInv, Types
<1>3. /\ Stream(blocks, wire, sq, sq_tail, sq_head, got, low, mid, top)
      /\ Counted(a, frames, top) /\ Timed(timer, since, frames, mid)
  BY DEF OnTheWay
<1>4. PICK n \in Nat : /\ n = Long(sq_tail, sq_head) /\ sq_len = n
                       /\ mid \in Nat /\ top \in Nat /\ mid + n = top
  <2>1. /\ (sq_tail + SQ_SIZE - sq_head) % SQ_SIZE = Long(sq_tail, sq_head)
        /\ Long(sq_tail, sq_head) \in Index
    BY <1>2, RingLength
  <2>2. Long(sq_tail, sq_head) \in Nat
    BY <2>1 DEF Index
  <2>. QED
    BY <1>3, <2>1, <2>2 DEF sq_len, Stream
<1>5. PICK m \in Nat : /\ m = sent_now /\ m <= n
                       /\ may_send => m <= RATE * since /\ RATE * since \in Nat
                       /\ m = IF since # None /\ since # 0 THEN least(top - mid, RATE * since) ELSE 0
  <2>1. top - mid = n
    BY <1>4
  <2>2. CASE may_send
    <3>1. PICK x \in Nat : x = RATE * since
      BY <1>2, <2>2, Sizes DEF may_send
    <3>2. sent_now = least(n, x)
      BY <1>4, <2>2, <3>1 DEF sent_now
    <3>3. least(n, x) \in Nat /\ least(n, x) <= n /\ least(n, x) <= x
      BY DEF least
    <3>. QED
      BY <2>1, <2>2, <3>1, <3>2, <3>3 DEF may_send
  <2>3. CASE ~may_send
    BY <1>4, <2>3 DEF sent_now, may_send
  <2>. QED
    BY <2>2, <2>3
<1>6. drained = [k \in 1 .. m |-> sq[(sq_head + k - 1) % SQ_SIZE]]
  BY <1>5 DEF drained
<1>7. /\ sq_head' \in Index
      /\ Stream(blocks, wire', sq, sq_tail, sq_head', got, low, mid + m, top)
  <2>1. PICK d, g : /\ d = [k \in 1 .. m |-> sq[(sq_head + k - 1) % SQ_SIZE]]
                    /\ g = (sq_head + m) % SQ_SIZE
    OBVIOUS
  <2>2. sq_head' = g /\ wire' = wire \o d
    BY <1>1, <1>5, <1>6, <2>1
  <2>3. m \in 0 .. Long(sq_tail, sq_head)
    BY <1>4, <1>5
  <2>4. g \in Index /\ Stream(blocks, wire \o d, sq, sq_tail, g, got, low, mid + m, top)
    <3>1. sq \in Ring /\ sq_tail \in Index /\ sq_head \in Index
      BY <1>2
    <3>2. Stream(blocks, wire, sq, sq_tail, sq_head, got, low, mid, top)
      BY <1>3
    <3>. QED
      BY <2>1, <2>3, <3>1, <3>2, Drains
  <2>. QED
    BY <2>2, <2>4
<1>8. /\ Timed(timer, 0, frames, mid + m)
      /\ \A f \in 1 .. MaxFrames : timer[f] = 0 => closing(f) <= mid + m
  <2>1. closing(frames) <= top /\ mid <= top
    BY <1>3, <1>4 DEF Counted
  <2>. QED
    BY <1>2, <1>3, <1>4, <1>5, <2>1, TimersTurned
<1>9. wire' \in Seq(Nat)
  BY <1>7 DEF Stream, Run
<1>10. allowed' \in Nat
  <2>1. CASE may_send
    <3>1. PICK x \in Nat : x = RATE * since /\ m <= x
      BY <1>5, <2>1
    <3>2. allowed' = x - m
      BY <1>1, <1>5, <2>1, <3>1
    <3>. QED
      BY <3>1, <3>2
  <2>2. CASE ~may_send
    BY <1>1, <1>2, <2>2
  <2>. QED
    BY <2>1, <2>2
<1>11. since' \in Nat /\ Timed(timer, since', frames, mid + m)
  BY <1>1, <1>8
<1>12. TurnSends(got, low, mid + m, top)
  BY <1>7, <1>8, <1>9, <1>10, <1>11 DEF TurnSends
<1>. QED
  BY <1>12

\* A turn that finds no room in the connection.
LEMMA SocketFull ==
    ASSUME IInv, NEW got, NEW low, NEW mid, NEW top, OnTheWay(got, low, mid, top), not_writable
    PROVE  TurnSends(got, low, mid, top)
<1>1. /\ wire' = wire /\ sq_head' = sq_head /\ allowed' = allowed /\ since' = since
      /\ lag # None
  BY DEF not_writable
<1>2. /\ timer \in [1 .. MaxFrames -> Nat \cup {None}] /\ since \in Nat
      /\ sq_head \in Index /\ frames \in 0 .. MaxFrames
      /\ allowed \in Nat /\ wire \in Seq(Nat)
  BY <1>1 DEF IInv, Types, Sampled
<1>3. /\ Stream(blocks, wire, sq, sq_tail, sq_head, got, low, mid, top)
      /\ Counted(a, frames, top) /\ Timed(timer, since, frames, mid)
  BY DEF OnTheWay
<1>4. ASSUME since = 0 PROVE \A f \in 1 .. MaxFrames : timer[f] = 0 => closing(f) <= mid
  <2>1. PICK x \in Nat, y \in Nat, n \in Nat :
           /\ x = mid /\ y = top /\ n = Long(sq_tail, sq_head) /\ x + n = y
    <3>1. sq_tail \in Index
      BY DEF IInv, Types
    <3>2. Long(sq_tail, sq_head) \in Nat
      BY <1>2, <3>1, RingLength DEF Index
    <3>. QED
      BY <1>3, <3>2 DEF Stream
  <2>2. closing(frames) <= y /\ x <= y
    BY <1>3, <2>1 DEF Counted
  <2>3. PICK m \in Nat : m = 0 /\ x + m = x
    OBVIOUS
  <2>4. Timed(timer, 0, frames, x)
    BY <1>3, <1>4, <2>1
  <2>5. m = IF 0 # None /\ 0 # 0 THEN least(y - x, RATE * 0) ELSE 0
    BY <2>3
  <2>6. \A f \in 1 .. MaxFrames : timer[f] = 0 => closing(f) <= x + m
    BY <1>2, <2>2, <2>4, <2>5, TimersTurned
  <2>. QED
    BY <2>1, <2>3, <2>6
<1>. QED
  BY <1>1, <1>2, <1>3, <1>4 DEF TurnSends

LEMMA TurnAKeeps ==
    ASSUME IInv, TurnA
    PROVE  /\ IInv'
           /\ \E got, low, mid, top :
                 /\ OnTheWay(got, low, mid, top)'
                 /\ since' = 0 =>
                       \A f \in 1 .. MaxFrames : (timer[f] # None /\ timer'[f] = None) => closing(f) <= mid
<1>1. UNCHANGED <<a, b, i, connected, epoch, sq, sq_tail, frames, blocks, rf_buf, rf, given, report, hit>>
  BY DEF TurnA, cvars, bvars
<1>2. lag' = 0
  BY DEF TurnA
<1>3. PICK got, low, mid, top : OnTheWay(got, low, mid, top)
  BY DEF IInv
<1>4. PICK m : TurnSends(got, low, m, top)
  BY <1>3, SocketSends, SocketFull DEF TurnA
<1>5. timer \in [1 .. MaxFrames -> Nat \cup {None}]
  BY DEF IInv, Types
<1>6. /\ timer' \in [1 .. MaxFrames -> Nat \cup {None}]
      /\ \A f \in 1 .. MaxFrames : timer'[f] = timer[f] \/ (timer[f] = 0 /\ timer'[f] = None)
  <2>1. CASE timer' = timer
    BY <1>5, <2>1
  <2>2. CASE expires # None /\ timer' = [timer EXCEPT ![expires] = None]
    <3>1. due # {}
      BY <2>2 DEF expires
    <3>2. due \subseteq Nat
      BY Sizes DEF due
    <3>3. PICK g \in due : \A k \in due : g <= k
      BY <3>1, <3>2, LeastNumber
    <3>4. PICK e : e = expires
      OBVIOUS
    <3>5. e \in due
      BY <3>1, <3>3, <3>4 DEF expires
    <3>6. e \in 1 .. MaxFrames /\ timer[e] = 0
      BY <3>5 DEF due
    <3>. QED
      BY <1>5, <2>2, <3>4, <3>6
  <2>. QED
    BY <2>1, <2>2 DEF TurnA
<1>7. Timed(timer', since', frames, m)
  <2>1. ASSUME NEW f \in 1 .. MaxFrames, timer'[f] # None PROVE timer'[f] = timer[f]
    BY <1>6, <2>1
  <2>2. Timed(timer, since', frames, m)
    BY <1>4 DEF TurnSends
  <2>. QED
    BY <2>1, <2>2 DEF Timed
<1>8. Stream(blocks, wire', sq, sq_tail, sq_head', got, low, m, top)
  BY <1>4 DEF TurnSends
<1>9. OnTheWay(got, low, m, top)'
  BY <1>1, <1>3, <1>7, <1>8 DEF OnTheWay
<1>10. event' \in BOOLEAN /\ inform_phl_ready' \in BOOLEAN
  BY DEF TurnA, IInv, Types
<1>11. wire' \in Seq(Nat) /\ sq_head' \in Index /\ allowed' \in Nat /\ since' \in Nat
  BY <1>4 DEF TurnSends
<1>12. Types'
  BY <1>1, <1>2, <1>6, <1>10, <1>11 DEF IInv, Types
<1>13. Returned' /\ Sampled'
  BY <1>1, <1>2, <1>11, NoneDiffers DEF IInv, Returned, Sampled
<1>14. IInv'
  BY <1>9, <1>12, <1>13 DEF IInv
<1>15. ASSUME since' = 0, NEW f \in 1 .. MaxFrames, timer[f] # None, timer'[f] = None
       PROVE  closing(f) <= m
  <2>1. timer[f] = 0
    BY <1>6, <1>15
  <2>. QED
    BY <1>4, <1>15, <2>1 DEF TurnSends
<1>. QED
  BY <1>9, <1>14, <1>15

\* What the block that is due leaves.
LEMMA BlockTaken ==
    ASSUME IInv, NEW got, NEW low, InBlocks(blocks, got, low),
           Heard(hit, rf_buf, given \o rf, got),
           NEW due_block, due_block = (blocks # <<>> /\ Head(blocks).left = 0),
           NEW held, held = (IF due_block THEN Tail(blocks) ELSE blocks)
    PROVE  /\ held \in Seq(Block)
           /\ \E x \in Nat : InBlocks(held, x, low) /\ HeardTo(committed, x)
<1>1. /\ blocks \in Seq(Block) /\ given \in Seq(Seq(Nat)) /\ rf_buf \in Buffer /\ rf \in Seq(Seq(Nat))
  BY DEF IInv, Types
<1>2. CASE blocks # <<>> /\ Head(blocks).left = 0
  <2>1. PICK x \in Nat : /\ Run(Head(blocks).data, got, x)
                         /\ Tail(blocks) \in Seq(Block) /\ InBlocks(Tail(blocks), x, low)
    BY <1>1, <1>2, FirstBlock
  <2>2. PICK data : data = Head(blocks).data
    OBVIOUS
  <2>3. HeardTo(taken(data), x)
    BY <1>1, <2>1, <2>2, BlockHeard
  <2>4. committed = taken(data) /\ held = Tail(blocks)
    BY <1>2, <2>2 DEF committed
  <2>. QED
    BY <2>1, <2>3, <2>4
<1>3. CASE ~(blocks # <<>> /\ Head(blocks).left = 0)
  <2>1. committed = Received(rf_buf, rf) /\ held = blocks
    BY <1>3 DEF committed, Received
  <2>2. HeardTo(committed, got)
    BY <1>1, <2>1 DEF HeardTo
  <2>3. got \in Nat
    BY DEF InBlocks
  <2>. QED
    BY <1>1, <2>1, <2>2, <2>3
<1>. QED
  BY <1>2, <1>3

\* What is read from the connection.
LEMMA BlockRead ==
    ASSUME wire \in Seq(Nat), NEW held \in Seq(Block), NEW got, NEW low, NEW mid,
           InBlocks(held, got, low), Run(wire, low, mid), socket_recv(held),
           NEW buf, NEW arr, Heard(hit, buf, arr, got), got <= low
    PROVE  /\ blocks' \in Seq(Block) /\ Heard(hit', buf, arr, got)
           /\ \E y \in Nat : InBlocks(blocks', got, y) /\ Run(wire', y, mid)
<1>1. low \in Nat /\ mid \in Nat /\ got \in Nat
  BY DEF InBlocks, Run
<1>2. CASE wire = <<>>
  BY <1>1, <1>2 DEF socket_recv
<1>3. CASE wire # <<>>
  <2>1. PICK L \in Nat : L = Len(wire) /\ L = mid - low
    BY DEF Run
  <2>2. PICK n \in Nat : n = least(Len(wire), BLKSIZE) /\ n <= L
    BY <2>1, Sizes DEF least
  <2>3. PICK data, rest : data = SubSeq(wire, 1, n) /\ rest = SubSeq(wire, n + 1, Len(wire))
    OBVIOUS
  <2>4. /\ wire' = rest
        /\ blocks' = Append(held, [left |-> CHAN_DELAY, data |-> data])
        /\ \/ hit' = hit
           \/ \E p \in ToSet(data) : hit' = hit \cup {p}
    BY <1>3, <2>2, <2>3 DEF socket_recv
  <2>5. n \in 0 .. mid - low
    BY <2>1, <2>2
  <2>6. Run(data, low, low + n) /\ Run(rest, low + n, mid)
    BY <2>3, <2>5, RunCut
  <2>7. PICK x : x = [left |-> CHAN_DELAY, data |-> data]
    OBVIOUS
  <2>8. x \in Block /\ x.data = data
    <3>1. data \in Seq(Nat)
      BY <2>6 DEF Run
    <3>. QED
      BY <2>7, <3>1, Sizes DEF Block
  <2>9. Append(held, x) \in Seq(Block) /\ InBlocks(Append(held, x), got, low + n)
    BY <2>6, <2>8, LastBlock
  <2>10. Heard(hit', buf, arr, got)
    <3>1. ASSUME NEW p \in ToSet(data), hit' = hit \cup {p} PROVE Heard(hit', buf, arr, got)
      <4>1. PICK k \in 1 .. Len(data) : p = data[k]
        <5>1. data \in Seq(Nat)
          BY <2>6 DEF Run
        <5>2. DOMAIN data = 1 .. Len(data)
          BY <5>1
        <5>. QED
          BY <3>1, <5>2 DEF ToSet
      <4>2. Len(data) = n /\ data[k] = low + k
        BY <1>1, <2>6, <4>1 DEF Run
      <4>3. p \in Nat /\ got < p
        BY <1>1, <4>1, <4>2
      <4>. QED
        BY <3>1, <4>3, HitLater
    <3>. QED
      BY <2>4, <3>1
  <2>11. low + n \in Nat
    BY <1>1
  <2>. QED
    BY <2>4, <2>6, <2>7, <2>9, <2>10, <2>11
<1>. QED
  BY <1>2, <1>3

LEMMA TurnBKeeps ==
    ASSUME IInv, TurnB
    PROVE  IInv'
<1>1. UNCHANGED <<a, b, i, connected, epoch, lag, since, allowed, sq, sq_head, sq_tail,
                  inform_phl_ready, timer, frames, event, given>>
  BY DEF TurnB, cvars, avars
<1>2. PICK got, low, mid, top : OnTheWay(got, low, mid, top)
  BY DEF IInv
<1>3. PICK due_block, held : /\ due_block = (blocks # <<>> /\ Head(blocks).left = 0)
                             /\ held = (IF due_block THEN Tail(blocks) ELSE blocks)
  OBVIOUS
<1>4. /\ rf_buf' = committed.buf /\ rf' = committed.rf
      /\ report' = (due_block /\ committed.rf # <<>>)
      /\ IF report' THEN blocks' = held /\ UNCHANGED <<wire, hit>> ELSE socket_recv(held)
  BY <1>3 DEF TurnB
<1>5. /\ InBlocks(blocks, got, low) /\ Run(wire, low, mid)
      /\ Heard(hit, rf_buf, given \o rf, got) /\ wire \in Seq(Nat)
  BY <1>2 DEF OnTheWay, Stream, IInv, Types
<1>6. PICK x \in Nat : held \in Seq(Block) /\ InBlocks(held, x, low) /\ HeardTo(committed, x)
  BY <1>3, <1>5, BlockTaken
<1>7. PICK buf \in Buffer, r \in Seq(Seq(Nat)) :
         committed = Received(buf, r) /\ Heard(hit, buf, given \o r, x)
  BY <1>6 DEF HeardTo
<1>8. rf_buf' = buf /\ rf' = r
  BY <1>4, <1>7, ReceivedFields
<1>9. x <= low
  BY <1>6 DEF InBlocks, Bounds
<1>10. /\ blocks' \in Seq(Block) /\ wire' \in Seq(Nat)
       /\ Heard(hit', buf, given \o r, x)
       /\ \E y \in Nat : InBlocks(blocks', x, y) /\ Run(wire', y, mid)
  <2>1. CASE report'
    <3>1. blocks' = held /\ wire' = wire /\ hit' = hit
      BY <1>4, <2>1
    <3>2. low \in Nat
      BY <1>5 DEF Run
    <3>. QED
      BY <1>5, <1>6, <1>7, <3>1, <3>2
  <2>2. CASE ~report'
    <3>1. socket_recv(held)
      BY <1>4, <2>2
    <3>2. /\ blocks' \in Seq(Block) /\ Heard(hit', buf, given \o r, x)
          /\ \E y \in Nat : InBlocks(blocks', x, y) /\ Run(wire', y, mid)
      BY <1>5, <1>6, <1>7, <1>9, <3>1, BlockRead
    <3>3. wire' \in Seq(Nat)
      BY <3>2 DEF Run
    <3>. QED
      BY <3>2, <3>3
  <2>. QED
    BY <2>1, <2>2
<1>11. PICK y \in Nat : InBlocks(blocks', x, y) /\ Run(wire', y, mid)
  BY <1>10
<1>12. Stream(blocks', wire', sq, sq_tail, sq_head, x, y, mid, top)
  BY <1>2, <1>11 DEF OnTheWay, Stream
<1>13. OnTheWay(x, y, mid, top)'
  BY <1>1, <1>2, <1>8, <1>10, <1>12 DEF OnTheWay
<1>14. Types'
  <2>1. report' \in BOOLEAN
    BY <1>3, <1>4
  <2>. QED
    BY <1>1, <1>8, <1>10, <2>1 DEF IInv, Types
<1>15. Returned' /\ Sampled'
  BY <1>1, <1>4 DEF IInv, Returned, Sampled
<1>. QED
  BY <1>13, <1>14, <1>15 DEF IInv

LEMMA RecvFrameKeeps ==
    ASSUME IInv, RecvFrame
    PROVE  IInv'
<1>1. UNCHANGED <<a, lag, since, allowed, sq, sq_head, sq_tail, inform_phl_ready, timer, frames, event,
                  wire, blocks, rf_buf, hit>>
  BY DEF RecvFrame, avars
<1>2. PICK got, low, mid, top : OnTheWay(got, low, mid, top)
  BY DEF IInv
<1>3. given \in Seq(Seq(Nat)) /\ rf \in Seq(Seq(Nat)) /\ rf # <<>>
  BY DEF RecvFrame, IInv, Types, Returned
<1>4. given' = Append(given, Head(rf)) /\ rf' = Tail(rf) /\ report' = FALSE
  BY DEF RecvFrame
<1>5. PICK x \in Seq(Nat), rest \in Seq(Seq(Nat)) : x = Head(rf) /\ rest = Tail(rf) /\ rf = <<x>> \o rest
  <2>1. Head(rf) \in Seq(Nat) /\ Tail(rf) \in Seq(Seq(Nat)) /\ rf = <<Head(rf)>> \o Tail(rf)
    BY <1>3, HeadTailProperties
  <2>. QED
    BY <2>1
<1>6. Append(given, x) \in Seq(Seq(Nat)) /\ Append(given, x) \o rest = given \o rf
  <2>1. <<x>> \in Seq(Seq(Nat))
    OBVIOUS
  <2>2. Append(given, x) = given \o <<x>> /\ Append(given, x) \in Seq(Seq(Nat))
    BY <1>3, AppendIsConcat, AppendProperties
  <2>3. (given \o <<x>>) \o rest = given \o (<<x>> \o rest)
    BY <1>3, <2>1, ConcatAssociative
  <2>. QED
    BY <1>5, <2>2, <2>3
<1>7. given' \o rf' = given \o rf
  BY <1>4, <1>5, <1>6
<1>8. OnTheWay(got, low, mid, top)'
  BY <1>1, <1>2, <1>7 DEF OnTheWay
<1>9. Types'
  BY <1>1, <1>4, <1>5, <1>6 DEF IInv, Types
<1>10. Returned' /\ Sampled'
  BY <1>1, <1>4 DEF IInv, Returned, Sampled
<1>. QED
  BY <1>8, <1>9, <1>10 DEF IInv

LEMMA NextIInv ==
    ASSUME IInv, [Next]_vars
    PROVE  IInv'
<1>1. CASE UNCHANGED vars
  <2>1. UNCHANGED <<a, lag, since, allowed, sq, sq_head, sq_tail, inform_phl_ready, timer, frames, event,
                    wire, blocks, rf_buf, rf, given, report, hit>>
    BY <1>1 DEF vars, cvars, avars, bvars
  <2>2. PICK got, low, mid, top : OnTheWay(got, low, mid, top)
    BY DEF IInv
  <2>3. OnTheWay(got, low, mid, top)'
    BY <2>1, <2>2 DEF OnTheWay
  <2>4. Types' /\ Returned' /\ Sampled'
    BY <2>1 DEF IInv, Types, Returned, Sampled
  <2>. QED
    BY <2>3, <2>4 DEF IInv
<1>. QED
  BY <1>1, ConnectsKeeps, TickKeeps, SendFrameKeeps, TurnAKeeps, TurnBKeeps, RecvFrameKeeps DEF Next

\* Between send_frame and recv_frame every byte has one place: those that have
\* been heard, the blocks, the connection, the ring, in this order.
THEOREM PhysicalLayerInvariant == Spec => []IInv
<1>1. Init => IInv
  BY InitIInv
<1>2. IInv /\ [Next]_vars => IInv'
  BY NextIInv
<1>. QED
  BY <1>1, <1>2, PTL DEF Spec

(***************************************************************************)
(* Frames come in order.                                                   *)
(***************************************************************************)
\* A frame that is whole begins with its first nibble.
LEMMA IntactBegins ==
    ASSUME NEW received \in Seq(Nat), Len(received) > 0, NEW f \in Nat \ {0}, intact(received, f)
    PROVE  received[1] = opening(f) + 1
<1>1. PICK L \in Nat \ {0} : L = FrameLen
  BY Sizes
<1>2. PICK l \in Nat : l = length_of(received)
  BY Halves
<1>3. PICK s : s = SubSeq(received, 1, 2 * l)
  OBVIOUS
<1>4. s = [n \in 1 .. 2 * L |-> opening(f) + n]
  BY <1>1, <1>2, <1>3 DEF intact
<1>5. opening(f) \in Nat
  BY Places
<1>6. Len(s) = 2 * L /\ s[1] = opening(f) + 1
  <2>1. s \in Seq(Nat) /\ Len(s) = 2 * L
    BY <1>4, <1>5, Nibbles
  <2>2. 1 \in 1 .. 2 * L
    OBVIOUS
  <2>. QED
    BY <1>4, <2>1, <2>2
<1>7. l > 0
  <2>1. l = 0 => s = <<>>
    BY <1>3, SubSeqEmpty
  <2>2. Len(<<>>) = 0
    OBVIOUS
  <2>. QED
    BY <1>6, <2>1, <2>2
<1>8. s[1] = received[1]
  <2>1. PICK R \in Nat : R = Len(received) /\ l = R \div 2
    BY <1>2 DEF length_of
  <2>2. PICK m \in Nat : m = 2 * l /\ m <= R /\ 1 <= m
    BY <1>7, <2>1
  <2>3. ASSUME NEW k \in 1 .. m PROVE received[k] \in Nat
    <3>1. k \in 1 .. Len(received)
      BY <2>1, <2>2
    <3>. QED
      BY <3>1, ElementOfSeq
  <2>4. \A k \in 1 .. m - 1 + 1 : SubSeq(received, 1, m)[k] = received[1 + k - 1]
    BY <2>3, SubSeqProperties
  <2>5. 1 \in 1 .. m - 1 + 1
    BY <2>2
  <2>6. SubSeq(received, 1, m)[1] = received[1 + 1 - 1]
    BY <2>4, <2>5
  <2>. QED
    BY <1>3, <2>2, <2>6
<1>. QED
  BY <1>6, <1>8

LEMMA InvOrder == IInv => FramesInOrder
<1>. SUFFICES ASSUME IInv, NEW m \in DOMAIN arrived, NEW n \in DOMAIN arrived,
                     NEW f \in 1 .. MaxFrames, NEW g \in 1 .. MaxFrames,
                     m < n, intact(arrived[m], f), intact(arrived[n], g)
              PROVE  f < g
  BY DEF FramesInOrder
<1>1. PICK got, low, mid, top : OnTheWay(got, low, mid, top)
  BY DEF IInv
<1>2. PICK arr \in Seq(Seq(Nat)) : arr = arrived /\ Ordered(rf_buf, arr, got)
  BY <1>1 DEF OnTheWay, Heard, arrived
<1>3. m \in 1 .. Len(arr) /\ n \in 1 .. Len(arr)
  BY <1>2
<1>4. /\ arr[m] \in Seq(Nat) /\ arr[n] \in Seq(Nat)
      /\ Len(arr[m]) > 0 /\ Len(arr[n]) > 0 /\ arr[m][1] < arr[n][1]
  BY <1>2, <1>3 DEF Ordered
<1>5. f \in Nat \ {0} /\ g \in Nat \ {0}
  BY Sizes
<1>6. arr[m][1] = opening(f) + 1 /\ arr[n][1] = opening(g) + 1
  BY <1>2, <1>4, <1>5, IntactBegins
<1>7. PICK x \in Nat, y \in Nat : /\ x = closing(f - 1) /\ opening(f) = x + 1
                                  /\ y = closing(g - 1) /\ opening(g) = y + 1
  BY <1>5, Places
<1>8. x < y
  BY <1>4, <1>6, <1>7
<1>9. ASSUME ~(f < g) PROVE FALSE
  <2>1. g - 1 \in Nat /\ f - 1 \in Nat /\ g - 1 <= f - 1
    BY <1>5, <1>9
  <2>2. closing(g - 1) <= closing(f - 1)
    BY <2>1, PlacesUpTo
  <2>. QED
    BY <1>7, <1>8, <2>2
<1>. QED
  BY <1>9

(***************************************************************************)
(* Frames that noise leaves alone come through.                            *)
(***************************************************************************)
Contents(r, t, h) == {r[(h + k) % SQ_SIZE] : k \in 0 .. ((t + SQ_SIZE - h) % SQ_SIZE) - 1}

\* What the queue holds is the places after mid.
LEMMA QueuedIs ==
    ASSUME NEW bs, NEW w, NEW r, NEW t \in Index, NEW h \in Index, NEW got, NEW low, NEW mid, NEW top,
           Stream(bs, w, r, t, h, got, low, mid, top)
    PROVE  Contents(r, t, h) = mid + 1 .. top
<1>1. PICK n \in Index : n = Long(t, h) /\ (t + SQ_SIZE - h) % SQ_SIZE = n
  BY RingLength
<1>2. /\ mid \in Nat /\ top \in Nat /\ mid + n = top
      /\ \A k \in 0 .. n - 1 : r[Slot(h, k)] = mid + k + 1
  BY <1>1 DEF Stream, Holds
<1>3. n \in Nat
  BY <1>1 DEF Index
<1>4. ASSUME NEW k \in 0 .. n - 1 PROVE r[(h + k) % SQ_SIZE] = mid + k + 1
  <2>1. k \in 0 .. SQ_SIZE
    BY <1>1, Sizes DEF Index
  <2>2. (h + k) % SQ_SIZE = Slot(h, k)
    BY <2>1, SlotIs
  <2>. QED
    BY <1>2, <2>2
<1>5. PICK Q : Q = {r[(h + k) % SQ_SIZE] : k \in 0 .. n - 1}
  OBVIOUS
<1>6. ASSUME NEW p \in Q PROVE p \in mid + 1 .. top
  <2>1. PICK k \in 0 .. n - 1 : p = mid + k + 1
    BY <1>4, <1>5
  <2>. QED
    BY <1>2, <1>3, <2>1
<1>7. ASSUME NEW p \in mid + 1 .. top PROVE p \in Q
  <2>1. PICK k \in 0 .. n - 1 : k = p - mid - 1 /\ p = mid + k + 1
    <3>1. p - mid - 1 \in 0 .. n - 1 /\ p = mid + (p - mid - 1) + 1
      BY <1>2, <1>3
    <3>. QED
      BY <3>1
  <2>. QED
    BY <1>4, <1>5, <2>1
<1>8. Q = mid + 1 .. top
  BY <1>6, <1>7
<1>. QED
  BY <1>1, <1>5, <1>8 DEF Contents

\* Every byte that was sent and not heard is on the way.
LEMMA SentOnTheWay ==
    ASSUME IInv, NEW got, NEW low, NEW mid, NEW top, OnTheWay(got, low, mid, top),
           NEW p \in Nat, got < p, p <= top
    PROVE  p \in on_the_way
<1>1. /\ InBlocks(blocks, got, low) /\ Run(wire, low, mid) /\ blocks \in Seq(Block)
      /\ mid \in Nat /\ top \in Nat
  BY DEF OnTheWay, Stream, IInv, Types
<1>2. CASE p <= low
  <2>1. PICK k \in 1 .. Len(blocks) : p \in ToSet(blocks[k].data)
    BY <1>1, <1>2, SomeBlock
  <2>2. k \in DOMAIN blocks
    BY <1>1
  <2>. QED
    BY <2>1, <2>2 DEF on_the_way
<1>3. CASE low < p /\ p <= mid
  <2>1. PICK w \in Seq(Nat) : w = wire
    BY <1>1 DEF Run
  <2>2. low \in Nat /\ Len(w) = mid - low /\ \A k \in 1 .. mid - low : w[k] = low + k
    BY <1>1, <2>1 DEF Run
  <2>3. PICK k \in 1 .. mid - low : p = low + k
    <3>1. p - low \in 1 .. mid - low /\ p = low + (p - low)
      BY <1>1, <1>3, <2>2
    <3>. QED
      BY <3>1
  <2>4. k \in DOMAIN w /\ w[k] = p
    BY <2>2, <2>3
  <2>5. p \in ToSet(w)
    BY <2>4 DEF ToSet
  <2>. QED
    BY <2>1, <2>5 DEF on_the_way
<1>4. CASE mid < p
  <2>1. p \in mid + 1 .. top
    BY <1>1, <1>4
  <2>2. queued = mid + 1 .. top
    <3>1. sq_head \in Index /\ sq_tail \in Index
      BY DEF IInv, Types
    <3>2. Stream(blocks, wire, sq, sq_tail, sq_head, got, low, mid, top)
      BY DEF OnTheWay
    <3>3. Contents(sq, sq_tail, sq_head) = mid + 1 .. top
      BY <3>1, <3>2, QueuedIs
    <3>. QED
      BY <3>3, Zenon DEF queued, sq_len, Contents
  <2>. QED
    BY <2>1, <2>2 DEF on_the_way
<1>5. low \in Nat
  BY <1>1 DEF Run
<1>. QED
  BY <1>1, <1>2, <1>3, <1>4, <1>5

LEMMA InvResync == IInv => Resynchronises
<1>. SUFFICES ASSUME IInv, NEW f \in 1 .. frames, closing(f) \notin on_the_way,
                     (closing(f - 1) .. closing(f)) \cap hit = {}
              PROVE  \E n \in DOMAIN arrived : intact(arrived[n], f)
  BY DEF Resynchronises
<1>1. PICK got, low, mid, top : OnTheWay(got, low, mid, top)
  BY DEF IInv
<1>2. f \in Nat \ {0} /\ frames \in Nat /\ f \in 1 .. MaxFrames
  BY Sizes DEF IInv, Types
<1>3. PICK c \in Nat : c = closing(f) /\ c <= top
  <2>1. closing(f) \in Nat /\ closing(frames) \in Nat /\ closing(f) <= closing(frames)
    BY <1>2, PlacesUpTo
  <2>2. closing(frames) <= top /\ top \in Nat
    BY <1>1 DEF OnTheWay, Counted, Stream
  <2>. QED
    BY <2>1, <2>2
<1>4. PICK arr \in Seq(Seq(Nat)) : arr = arrived /\ got \in Nat /\ Complete(hit, arr, got)
  BY <1>1 DEF OnTheWay, Heard, arrived
<1>5. ~(got < c)
  BY <1>1, <1>3, SentOnTheWay
<1>6. closing(f) <= got /\ Clean(hit, f, closing(f))
  BY <1>3, <1>4, <1>5 DEF Clean
<1>7. PICK n \in 1 .. Len(arr) : IntactIn(hit, arr[n], f)
  BY <1>2, <1>4, <1>6 DEF Complete
<1>8. n \in DOMAIN arrived
  BY <1>4
<1>. QED
  BY <1>4, <1>7, <1>8 DEF IntactIn, intact

\* The frames that recv_byte finds whole are in the order in which send_frame
\* sent them, and none is found twice, whatever noise does to the others.
THEOREM FramesComeInOrder == Spec => []FramesInOrder
BY PhysicalLayerInvariant, InvOrder, PTL

\* recv_byte finds its way back after noise: a frame all of whose bytes were
\* heard, none of them and not the delimiter before it hit, is handed over.
THEOREM ReceiverResynchronises == Spec => []Resynchronises
BY PhysicalLayerInvariant, InvResync, PTL

(***************************************************************************)
(* Timers last as long as the queue.                                       *)
(***************************************************************************)
LEMMA TimerStep ==
    ASSUME IInv, Next, NEW f \in 1 .. MaxFrames, timer[f] # None, timer'[f] = None,
           since' = 0
    PROVE  closing(f) \notin queued'
<1>1. timer \in [1 .. MaxFrames -> Nat \cup {None}]
  BY DEF IInv, Types
<1>2. CASE TurnA
  <2>1. /\ IInv'
        /\ \E got, low, mid, top :
              /\ OnTheWay(got, low, mid, top)'
              /\ since' = 0 =>
                    \A g \in 1 .. MaxFrames : (timer[g] # None /\ timer'[g] = None) => closing(g) <= mid
    BY <1>2, TurnAKeeps
  <2>2. PICK got, low, mid, top : /\ OnTheWay(got, low, mid, top)'
                                  /\ closing(f) <= mid
    BY <2>1
  <2>3. queued' = mid + 1 .. top
    <3>1. sq_head' \in Index /\ sq_tail' \in Index
      BY <2>1 DEF IInv, Types
    <3>2. Stream(blocks', wire', sq', sq_tail', sq_head', got, low, mid, top)
      BY <2>2 DEF OnTheWay
    <3>3. Contents(sq', sq_tail', sq_head') = mid + 1 .. top
      BY <3>1, <3>2, QueuedIs
    <3>. QED
      BY <3>3, Zenon DEF queued, sq_len, Contents
  <2>4. mid \in Nat /\ top \in Nat
    BY <2>2 DEF OnTheWay, Stream
  <2>5. PICK c \in Nat : c = closing(f)
    BY Sizes, PlacesUpTo
  <2>6. c \notin mid + 1 .. top
    BY <2>2, <2>4, <2>5
  <2>. QED
    BY <2>3, <2>5, <2>6
<1>3. CASE Tick
  <2>1. PICK t \in Nat : t = timer[f]
    BY <1>1
  <2>2. timer'[f] = minus(t, 1)
    BY <1>1, <1>3, <2>1 DEF Tick
  <2>. QED
    BY <2>2, MinusIs, NoneDiffers
<1>4. CASE SendFrame
  BY <1>4, SendFrameKeeps
<1>5. timer' # timer
  OBVIOUS
<1>. QED
  BY <1>2, <1>3, <1>4, <1>5 DEF Next, Connects, TurnB, RecvFrame, avars

\* start_timer allows for what is queued: in a turn that may send, a timer does
\* not expire while its frame is in the ring, however seldom the loop turns.
THEOREM TimersLast == Spec => TimersOutlastQueue
<1>1. IInv /\ [Next]_vars =>
         [since' = 0 =>
             \A f \in 1 .. MaxFrames :
                 (timer[f] # None /\ timer'[f] = None) => closing(f) \notin queued']_vars
  <2>. SUFFICES ASSUME IInv, Next, since' = 0
                PROVE  \A f \in 1 .. MaxFrames :
                          (timer[f] # None /\ timer'[f] = None) => closing(f) \notin queued'
    OBVIOUS
  <2>. QED
    BY TimerStep
<1>. QED
  BY <1>1, PhysicalLayerInvariant, PTL DEF Spec, TimersOutlastQueue
=============================================================================
