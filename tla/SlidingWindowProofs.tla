------------------------- MODULE SlidingWindowProofs -------------------------
(***************************************************************************)
(* Lemmas about SlidingWindow that the proofs of the three protocols       *)
(* share, for any MAX_SEQ and NR_BUFS that WindowSizes allows.             *)
(***************************************************************************)
EXTENDS SlidingWindow, TLAPS, SequenceTheorems

\* There are two stations, each the peer of the other.
LEMMA Peers ==
    \A s \in Station : /\ Peer(s) \in Station
                       /\ Peer(s) # s
                       /\ Peer(Peer(s)) = s
                       /\ \A u \in Station : u = s \/ u = Peer(s)
BY StationsDiffer DEF Station, Peer

LEMMA Sizes ==
    /\ MAX_SEQ \in Nat /\ MAX_SEQ <= 255
    /\ NR_BUFS \in Nat /\ 0 < NR_BUFS /\ NR_BUFS <= MAX_SEQ
    /\ MAX_SEQ + 1 \in Nat \ {0}
BY WindowSizes

(***************************************************************************)
(* Sequence numbers.                                                       *)
(***************************************************************************)

\* Quotient and remainder.
LEMMA Division ==
    ASSUME NEW n \in Nat, NEW m \in Nat \ {0}
    PROVE  /\ n % m \in 0 .. m - 1
           /\ n \div m \in Nat
           /\ n = m * (n \div m) + (n % m)
OBVIOUS

\* A remainder is determined by a quotient that goes with it.
LEMMA DivisionUnique ==
    ASSUME NEW n \in Nat, NEW m \in Nat \ {0}, NEW q \in Nat, NEW r \in 0 .. m - 1,
           n = m * q + r
    PROVE  n % m = r
OBVIOUS

LEMMA NumberType == \A n \in Nat : number(n) \in SeqNr
BY Sizes, Division DEF number, SeqNr

\* From one number to a later one by adding, with one wrap at most.
LEMMA NumberFrom ==
    ASSUME NEW m \in Nat, NEW n \in Nat, m <= n, n - m <= MAX_SEQ
    PROVE  number(n) = IF number(m) + (n - m) <= MAX_SEQ
                       THEN number(m) + (n - m)
                       ELSE number(m) + (n - m) - (MAX_SEQ + 1)
<1>. DEFINE M == MAX_SEQ + 1
            q == m \div M
            r == m % M
<1>1. M \in Nat \ {0}
  BY Sizes
<1>2. r \in 0 .. M - 1 /\ q \in Nat /\ m = M * q + r
  BY <1>1, Division
<1>3. number(m) = r /\ number(n) = n % M
  BY DEF number
<1>4. MAX_SEQ \in Nat /\ MAX_SEQ = M - 1
  BY Sizes
<1>. HIDE DEF M, q, r
<1>5. CASE r + (n - m) <= MAX_SEQ
  <2>1. PICK w \in 0 .. M - 1 : w = r + (n - m)
    BY <1>1, <1>2, <1>4, <1>5
  <2>2. n = M * q + w
    BY <1>1, <1>2, <2>1
  <2>3. n % M = w
    BY <1>1, <1>2, <2>2, DivisionUnique
  <2>. QED
    BY <1>3, <1>5, <2>1, <2>3
<1>6. CASE ~(r + (n - m) <= MAX_SEQ)
  <2>1. PICK w \in 0 .. M - 1 : w = r + (n - m) - M
    BY <1>1, <1>2, <1>4, <1>6
  <2>2. q + 1 \in Nat /\ n = M * (q + 1) + w
    BY <1>1, <1>2, <2>1
  <2>3. n % M = w
    BY <1>1, <2>2, DivisionUnique
  <2>. QED
    BY <1>3, <1>6, <2>1, <2>3 DEF M
<1>. QED
  BY <1>5, <1>6

\* Two counts that are less than MAX_SEQ + 1 apart have the same number only
\* if they are the same.
LEMMA NumberDiffers ==
    ASSUME NEW m \in Nat, NEW n \in Nat, m - n <= MAX_SEQ, n - m <= MAX_SEQ,
           number(m) = number(n)
    PROVE  m = n
<1>1. MAX_SEQ \in Nat /\ number(m) \in 0 .. MAX_SEQ /\ number(n) \in 0 .. MAX_SEQ
  BY Sizes, NumberType DEF SeqNr
<1>2. CASE m <= n
  BY <1>1, <1>2, NumberFrom
<1>3. CASE n <= m
  BY <1>1, <1>3, NumberFrom
<1>. QED
  BY <1>2, <1>3

\* plus moves a count's number as far as it says.
LEMMA PlusNumber ==
    ASSUME NEW m \in Nat, NEW k \in 0 .. MAX_SEQ
    PROVE  plus(number(m), k) = number(m + k)
<1>. DEFINE M == MAX_SEQ + 1
            x == number(m) + k
<1>1. M \in Nat \ {0} /\ number(m) \in 0 .. M - 1 /\ MAX_SEQ = M - 1
  BY Sizes, NumberType DEF SeqNr
<1>2. x \in 0 .. 2 * M - 1
  BY <1>1
<1>3. x % M = IF x < M THEN x ELSE x - M
  <2>. HIDE DEF x, M
  <2>. QED
    BY <1>1, <1>2
<1>4. m + k \in Nat /\ m <= m + k /\ (m + k) - m = k /\ k <= MAX_SEQ
  BY <1>1
<1>5. number(m + k) = IF number(m) + k <= MAX_SEQ THEN number(m) + k
                      ELSE number(m) + k - (MAX_SEQ + 1)
  BY <1>4, NumberFrom
<1>. QED
  BY <1>1, <1>3, <1>5 DEF plus

\* Each packet's buffer is its position modulo NR_BUFS.
LEMMA NumberSlot ==
    ASSUME NEW n \in Nat
    PROVE  /\ number(n) % NR_BUFS = n % NR_BUFS
           /\ number(n) % NR_BUFS \in Slot
<1>. DEFINE M == MAX_SEQ + 1
            k == M \div NR_BUFS
            q == n \div M
            r == n % M
            p == r \div NR_BUFS
            t == r % NR_BUFS
<1>1. M \in Nat \ {0} /\ NR_BUFS \in Nat \ {0} /\ M % NR_BUFS = 0
  BY Sizes, WindowSizes
<1>2. k \in Nat /\ M = NR_BUFS * k + 0
  BY <1>1, Division
<1>3. q \in Nat /\ r \in Nat /\ n = M * q + r
  <2>1. r \in 0 .. M - 1 /\ q \in Nat /\ n = M * q + r
    BY <1>1, Division
  <2>. QED
    BY <1>1, <2>1
<1>4. p \in Nat /\ t \in 0 .. NR_BUFS - 1 /\ r = NR_BUFS * p + t
  BY <1>1, <1>3, Division
<1>5. number(n) % NR_BUFS = t
  BY DEF number
<1>. HIDE DEF M, k, q, r, p, t
<1>6. M * q = NR_BUFS * (k * q)
  BY <1>1, <1>2, <1>3
<1>7. k * q + p \in Nat /\ n = NR_BUFS * (k * q + p) + t
  BY <1>1, <1>2, <1>3, <1>4, <1>6
<1>8. n % NR_BUFS = t
  BY <1>1, <1>4, <1>7, DivisionUnique
<1>. QED
  BY <1>4, <1>5, <1>8 DEF Slot

\* Packets that can be outstanding together have buffers of their own.
LEMMA SlotDiffers ==
    ASSUME NEW m \in Nat, NEW n \in Nat, m < n, n - m < NR_BUFS
    PROVE  number(m) % NR_BUFS # number(n) % NR_BUFS
<1>. DEFINE q == m \div NR_BUFS
            r == m % NR_BUFS
            p == n \div NR_BUFS
            t == n % NR_BUFS
<1>1. NR_BUFS \in Nat \ {0}
  BY Sizes
<1>2. r = number(m) % NR_BUFS /\ t = number(n) % NR_BUFS
  BY NumberSlot
<1>3. /\ q \in Nat /\ r \in 0 .. NR_BUFS - 1 /\ m = NR_BUFS * q + r
      /\ p \in Nat /\ t \in 0 .. NR_BUFS - 1 /\ n = NR_BUFS * p + t
  BY <1>1, Division
<1>. HIDE DEF q, r, p, t
<1>4. ASSUME r = t PROVE FALSE
  <2>1. n - m = NR_BUFS * (p - q)
    BY <1>1, <1>3, <1>4
  <2>2. p - q > 0 /\ p - q \in Int
    BY <1>1, <1>3, <2>1
  <2>3. NR_BUFS * (p - q) >= NR_BUFS
    BY <1>1, <2>2
  <2>. QED
    BY <1>1, <2>1, <2>3
<1>. QED
  BY <1>2, <1>4

\* between compares counts that lie within one round of its first argument.
LEMMA BetweenCounts ==
    ASSUME NEW a \in Nat, NEW b \in Nat, NEW c \in Nat,
           a <= b, b - a <= MAX_SEQ, a <= c, c - a <= MAX_SEQ
    PROVE  between(number(a), number(b), number(c)) <=> b < c
<1>1. MAX_SEQ \in Nat /\ number(a) \in 0 .. MAX_SEQ
  BY Sizes, NumberType DEF SeqNr
<1>2. number(b) = IF number(a) + (b - a) <= MAX_SEQ
                  THEN number(a) + (b - a)
                  ELSE number(a) + (b - a) - (MAX_SEQ + 1)
  BY NumberFrom
<1>3. number(c) = IF number(a) + (c - a) <= MAX_SEQ
                  THEN number(a) + (c - a)
                  ELSE number(a) + (c - a) - (MAX_SEQ + 1)
  BY NumberFrom
<1>. QED
  BY <1>1, <1>2, <1>3 DEF between

\* The acknowledgement of x packets names the last of them.
LEMMA AckNumber ==
    ASSUME NEW x \in Nat
    PROVE  /\ plus(x, MAX_SEQ) = number(x + MAX_SEQ)
           /\ x > 0 => plus(x, MAX_SEQ) = number(x - 1)
<1>. DEFINE M == MAX_SEQ + 1
<1>1. M \in Nat \ {0} /\ MAX_SEQ = M - 1
  BY Sizes
<1>2. plus(x, MAX_SEQ) = (x + MAX_SEQ) % M /\ number(x - 1) = (x - 1) % M
  BY DEF plus, number
<1>3. ASSUME x > 0 PROVE plus(x, MAX_SEQ) = number(x - 1)
  <2>. DEFINE q == (x - 1) \div M
              r == (x - 1) % M
  <2>1. x - 1 \in Nat
    BY <1>3
  <2>2. q \in Nat /\ r \in 0 .. M - 1 /\ x - 1 = M * q + r
    BY <1>1, <2>1, Division
  <2>. HIDE DEF M, q, r
  <2>3. q + 1 \in Nat /\ x + MAX_SEQ \in Nat /\ x + MAX_SEQ = M * (q + 1) + r
    BY <1>1, <2>1, <2>2
  <2>4. (x + MAX_SEQ) % M = r
    BY <1>1, <2>2, <2>3, DivisionUnique
  <2>. QED
    BY <1>2, <2>4 DEF r
<1>. QED
  BY <1>3 DEF plus, number

\* The numbers come round.
LEMMA Round ==
    ASSUME NEW n \in Nat
    PROVE  number(n + (MAX_SEQ + 1)) = number(n)
<1>. DEFINE M == MAX_SEQ + 1
            q == n \div M
            r == n % M
<1>1. M \in Nat \ {0}
  BY Sizes
<1>2. q \in Nat /\ r \in 0 .. M - 1 /\ n = M * q + r
  BY <1>1, Division
<1>3. number(n + M) = (n + M) % M /\ number(n) = r
  BY DEF number
<1>. HIDE DEF M, q, r
<1>4. q + 1 \in Nat /\ n + M \in Nat /\ n + M = M * (q + 1) + r
  BY <1>1, <1>2
<1>5. (n + M) % M = r
  BY <1>1, <1>2, <1>4, DivisionUnique
<1>6. number(n + M) = number(n)
  BY <1>3, <1>5
<1>. QED
  BY <1>6 DEF M

\* The number after the one that acknowledges x packets is that of the next.
LEMMA AfterAck ==
    ASSUME NEW x \in Nat
    PROVE  inc(plus(x, MAX_SEQ)) = number(x)
<1>1. MAX_SEQ \in Nat /\ 1 \in 0 .. MAX_SEQ
  BY Sizes
<1>2. PICK n \in Nat : n = x + MAX_SEQ
  BY <1>1
<1>3. inc(plus(x, MAX_SEQ)) = number(n + 1)
  BY <1>1, <1>2, AckNumber, PlusNumber DEF inc
<1>4. n + 1 = x + (MAX_SEQ + 1)
  BY <1>1, <1>2
<1>. QED
  BY <1>3, <1>4, Round

\* Acknowledgements that can be on their way together and say the same are
\* the same.
LEMMA AcksDiffer ==
    ASSUME NEW x \in Nat, NEW y \in Nat, x - y <= MAX_SEQ, y - x <= MAX_SEQ,
           plus(x, MAX_SEQ) = plus(y, MAX_SEQ)
    PROVE  x = y
<1>1. number(x + MAX_SEQ) = number(y + MAX_SEQ) /\ MAX_SEQ \in Nat
  BY AckNumber, Sizes
<1>2. x + MAX_SEQ = y + MAX_SEQ
  <2>1. PICK m \in Nat : m = x + MAX_SEQ
    BY <1>1
  <2>2. PICK n \in Nat : n = y + MAX_SEQ
    BY <1>1
  <2>3. m - n <= MAX_SEQ /\ n - m <= MAX_SEQ /\ number(m) = number(n)
    BY <1>1, <2>1, <2>2
  <2>4. m = n
    BY <2>3, NumberDiffers
  <2>. QED
    BY <2>1, <2>2, <2>4
<1>. QED
  BY <1>1, <1>2

\* The loop of process_ack frees the frames up to the one acknowledged.
LEMMA FreedBy ==
    ASSUME NEW s, NEW a \in Nat, NEW n \in Nat, n <= NR_BUFS,
           nbuffered[s] = n, ack_expected[s] = number(a),
           next_frame_to_send[s] = number(a + n),
           NEW x \in a .. a + n, NEW ack, ack = plus(x, MAX_SEQ)
    PROVE  freed_by(s, ack) = x - a
<1>1. /\ MAX_SEQ \in Nat /\ NR_BUFS \in Nat /\ NR_BUFS <= MAX_SEQ
      /\ x \in Nat /\ x - a \in 0 .. n
  BY Sizes
<1>2. ASSUME NEW i \in 0 .. n - 1
      PROVE  plus(ack_expected[s], i) = number(a + i)
  <2>1. i \in 0 .. MAX_SEQ
    BY <1>1
  <2>. QED
    BY <2>1, PlusNumber
<1>3. ASSUME NEW i \in 0 .. (x - a) - 1 PROVE covered(s, i, ack)
  <2>1. PICK b \in Nat : b = a + i
    BY <1>1
  <2>2. PICK l \in Nat : l = x - 1
    BY <1>1
  <2>3. PICK c \in Nat : c = a + n
    OBVIOUS
  <2>4. /\ b <= l /\ l - b <= MAX_SEQ /\ b <= c /\ c - b <= MAX_SEQ /\ l < c
        /\ i \in 0 .. n - 1 /\ x > 0
    BY <1>1, <2>1, <2>2, <2>3
  <2>5. between(number(b), number(l), number(c))
    BY <2>4, BetweenCounts
  <2>6. ack = number(l)
    BY <1>1, <2>2, <2>4, AckNumber
  <2>7. plus(ack_expected[s], i) = number(b)
    BY <1>2, <2>1, <2>4
  <2>. QED
    BY <2>3, <2>4, <2>5, <2>6, <2>7 DEF covered
<1>4. ~covered(s, x - a, ack)
  <2>1. CASE x - a = n
    BY <2>1 DEF covered
  <2>2. CASE x - a # n
    <3>1. PICK l \in Nat : l = x + MAX_SEQ
      BY <1>1
    <3>2. PICK c \in Nat : c = a + n
      OBVIOUS
    <3>3. /\ x <= l /\ l - x <= MAX_SEQ /\ x <= c /\ c - x <= MAX_SEQ /\ ~(l < c)
          /\ x - a \in 0 .. n - 1 /\ a + (x - a) = x
      BY <1>1, <2>2, <3>1, <3>2
    <3>4. ~between(number(x), number(l), number(c))
      BY <1>1, <3>3, BetweenCounts
    <3>5. ack = number(l)
      BY <1>1, <3>1, AckNumber
    <3>6. plus(ack_expected[s], x - a) = number(x)
      BY <1>2, <3>3
    <3>. QED
      BY <3>2, <3>4, <3>5, <3>6 DEF covered
  <2>. QED
    BY <2>1, <2>2
<1>. DEFINE Turns(k) == /\ ~covered(s, k, ack)
                        /\ \A i \in 0 .. k - 1 : covered(s, i, ack)
<1>5. Turns(x - a)
  BY <1>3, <1>4
<1>6. ASSUME NEW k \in 0 .. n, Turns(k) PROVE k = x - a
  <2>1. CASE k < x - a
    <3>1. k \in 0 .. (x - a) - 1
      BY <1>1, <2>1
    <3>. QED
      BY <1>3, <1>6, <3>1
  <2>2. CASE k > x - a
    <3>1. x - a \in 0 .. k - 1
      BY <1>1, <2>2
    <3>. QED
      BY <1>4, <1>6, <3>1
  <2>. QED
    BY <1>1, <2>1, <2>2
<1>7. freed_by(s, ack) = CHOOSE k \in 0 .. n : Turns(k)
  BY DEF freed_by
<1>. HIDE DEF Turns
<1>. QED
  BY <1>1, <1>5, <1>6, <1>7

(***************************************************************************)
(* Frames in transit.                                                      *)
(***************************************************************************)
LEMMA TailIs ==
    ASSUME NEW F, NEW fs \in Seq(F), fs # <<>>
    PROVE  /\ Tail(fs) \in Seq(F) /\ Head(fs) \in F /\ Head(fs) = fs[1]
           /\ Len(fs) \in Nat /\ Len(fs) >= 1
           /\ Len(Tail(fs)) = Len(fs) - 1
           /\ \A i \in 1 .. Len(fs) - 1 : Tail(fs)[i] = fs[i + 1]
BY HeadTailProperties, EmptySeq, LenProperties

LEMMA ConcatIs ==
    ASSUME NEW F, NEW fs \in Seq(F), NEW gs \in Seq(F), NEW hs, hs = fs \o gs
    PROVE  /\ hs \in Seq(F)
           /\ Len(fs) \in Nat /\ Len(gs) \in Nat
           /\ Len(hs) = Len(fs) + Len(gs)
           /\ \A i \in 1 .. Len(fs) : hs[i] = fs[i]
           /\ \A i \in 1 .. Len(hs) : i > Len(fs) =>
                 hs[i] = gs[i - Len(fs)] /\ i - Len(fs) \in 1 .. Len(gs)
<1>1. Len(fs) \in Nat /\ Len(gs) \in Nat
  BY LenProperties
<1>2. /\ hs \in Seq(F)
      /\ Len(hs) = Len(fs) + Len(gs)
      /\ \A i \in 1 .. Len(fs) + Len(gs) :
            hs[i] = IF i <= Len(fs) THEN fs[i] ELSE gs[i - Len(fs)]
  BY ConcatProperties
<1>. QED
  BY <1>1, <1>2

\* The first data frame, and what is left when it has arrived.
LEMMA DataTaken ==
    ASSUME NEW F, NEW fs \in Seq(F), fs # <<>>,
           NEW sent, NEW had, DataInOrder(fs, sent, had)
    PROVE  /\ DataInOrder(Tail(fs), sent, had)
           /\ Head(fs).kind = "DATA" =>
                 /\ Head(fs).pkt \in 1 .. sent
                 /\ Head(fs).seq = number(Head(fs).pkt - 1)
                 /\ had < Head(fs).pkt + NR_BUFS
                 /\ \A j \in 1 .. Len(Tail(fs)) : Tail(fs)[j].kind = "DATA" =>
                       Head(fs).pkt < Tail(fs)[j].pkt + NR_BUFS
<1>1. /\ Head(fs) = fs[1] /\ Len(fs) \in Nat /\ Len(fs) >= 1
      /\ Len(Tail(fs)) = Len(fs) - 1
      /\ \A i \in 1 .. Len(fs) - 1 : Tail(fs)[i] = fs[i + 1]
  BY TailIs
<1>. DEFINE gs == Tail(fs)
<1>2. \A i \in 1 .. Len(gs) : gs[i] = fs[i + 1] /\ i + 1 \in 1 .. Len(fs)
  BY <1>1
<1>3. \A i \in 1 .. Len(gs) : \A j \in i + 1 .. Len(gs) :
         j \in 1 .. Len(gs) /\ j + 1 \in i + 1 + 1 .. Len(fs)
  BY <1>1
<1>4. \A j \in 1 .. Len(gs) : j + 1 \in 1 + 1 .. Len(fs)
  BY <1>1
<1>5. 1 \in 1 .. Len(fs)
  BY <1>1
<1>. HIDE DEF gs
<1>6. DataInOrder(gs, sent, had)
  BY <1>2, <1>3 DEF DataInOrder
<1>7. Head(fs).kind = "DATA" =>
         /\ Head(fs).pkt \in 1 .. sent
         /\ Head(fs).seq = number(Head(fs).pkt - 1)
         /\ had < Head(fs).pkt + NR_BUFS
         /\ \A j \in 1 .. Len(gs) : gs[j].kind = "DATA" =>
               Head(fs).pkt < gs[j].pkt + NR_BUFS
  BY <1>1, <1>2, <1>4, <1>5 DEF DataInOrder
<1>. QED
  BY <1>6, <1>7 DEF gs

\* The receiver has had more, but nothing that makes a frame too old.
LEMMA DataHad ==
    ASSUME NEW fs, NEW sent, NEW had, DataInOrder(fs, sent, had), NEW more,
           \A j \in 1 .. Len(fs) : fs[j].kind = "DATA" => more < fs[j].pkt + NR_BUFS
    PROVE  DataInOrder(fs, sent, more)
BY DEF DataInOrder

\* Frames that are sent carry packets of the window.
LEMMA DataPut ==
    ASSUME NEW F, NEW fs \in Seq(F), NEW gs \in Seq(F),
           NEW sent \in Nat, NEW had \in Nat, DataInOrder(fs, sent, had),
           NEW more \in Nat, sent <= more, had <= more,
           \A i \in 1 .. Len(gs) : gs[i].kind = "DATA" =>
              /\ gs[i].pkt \in 1 .. more
              /\ gs[i].seq = number(gs[i].pkt - 1)
              /\ more < gs[i].pkt + NR_BUFS
    PROVE  DataInOrder(fs \o gs, more, had)
<1>. DEFINE hs == fs \o gs
<1>1. /\ Len(fs) \in Nat /\ Len(gs) \in Nat
      /\ Len(hs) = Len(fs) + Len(gs)
      /\ \A i \in 1 .. Len(fs) : hs[i] = fs[i]
      /\ \A i \in 1 .. Len(hs) : i > Len(fs) =>
            hs[i] = gs[i - Len(fs)] /\ i - Len(fs) \in 1 .. Len(gs)
  BY ConcatIs
<1>2. NR_BUFS \in Nat
  BY Sizes
<1>. HIDE DEF hs
<1>3. ASSUME NEW i \in 1 .. Len(hs), hs[i].kind = "DATA"
      PROVE  /\ hs[i].pkt \in 1 .. more
             /\ hs[i].seq = number(hs[i].pkt - 1)
             /\ had < hs[i].pkt + NR_BUFS
             /\ i > Len(fs) => more < hs[i].pkt + NR_BUFS
             /\ i <= Len(fs) => hs[i].pkt \in 1 .. sent
  <2>1. CASE i <= Len(fs)
    <3>1. i \in 1 .. Len(fs) /\ hs[i] = fs[i]
      BY <1>1, <2>1
    <3>2. /\ hs[i].pkt \in 1 .. sent
          /\ hs[i].seq = number(hs[i].pkt - 1)
          /\ had < hs[i].pkt + NR_BUFS
      BY <1>3, <3>1 DEF DataInOrder
    <3>. QED
      BY <1>1, <2>1, <3>2
  <2>2. CASE i > Len(fs)
    <3>1. /\ hs[i].pkt \in 1 .. more
          /\ hs[i].seq = number(hs[i].pkt - 1)
          /\ more < hs[i].pkt + NR_BUFS
      BY <1>1, <1>3, <2>2
    <3>2. had < hs[i].pkt + NR_BUFS
      BY <1>2, <3>1
    <3>. QED
      BY <1>1, <2>2, <3>1, <3>2
  <2>. QED
    BY <1>1, <2>1, <2>2
<1>4. ASSUME NEW i \in 1 .. Len(hs), hs[i].kind = "DATA",
             NEW j \in i + 1 .. Len(hs), hs[j].kind = "DATA"
      PROVE  hs[i].pkt < hs[j].pkt + NR_BUFS
  <2>1. j \in 1 .. Len(hs) /\ i \in 1 .. Len(hs) /\ j > i
    BY <1>1
  <2>2. CASE j <= Len(fs)
    <3>1. /\ i \in 1 .. Len(fs) /\ j \in i + 1 .. Len(fs) /\ j \in 1 .. Len(fs)
          /\ hs[i] = fs[i] /\ hs[j] = fs[j]
      BY <1>1, <2>1, <2>2
    <3>. QED
      BY <1>4, <3>1 DEF DataInOrder
  <2>3. CASE j > Len(fs)
    <3>1. more < hs[j].pkt + NR_BUFS /\ hs[j].pkt \in 1 .. more
      BY <1>3, <1>4, <2>1, <2>3
    <3>2. hs[i].pkt \in 1 .. more
      BY <1>3, <1>4
    <3>3. PICK x, y : x = hs[i].pkt /\ y = hs[j].pkt
      OBVIOUS
    <3>4. x \in 1 .. more /\ y \in 1 .. more /\ more < y + NR_BUFS
      BY <3>1, <3>2, <3>3
    <3>5. x < y + NR_BUFS
      BY <3>4, Sizes
    <3>. QED
      BY <3>3, <3>5
  <2>. QED
    BY <1>1, <2>1, <2>2, <2>3
<1>5. DataInOrder(hs, more, had)
  BY <1>3, <1>4 DEF DataInOrder
<1>. QED
  BY <1>5 DEF hs

\* One frame sent is a sequence of one.
LEMMA OneFrame ==
    ASSUME NEW F, NEW f \in F
    PROVE  /\ <<f>> \in Seq(F) /\ Len(<<f>>) = 1 /\ <<f>> # <<>>
           /\ \A i \in 1 .. Len(<<f>>) : <<f>>[i] = f
OBVIOUS

\* The frame of a new packet.
LEMMA NewDataPut ==
    ASSUME NEW F, NEW fs \in Seq(F), NEW f \in F,
           NEW sent \in Nat, NEW had \in Nat, had <= sent,
           DataInOrder(fs, sent, had),
           f.pkt = sent + 1, f.seq = number(sent)
    PROVE  DataInOrder(fs \o <<f>>, sent + 1, had)
<1>. DEFINE gs == <<f>>
<1>1. gs \in Seq(F) /\ \A i \in 1 .. Len(gs) : gs[i] = f
  BY OneFrame
<1>. HIDE DEF gs
<1>2. /\ sent + 1 \in Nat /\ sent <= sent + 1 /\ had <= sent + 1
      /\ (sent + 1) - 1 = sent
      /\ sent + 1 \in 1 .. sent + 1 /\ sent + 1 < (sent + 1) + NR_BUFS
  BY Sizes
<1>3. \A i \in 1 .. Len(gs) : gs[i].kind = "DATA" =>
            /\ gs[i].pkt \in 1 .. sent + 1
            /\ gs[i].seq = number(gs[i].pkt - 1)
            /\ sent + 1 < gs[i].pkt + NR_BUFS
  BY <1>1, <1>2
<1>4. DataInOrder(fs \o gs, sent + 1, had)
  BY <1>1, <1>2, <1>3, DataPut
<1>. QED
  BY <1>4 DEF gs

\* The first acknowledgement, and what is left when it has arrived.
LEMMA AcksTaken ==
    ASSUME NEW F, NEW fs \in Seq(F), fs # <<>>, NEW kinds,
           NEW acked \in Nat, NEW had \in Nat, had - acked <= MAX_SEQ,
           AcksInOrder(fs, kinds, acked, had)
    PROVE  /\ AcksInOrder(Tail(fs), kinds, acked, had)
           /\ Head(fs).kind \in kinds => \E x \in acked .. had :
                 /\ Head(fs).ack = plus(x, MAX_SEQ)
                 /\ AcksInOrder(Tail(fs), kinds, x, had)
<1>. DEFINE gs == Tail(fs)
<1>1. /\ Head(fs) = fs[1] /\ Len(fs) \in Nat /\ Len(fs) >= 1
      /\ Len(gs) = Len(fs) - 1
      /\ \A i \in 1 .. Len(fs) - 1 : gs[i] = fs[i + 1]
  BY TailIs
<1>2. \A i \in 1 .. Len(gs) :
         /\ gs[i] = fs[i + 1]
         /\ i + 1 \in 1 .. Len(fs) /\ i + 1 \in 1 + 1 .. Len(fs)
  BY <1>1
<1>3. \A i \in 1 .. Len(gs) : \A j \in i + 1 .. Len(gs) :
         j \in 1 .. Len(gs) /\ j + 1 \in i + 1 + 1 .. Len(fs)
  BY <1>1
<1>4. 1 \in 1 .. Len(fs)
  BY <1>1
<1>. HIDE DEF gs
<1>5. AcksInOrder(gs, kinds, acked, had)
  <2>1. ASSUME NEW i \in 1 .. Len(gs), gs[i].kind \in kinds
        PROVE  \E z \in acked .. had :
                  /\ gs[i].ack = plus(z, MAX_SEQ)
                  /\ \A j \in i + 1 .. Len(gs) : gs[j].kind \in kinds =>
                        \E y \in z .. had : gs[j].ack = plus(y, MAX_SEQ)
    <3>1. PICK z \in acked .. had :
             /\ fs[i + 1].ack = plus(z, MAX_SEQ)
             /\ \A j \in i + 1 + 1 .. Len(fs) : fs[j].kind \in kinds =>
                   \E y \in z .. had : fs[j].ack = plus(y, MAX_SEQ)
      BY <1>2, <2>1 DEF AcksInOrder
    <3>2. \A j \in i + 1 .. Len(gs) : gs[j].kind \in kinds =>
             \E y \in z .. had : gs[j].ack = plus(y, MAX_SEQ)
      BY <1>2, <1>3, <3>1
    <3>. QED
      BY <1>2, <3>1, <3>2
  <2>. QED
    BY <2>1 DEF AcksInOrder
<1>6. ASSUME Head(fs).kind \in kinds
      PROVE  \E x \in acked .. had : /\ Head(fs).ack = plus(x, MAX_SEQ)
                                     /\ AcksInOrder(gs, kinds, x, had)
  <2>1. PICK x \in acked .. had :
           /\ fs[1].ack = plus(x, MAX_SEQ)
           /\ \A j \in 1 + 1 .. Len(fs) : fs[j].kind \in kinds =>
                 \E y \in x .. had : fs[j].ack = plus(y, MAX_SEQ)
    BY <1>1, <1>4, <1>6 DEF AcksInOrder
  <2>2. ASSUME NEW i \in 1 .. Len(gs), gs[i].kind \in kinds
        PROVE  \E z \in x .. had :
                  /\ gs[i].ack = plus(z, MAX_SEQ)
                  /\ \A j \in i + 1 .. Len(gs) : gs[j].kind \in kinds =>
                        \E y \in z .. had : gs[j].ack = plus(y, MAX_SEQ)
    <3>1. PICK z \in acked .. had :
             /\ gs[i].ack = plus(z, MAX_SEQ)
             /\ \A j \in i + 1 .. Len(gs) : gs[j].kind \in kinds =>
                   \E y \in z .. had : gs[j].ack = plus(y, MAX_SEQ)
      BY <1>5, <2>2 DEF AcksInOrder
    <3>2. PICK y \in x .. had : gs[i].ack = plus(y, MAX_SEQ)
      BY <1>2, <2>1, <2>2
    <3>3. y = z
      <4>1. /\ y \in Nat /\ z \in Nat /\ y - z <= MAX_SEQ /\ z - y <= MAX_SEQ
            /\ plus(y, MAX_SEQ) = plus(z, MAX_SEQ)
        BY <2>1, <3>1, <3>2, Sizes
      <4>. QED
        BY <4>1, AcksDiffer
    <3>. QED
      BY <3>1, <3>2, <3>3
  <2>3. AcksInOrder(gs, kinds, x, had)
    BY <2>2 DEF AcksInOrder
  <2>. QED
    BY <1>1, <2>1, <2>3
<1>. QED
  BY <1>5, <1>6 DEF gs

LEMMA AcksHad ==
    ASSUME NEW fs, NEW kinds, NEW acked \in Nat, NEW had \in Nat,
           AcksInOrder(fs, kinds, acked, had), NEW more \in Nat, had <= more
    PROVE  AcksInOrder(fs, kinds, acked, more)
<1>1. \A x \in Nat : \A z \in x .. had : z \in x .. more
  OBVIOUS
<1>2. ASSUME NEW i \in 1 .. Len(fs), fs[i].kind \in kinds
      PROVE  \E x \in acked .. more :
                /\ fs[i].ack = plus(x, MAX_SEQ)
                /\ \A j \in i + 1 .. Len(fs) : fs[j].kind \in kinds =>
                      \E y \in x .. more : fs[j].ack = plus(y, MAX_SEQ)
  <2>1. PICK x \in acked .. had :
           /\ fs[i].ack = plus(x, MAX_SEQ)
           /\ \A j \in i + 1 .. Len(fs) : fs[j].kind \in kinds =>
                 \E y \in x .. had : fs[j].ack = plus(y, MAX_SEQ)
    BY <1>2 DEF AcksInOrder
  <2>2. x \in acked .. more /\ x \in Nat
    BY <1>1
  <2>. QED
    BY <1>1, <2>1, <2>2
<1>. QED
  BY <1>2 DEF AcksInOrder

\* Frames that are sent say how many packets their sender has had.
LEMMA AcksPut ==
    ASSUME NEW F, NEW fs \in Seq(F), NEW gs \in Seq(F), NEW kinds,
           NEW acked \in Nat, NEW had \in Nat, acked <= had,
           AcksInOrder(fs, kinds, acked, had),
           \A i \in 1 .. Len(gs) : gs[i].kind \in kinds =>
              gs[i].ack = plus(had, MAX_SEQ)
    PROVE  AcksInOrder(fs \o gs, kinds, acked, had)
<1>. DEFINE hs == fs \o gs
<1>1. /\ Len(fs) \in Nat /\ Len(gs) \in Nat
      /\ Len(hs) = Len(fs) + Len(gs)
      /\ \A i \in 1 .. Len(fs) : hs[i] = fs[i]
      /\ \A i \in 1 .. Len(hs) : i > Len(fs) =>
            hs[i] = gs[i - Len(fs)] /\ i - Len(fs) \in 1 .. Len(gs)
  BY ConcatIs
<1>. HIDE DEF hs
<1>2. ASSUME NEW j \in 1 .. Len(hs), j > Len(fs), hs[j].kind \in kinds
      PROVE  hs[j].ack = plus(had, MAX_SEQ)
  BY <1>1, <1>2
<1>3. ASSUME NEW i \in 1 .. Len(hs), hs[i].kind \in kinds
      PROVE  \E x \in acked .. had :
                /\ hs[i].ack = plus(x, MAX_SEQ)
                /\ \A j \in i + 1 .. Len(hs) : hs[j].kind \in kinds =>
                      \E y \in x .. had : hs[j].ack = plus(y, MAX_SEQ)
  <2>1. \A j \in i + 1 .. Len(hs) : j \in 1 .. Len(hs)
    BY <1>1
  <2>2. CASE i <= Len(fs)
    <3>1. i \in 1 .. Len(fs) /\ hs[i] = fs[i]
      BY <1>1, <2>2
    <3>2. PICK x \in acked .. had :
             /\ fs[i].ack = plus(x, MAX_SEQ)
             /\ \A j \in i + 1 .. Len(fs) : fs[j].kind \in kinds =>
                   \E y \in x .. had : fs[j].ack = plus(y, MAX_SEQ)
      BY <1>3, <3>1 DEF AcksInOrder
    <3>3. ASSUME NEW j \in i + 1 .. Len(hs), hs[j].kind \in kinds
          PROVE  \E y \in x .. had : hs[j].ack = plus(y, MAX_SEQ)
      <4>1. CASE j <= Len(fs)
        <5>1. j \in i + 1 .. Len(fs) /\ j \in 1 .. Len(fs) /\ hs[j] = fs[j]
          BY <1>1, <4>1
        <5>. QED
          BY <3>2, <3>3, <5>1
      <4>2. CASE j > Len(fs)
        <5>1. hs[j].ack = plus(had, MAX_SEQ)
          BY <1>2, <2>1, <3>3, <4>2
        <5>2. had \in x .. had
          OBVIOUS
        <5>. QED
          BY <5>1, <5>2
      <4>. QED
        BY <1>1, <4>1, <4>2
    <3>. QED
      BY <3>1, <3>2, <3>3
  <2>3. CASE i > Len(fs)
    <3>1. hs[i].ack = plus(had, MAX_SEQ)
      BY <1>2, <1>3, <2>3
    <3>2. ASSUME NEW j \in i + 1 .. Len(hs), hs[j].kind \in kinds
          PROVE  \E y \in had .. had : hs[j].ack = plus(y, MAX_SEQ)
      <4>1. hs[j].ack = plus(had, MAX_SEQ)
        <5>1. j > Len(fs) /\ j \in 1 .. Len(hs)
          BY <1>1, <2>3
        <5>. QED
          BY <1>2, <3>2, <5>1
      <4>2. had \in had .. had
        OBVIOUS
      <4>. QED
        BY <4>1, <4>2
    <3>3. had \in acked .. had
      OBVIOUS
    <3>4. \A j \in i + 1 .. Len(hs) : hs[j].kind \in kinds =>
             \E y \in had .. had : hs[j].ack = plus(y, MAX_SEQ)
      BY <3>2
    <3>. QED
      BY <3>1, <3>3, <3>4, Zenon
  <2>4. i <= Len(fs) \/ i > Len(fs)
    BY <1>1
  <2>. QED
    BY <2>2, <2>3, <2>4, Zenon
<1>4. AcksInOrder(hs, kinds, acked, had)
  BY <1>3 DEF AcksInOrder
<1>. QED
  BY <1>4 DEF hs

LEMMA NothingInTransit ==
    ASSUME NEW sent, NEW had, NEW kinds, NEW acked
    PROVE  DataInOrder(<<>>, sent, had) /\ AcksInOrder(<<>>, kinds, acked, had)
BY DEF DataInOrder, AcksInOrder

(***************************************************************************)
(* The window of one station, and what the functions that the protocols    *)
(* share do to it.                                                         *)
(***************************************************************************)
WindowTypes ==
    /\ WindowTypeOK
    /\ pkt_no \in [Station -> Nat]
    /\ rpackets \in [Station -> Nat]
    /\ timer \in [Station -> SUBSET SeqNr]

\* EdgesAreCounts, for the direction in which s sends.
WindowIs(s) ==
    /\ nbuffered[s] <= NR_BUFS /\ nbuffered[s] <= pkt_no[s]
    /\ ack_expected[s] = number(Acknowledged(s))
    /\ next_frame_to_send[s] = number(pkt_no[s])
    /\ frame_expected[Peer(s)] = number(rpackets[Peer(s)])
    /\ Acknowledged(s) <= rpackets[Peer(s)]
    /\ rpackets[Peer(s)] <= pkt_no[s]
    /\ \A n \in Acknowledged(s) .. pkt_no[s] - 1 :
          out_buf[s][number(n) % NR_BUFS] = n + 1

TimersAre(s) == timer[s] = {number(n) : n \in Acknowledged(s) .. pkt_no[s] - 1}

OpenIfActive(s) == network_layer_active[s] => room(nbuffered[s])

LEMMA WindowParts ==
    EdgesAreCounts <=> \A s \in Station : WindowIs(s) /\ OpenIfActive(s)
BY Peers DEF EdgesAreCounts, WindowIs, OpenIfActive

LEMMA WindowPartsNext ==
    EdgesAreCounts' <=> \A s \in Station : WindowIs(s)' /\ OpenIfActive(s)'
BY Peers DEF EdgesAreCounts, WindowIs, OpenIfActive

\* The numbers of n frames from count a on, the last of them count z.
LEMMA NumbersFrom ==
    ASSUME NEW a \in Nat, NEW n \in Nat, n <= MAX_SEQ,
           NEW z, z = a + n - 1
    PROVE  /\ \A i \in 0 .. n - 1 :
                 a + i \in a .. z /\ plus(number(a), i) = number(a + i)
           /\ \A k \in a .. z :
                 k - a \in 0 .. n - 1 /\ plus(number(a), k - a) = number(k)
<1>1. MAX_SEQ \in Nat
  BY Sizes
<1>2. ASSUME NEW i \in 0 .. n - 1
      PROVE  a + i \in a .. z /\ plus(number(a), i) = number(a + i)
  <2>1. i \in 0 .. MAX_SEQ /\ a + i \in a .. z
    BY <1>1
  <2>. QED
    BY <2>1, PlusNumber
<1>3. ASSUME NEW k \in a .. z
      PROVE  k - a \in 0 .. n - 1 /\ plus(number(a), k - a) = number(k)
  <2>1. k - a \in 0 .. MAX_SEQ /\ k - a \in 0 .. n - 1 /\ a + (k - a) = k
    BY <1>1
  <2>2. plus(number(a), k - a) = number(k)
    BY <2>1, PlusNumber
  <2>. QED
    BY <2>1, <2>2
<1>. QED
  BY <1>2, <1>3

LEMMA CountsAre ==
    ASSUME WindowTypes, NEW s \in Station, WindowIs(s)
    PROVE  /\ Peer(s) \in Station
           /\ pkt_no[s] \in Nat /\ nbuffered[s] \in Nat
           /\ Acknowledged(s) \in Nat /\ rpackets[Peer(s)] \in Nat
           /\ Acknowledged(s) + nbuffered[s] = pkt_no[s]
           /\ pkt_no[s] <= Acknowledged(s) + NR_BUFS
           /\ rpackets[Peer(s)] \in Acknowledged(s) .. pkt_no[s]
           /\ rpackets[Peer(s)] - Acknowledged(s) <= MAX_SEQ
<1>1. Peer(s) \in Station
  BY Peers
<1>2. /\ pkt_no[s] \in Nat /\ nbuffered[s] \in 0 .. 255
      /\ rpackets[Peer(s)] \in Nat
  BY <1>1 DEF WindowTypes, WindowTypeOK
<1>3. /\ Acknowledged(s) = pkt_no[s] - nbuffered[s]
      /\ nbuffered[s] <= NR_BUFS /\ nbuffered[s] <= pkt_no[s]
      /\ Acknowledged(s) <= rpackets[Peer(s)]
      /\ rpackets[Peer(s)] <= pkt_no[s]
  BY DEF WindowIs, Acknowledged
<1>. DEFINE a == Acknowledged(s)
            p == pkt_no[s]
            n == nbuffered[s]
            r == rpackets[Peer(s)]
<1>4. /\ p \in Nat /\ n \in 0 .. 255 /\ r \in Nat /\ a = p - n
      /\ n <= NR_BUFS /\ n <= p /\ a <= r /\ r <= p
      /\ NR_BUFS \in Nat /\ MAX_SEQ \in Nat /\ NR_BUFS <= MAX_SEQ
  BY <1>2, <1>3, Sizes
<1>. HIDE DEF a, p, n, r
<1>5. /\ n \in Nat /\ a \in Nat /\ a + n = p /\ p <= a + NR_BUFS
      /\ r \in a .. p /\ r - a <= MAX_SEQ
  BY <1>4
<1>. QED
  BY <1>1, <1>4, <1>5 DEF a, p, n, r

\* TimersMatchWindow counts from the lower edge.
LEMMA TimersCounted ==
    ASSUME WindowTypes, NEW s \in Station, WindowIs(s)
    PROVE  {plus(ack_expected[s], i) : i \in 0 .. nbuffered[s] - 1}
             = {number(n) : n \in Acknowledged(s) .. pkt_no[s] - 1}
<1>1. /\ Acknowledged(s) \in Nat /\ nbuffered[s] \in Nat
      /\ Acknowledged(s) + nbuffered[s] = pkt_no[s]
      /\ nbuffered[s] <= MAX_SEQ
      /\ ack_expected[s] = number(Acknowledged(s))
  BY CountsAre, Sizes DEF WindowIs
<1>2. pkt_no[s] - 1 = Acknowledged(s) + nbuffered[s] - 1
  BY <1>1
<1>. DEFINE a == Acknowledged(s)
            z == pkt_no[s] - 1
            n == nbuffered[s]
<1>3. a \in Nat /\ n \in Nat /\ n <= MAX_SEQ /\ z = a + n - 1
  BY <1>1, <1>2
<1>. HIDE DEF a, z, n
<1>4. /\ \A i \in 0 .. n - 1 :
            a + i \in a .. z /\ plus(number(a), i) = number(a + i)
      /\ \A k \in a .. z :
            k - a \in 0 .. n - 1 /\ plus(number(a), k - a) = number(k)
  BY <1>3, NumbersFrom
<1>5. {plus(number(a), i) : i \in 0 .. n - 1} = {number(k) : k \in a .. z}
  BY <1>4
<1>. QED
  BY <1>1, <1>5 DEF a, z, n

\* A packet is taken into the window.
LEMMA TookPacket ==
    ASSUME WindowTypes, NEW s \in Station, WindowIs(s), TimersAre(s),
           room(nbuffered[s]), take_packet(s),
           timer' = [timer EXCEPT ![s] = @ \cup {next_frame_to_send[s]}],
           UNCHANGED <<rpackets, ack_expected, frame_expected>>
    PROVE  /\ WindowTypes'
           /\ WindowIs(s)' /\ TimersAre(s)'
           /\ pkt_no'[s] = pkt_no[s] + 1 /\ nbuffered'[s] = nbuffered[s] + 1
           /\ Acknowledged(s)' = Acknowledged(s)
<1>. DEFINE a == Acknowledged(s)
            p == pkt_no[s]
<1>1. /\ p \in Nat /\ nbuffered[s] \in Nat /\ a \in Nat
      /\ a + nbuffered[s] = p /\ a = p - nbuffered[s]
  BY CountsAre DEF Acknowledged
<1>2. nbuffered[s] + 1 \in 0 .. 255 /\ nbuffered[s] + 1 <= NR_BUFS
  BY <1>1, Sizes DEF room
<1>3. (nbuffered[s] + 1) % 256 = nbuffered[s] + 1
  BY <1>2
<1>4. /\ pkt_no' = [pkt_no EXCEPT ![s] = p + 1]
      /\ nbuffered' = [nbuffered EXCEPT ![s] = nbuffered[s] + 1]
      /\ next_frame_to_send'
            = [next_frame_to_send EXCEPT ![s] = inc(next_frame_to_send[s])]
  BY <1>3 DEF take_packet, get_packet
<1>5. inc(next_frame_to_send[s]) = number(p + 1) /\ next_frame_to_send[s] = number(p)
  <2>1. 1 \in 0 .. MAX_SEQ
    BY Sizes
  <2>. QED
    BY <1>1, <2>1, PlusNumber DEF inc, WindowIs
<1>. DEFINE slot == number(p) % NR_BUFS
<1>6. /\ out_buf' = [out_buf EXCEPT ![s][slot] = p + 1]
      /\ slot \in Slot
  BY <1>1, <1>5, NumberSlot DEF take_packet
<1>. HIDE DEF slot
<1>7. /\ pkt_no \in [Station -> Nat] /\ rpackets \in [Station -> Nat]
      /\ timer \in [Station -> SUBSET SeqNr]
      /\ out_buf \in [Station -> [Slot -> Nat]]
      /\ ack_expected \in [Station -> SeqNr]
      /\ next_frame_to_send \in [Station -> SeqNr]
      /\ nbuffered \in [Station -> 0 .. 255]
      /\ frame_expected \in [Station -> SeqNr]
  BY DEF WindowTypes, WindowTypeOK
<1>8. number(p) \in SeqNr /\ number(p + 1) \in SeqNr
  BY <1>1, NumberType
<1>9. WindowTypes'
  <2>1. pkt_no' \in [Station -> Nat]
    BY <1>1, <1>4, <1>7
  <2>2. nbuffered' \in [Station -> 0 .. 255]
    BY <1>2, <1>4, <1>7
  <2>3. next_frame_to_send' \in [Station -> SeqNr]
    BY <1>4, <1>5, <1>7, <1>8
  <2>4. timer' \in [Station -> SUBSET SeqNr]
    BY <1>5, <1>7, <1>8
  <2>5. out_buf' \in [Station -> [Slot -> Nat]]
    BY <1>1, <1>6, <1>7
  <2>. QED
    BY <1>7, <2>1, <2>2, <2>3, <2>4, <2>5 DEF WindowTypes, WindowTypeOK
<1>10. /\ pkt_no'[s] = p + 1 /\ nbuffered'[s] = nbuffered[s] + 1
       /\ next_frame_to_send'[s] = number(p + 1)
       /\ out_buf'[s] = [out_buf[s] EXCEPT ![slot] = p + 1]
       /\ timer'[s] = timer[s] \cup {number(p)}
       /\ Acknowledged(s)' = a
  BY <1>1, <1>4, <1>5, <1>6, <1>7 DEF Acknowledged
<1>11. ASSUME NEW n \in a .. p
       PROVE  out_buf'[s][number(n) % NR_BUFS] = n + 1
  <2>1. out_buf[s] \in [Slot -> Nat] /\ number(n) % NR_BUFS \in Slot
    BY <1>1, <1>7, NumberSlot
  <2>2. CASE n = p
    BY <1>6, <1>10, <2>1, <2>2 DEF slot
  <2>3. CASE n # p
    <3>1. n \in a .. p - 1 /\ n \in Nat /\ n < p /\ p - n < NR_BUFS
      BY <1>1, <1>2, <2>3, Sizes
    <3>2. number(n) % NR_BUFS # slot
      BY <1>1, <3>1, SlotDiffers DEF slot
    <3>3. out_buf[s][number(n) % NR_BUFS] = n + 1
      BY <3>1 DEF WindowIs
    <3>. QED
      BY <1>10, <2>1, <3>2, <3>3
  <2>. QED
    BY <2>2, <2>3
<1>12. WindowIs(s)'
  <2>1. /\ ack_expected[s] = number(a)
        /\ frame_expected[Peer(s)] = number(rpackets[Peer(s)])
        /\ a <= rpackets[Peer(s)] /\ rpackets[Peer(s)] <= p
        /\ rpackets[Peer(s)] \in Nat
    BY CountsAre DEF WindowIs
  <2>2. nbuffered'[s] <= NR_BUFS /\ nbuffered'[s] <= pkt_no'[s]
    BY <1>1, <1>2, <1>10
  <2>3. rpackets[Peer(s)] <= p + 1 /\ (p + 1) - 1 = p
    BY <1>1, <2>1
  <2>. QED
    BY <1>10, <1>11, <2>1, <2>2, <2>3 DEF WindowIs
<1>13. TimersAre(s)'
  <2>1. timer[s] = {number(n) : n \in a .. p - 1}
    BY DEF TimersAre
  <2>2. a .. p = (a .. p - 1) \cup {p}
    BY <1>1
  <2>3. {number(n) : n \in a .. p} = timer[s] \cup {number(p)}
    BY <2>1, <2>2
  <2>4. (p + 1) - 1 = p
    BY <1>1
  <2>. QED
    BY <1>10, <2>3, <2>4 DEF TimersAre
<1>. QED
  BY <1>9, <1>10, <1>12, <1>13

\* What is said of the direction in which u sends holds as long as nothing
\* that it speaks of changes.
LEMMA WindowSame ==
    ASSUME NEW u, WindowIs(u), TimersAre(u),
           pkt_no'[u] = pkt_no[u], nbuffered'[u] = nbuffered[u],
           ack_expected'[u] = ack_expected[u],
           next_frame_to_send'[u] = next_frame_to_send[u],
           out_buf'[u] = out_buf[u], timer'[u] = timer[u],
           rpackets'[Peer(u)] = rpackets[Peer(u)],
           frame_expected'[Peer(u)] = frame_expected[Peer(u)]
    PROVE  WindowIs(u)' /\ TimersAre(u)' /\ Acknowledged(u)' = Acknowledged(u)
<1>1. Acknowledged(u)' = Acknowledged(u)
  BY DEF Acknowledged
<1>2. TimersAre(u)'
  BY <1>1 DEF TimersAre
<1>3. WindowIs(u)'
  BY <1>1 DEF WindowIs
<1>. QED
  BY <1>1, <1>2, <1>3

\* The peer of u has taken in k more packets.
LEMMA TookIn ==
    ASSUME WindowTypes, NEW u \in Station, WindowIs(u), TimersAre(u),
           NEW k \in 0 .. MAX_SEQ, rpackets[Peer(u)] + k <= pkt_no[u],
           pkt_no'[u] = pkt_no[u], nbuffered'[u] = nbuffered[u],
           ack_expected'[u] = ack_expected[u],
           next_frame_to_send'[u] = next_frame_to_send[u],
           out_buf'[u] = out_buf[u], timer'[u] = timer[u],
           rpackets'[Peer(u)] = rpackets[Peer(u)] + k,
           frame_expected'[Peer(u)] = plus(frame_expected[Peer(u)], k)
    PROVE  /\ WindowIs(u)' /\ TimersAre(u)' /\ Acknowledged(u)' = Acknowledged(u)
           /\ rpackets'[Peer(u)] \in Nat /\ frame_expected'[Peer(u)] \in SeqNr
<1>1. Acknowledged(u)' = Acknowledged(u)
  BY DEF Acknowledged
<1>2. TimersAre(u)'
  BY <1>1 DEF TimersAre
<1>3. PICK r \in Nat : r = rpackets[Peer(u)]
  BY CountsAre
<1>4. PICK a \in Nat : a = Acknowledged(u)
  BY CountsAre
<1>5. frame_expected[Peer(u)] = number(r) /\ a <= r
  BY <1>3, <1>4 DEF WindowIs
<1>6. k \in Nat /\ r + k \in Nat /\ a <= r + k
  BY <1>3, <1>4, <1>5, Sizes
<1>7. frame_expected'[Peer(u)] = number(r + k) /\ number(r + k) \in SeqNr
  BY <1>5, <1>6, PlusNumber, NumberType
<1>8. WindowIs(u)'
  BY <1>1, <1>3, <1>4, <1>6, <1>7 DEF WindowIs
<1>. QED
  BY <1>1, <1>2, <1>3, <1>6, <1>7, <1>8

\* An acknowledgement of x packets frees the frames before them, and stops
\* their timers.
LEMMA FreedFrames ==
    ASSUME WindowTypes, NEW s \in Station, WindowIs(s), TimersAre(s),
           NEW ack, NEW x \in Acknowledged(s) .. rpackets[Peer(s)],
           ack = plus(x, MAX_SEQ),
           NEW timers, timers = timer[s], process_ack(s, ack, timers),
           pkt_no'[s] = pkt_no[s], out_buf'[s] = out_buf[s],
           next_frame_to_send'[s] = next_frame_to_send[s],
           rpackets'[Peer(s)] = rpackets[Peer(s)],
           frame_expected'[Peer(s)] = frame_expected[Peer(s)]
    PROVE  /\ WindowIs(s)' /\ TimersAre(s)' /\ Acknowledged(s)' = x
           /\ timer' \in [Station -> SUBSET SeqNr]
           /\ nbuffered' \in [Station -> 0 .. 255]
           /\ ack_expected' \in [Station -> SeqNr]
           /\ timer'[Peer(s)] = timer[Peer(s)]
           /\ nbuffered'[Peer(s)] = nbuffered[Peer(s)]
           /\ ack_expected'[Peer(s)] = ack_expected[Peer(s)]
<1>1. PICK a \in Nat, p \in Nat, n \in Nat, r \in Nat :
         /\ a = Acknowledged(s) /\ p = pkt_no[s] /\ n = nbuffered[s]
         /\ r = rpackets[Peer(s)]
         /\ a + n = p /\ p <= a + NR_BUFS /\ r \in a .. p
  BY CountsAre
<1>2. /\ NR_BUFS \in Nat /\ MAX_SEQ \in Nat /\ NR_BUFS <= MAX_SEQ
      /\ MAX_SEQ <= 255
  BY Sizes
<1>x. /\ x \in a .. r /\ r \in a .. p
      /\ a + n = p /\ p <= a + NR_BUFS
  BY <1>1
<1>d. PICK d \in Nat : d = x - a
  BY <1>x
<1>3. /\ d = x - a /\ x = a + d /\ d <= n /\ d \in 0 .. MAX_SEQ
      /\ x \in Nat /\ x <= r /\ x <= p /\ n - d = p - x
      /\ n - d \in 0 .. 255 /\ n - d <= NR_BUFS /\ n <= NR_BUFS
      /\ d <= MAX_SEQ /\ x - 1 = a + d - 1
  BY <1>2, <1>x, <1>d
<1>4. freed_by(s, ack) = d
  <2>1. /\ ack_expected[s] = number(a) /\ next_frame_to_send[s] = number(a + n)
        /\ x \in a .. a + n
    BY <1>1, <1>3 DEF WindowIs
  <2>. QED
    BY <1>1, <1>3, <2>1, FreedBy
<1>5. plus(ack_expected[s], d) = number(x) /\ number(x) \in SeqNr
  BY <1>1, <1>3, PlusNumber, NumberType DEF WindowIs
<1>6. {plus(ack_expected[s], i) : i \in 0 .. d - 1} = {number(k) : k \in a .. x - 1}
  <2>1. ack_expected[s] = number(a)
    BY <1>1 DEF WindowIs
  <2>. DEFINE z == x - 1
  <2>2. z = a + d - 1
    BY <1>3
  <2>. HIDE DEF z
  <2>3. /\ \A i \in 0 .. d - 1 :
              a + i \in a .. z /\ plus(number(a), i) = number(a + i)
        /\ \A k \in a .. z :
              k - a \in 0 .. d - 1 /\ plus(number(a), k - a) = number(k)
    BY <1>3, <2>2, NumbersFrom
  <2>4. {plus(number(a), i) : i \in 0 .. d - 1} = {number(k) : k \in a .. z}
    BY <2>3
  <2>. QED
    BY <2>1, <2>4 DEF z
<1>7. /\ timer \in [Station -> SUBSET SeqNr] /\ nbuffered \in [Station -> 0 .. 255]
      /\ ack_expected \in [Station -> SeqNr]
  BY DEF WindowTypes, WindowTypeOK
<1>8. /\ timer' = [timer EXCEPT ![s] = timer[s] \ {number(k) : k \in a .. x - 1}]
      /\ nbuffered' = [nbuffered EXCEPT ![s] = n - d]
      /\ ack_expected' = [ack_expected EXCEPT ![s] = number(x)]
  BY <1>1, <1>4, <1>5, <1>6 DEF process_ack, free_frames
<1>9. /\ timer' \in [Station -> SUBSET SeqNr]
      /\ nbuffered' \in [Station -> 0 .. 255]
      /\ ack_expected' \in [Station -> SeqNr]
  BY <1>3, <1>5, <1>7, <1>8
<1>10. /\ timer'[s] = timer[s] \ {number(k) : k \in a .. x - 1}
       /\ nbuffered'[s] = n - d /\ ack_expected'[s] = number(x)
       /\ timer'[Peer(s)] = timer[Peer(s)]
       /\ nbuffered'[Peer(s)] = nbuffered[Peer(s)]
       /\ ack_expected'[Peer(s)] = ack_expected[Peer(s)]
  BY <1>7, <1>8, Peers
<1>11. Acknowledged(s)' = x
  <2>1. Acknowledged(s)' = p - (n - d)
    BY <1>1, <1>10 DEF Acknowledged
  <2>. QED
    BY <1>1, <1>3, <2>1
<1>12. TimersAre(s)'
  <2>1. timer[s] = {number(k) : k \in a .. p - 1}
    BY <1>1 DEF TimersAre
  <2>2. ASSUME NEW k \in a .. x - 1, NEW l \in x .. p - 1 PROVE number(k) # number(l)
    <3>1. k \in Nat /\ l \in Nat /\ k # l /\ k - l <= MAX_SEQ /\ l - k <= MAX_SEQ
      BY <1>1, <1>2, <1>3
    <3>. QED
      BY <3>1, NumberDiffers
  <2>3. a .. p - 1 = (a .. x - 1) \cup (x .. p - 1)
    BY <1>1, <1>3
  <2>4. timer'[s] = {number(k) : k \in x .. p - 1}
    BY <1>10, <2>1, <2>2, <2>3
  <2>. QED
    BY <1>1, <1>11, <2>4 DEF TimersAre
<1>13. WindowIs(s)'
  <2>1. \A l \in x .. p - 1 : out_buf[s][number(l) % NR_BUFS] = l + 1
    <3>1. \A l \in x .. p - 1 : l \in a .. p - 1
      BY <1>1, <1>3
    <3>. QED
      BY <1>1, <3>1 DEF WindowIs
  <2>2. n - d <= p
    BY <1>1, <1>3
  <2>. QED
    BY <1>1, <1>3, <1>10, <1>11, <2>1, <2>2 DEF WindowIs
<1>. QED
  BY <1>9, <1>10, <1>11, <1>12, <1>13

\* TimersMatchWindow, counted in packets.
LEMMA TimersParts ==
    WindowTypes /\ (\A s \in Station : WindowIs(s)) =>
        (TimersMatchWindow <=> \A s \in Station : TimersAre(s))
BY TimersCounted DEF TimersMatchWindow, TimersAre

LEMMA TimersPartsNext ==
    (WindowTypes /\ (\A s \in Station : WindowIs(s)) =>
        (TimersMatchWindow <=> \A s \in Station : TimersAre(s)))'
BY TimersParts, PTL

\* A frame arrives: its acknowledgement of x packets frees frames of the
\* receiver s, and s takes in k packets.
LEMMA OneFrameReceived ==
    ASSUME WindowTypes, NEW s \in Station,
           \A u \in Station : WindowIs(u) /\ TimersAre(u),
           NEW ack, NEW x \in Acknowledged(s) .. rpackets[Peer(s)],
           ack = plus(x, MAX_SEQ),
           NEW timers, timers = timer[s], process_ack(s, ack, timers),
           NEW k \in 0 .. MAX_SEQ, rpackets[s] + k <= pkt_no[Peer(s)],
           rpackets' = [rpackets EXCEPT ![s] = @ + k],
           frame_expected' = [frame_expected EXCEPT ![s] = plus(@, k)],
           UNCHANGED <<pkt_no, out_buf, next_frame_to_send>>
    PROVE  /\ WindowTypes'
           /\ \A u \in Station : WindowIs(u)' /\ TimersAre(u)'
           /\ Acknowledged(s)' = x
           /\ Acknowledged(Peer(s))' = Acknowledged(Peer(s))
           /\ nbuffered'[Peer(s)] = nbuffered[Peer(s)]
           /\ rpackets'[s] = rpackets[s] + k
           /\ rpackets'[Peer(s)] = rpackets[Peer(s)]
<1>. DEFINE v == Peer(s)
<1>1. /\ v \in Station /\ v # s /\ Peer(v) = s
      /\ \A u \in Station : u = s \/ u = v
  BY Peers
<1>2. /\ rpackets \in [Station -> Nat] /\ frame_expected \in [Station -> SeqNr]
      /\ pkt_no \in [Station -> Nat]
      /\ out_buf \in [Station -> [Slot -> Nat]]
      /\ next_frame_to_send \in [Station -> SeqNr]
  BY DEF WindowTypes, WindowTypeOK
<1>3. /\ rpackets'[s] = rpackets[s] + k /\ rpackets'[v] = rpackets[v]
      /\ frame_expected'[s] = plus(frame_expected[s], k)
      /\ frame_expected'[v] = frame_expected[v]
  BY <1>1, <1>2
<1>4. /\ WindowIs(s)' /\ TimersAre(s)' /\ Acknowledged(s)' = x
      /\ timer' \in [Station -> SUBSET SeqNr]
      /\ nbuffered' \in [Station -> 0 .. 255]
      /\ ack_expected' \in [Station -> SeqNr]
      /\ timer'[v] = timer[v]
      /\ nbuffered'[v] = nbuffered[v]
      /\ ack_expected'[v] = ack_expected[v]
  BY <1>3, FreedFrames
<1>5. /\ WindowIs(v)' /\ TimersAre(v)' /\ Acknowledged(v)' = Acknowledged(v)
      /\ rpackets'[s] \in Nat /\ frame_expected'[s] \in SeqNr
  <2>. HIDE DEF v
  <2>1. rpackets[Peer(v)] + k <= pkt_no[v]
    BY <1>1 DEF v
  <2>2. /\ rpackets'[Peer(v)] = rpackets[Peer(v)] + k
        /\ frame_expected'[Peer(v)] = plus(frame_expected[Peer(v)], k)
    BY <1>1, <1>3
  <2>3. /\ WindowIs(v)' /\ TimersAre(v)' /\ Acknowledged(v)' = Acknowledged(v)
        /\ rpackets'[Peer(v)] \in Nat /\ frame_expected'[Peer(v)] \in SeqNr
    BY <1>1, <1>4, <2>1, <2>2, TookIn
  <2>. QED
    BY <1>1, <2>3
<1>6. WindowTypes'
  <2>1. rpackets' \in [Station -> Nat] /\ frame_expected' \in [Station -> SeqNr]
    BY <1>2, <1>3, <1>5
  <2>. QED
    BY <1>2, <1>4, <2>1 DEF WindowTypes, WindowTypeOK
<1>. QED
  BY <1>1, <1>3, <1>4, <1>5, <1>6

\* The window as DATA_TIMEOUT resends it.
LEMMA WindowResent ==
    ASSUME WindowTypes, NEW s \in Station, WindowIs(s), TimersAre(s)
    PROVE  /\ DOMAIN window_of(s) = 1 .. nbuffered[s]
           /\ \A i \in 1 .. nbuffered[s] :
                 /\ window_of(s)[i] = number((Acknowledged(s) + i) - 1)
                 /\ window_of(s)[i] \in SeqNr
                 /\ out_buf[s][window_of(s)[i] % NR_BUFS] = Acknowledged(s) + i
                 /\ Acknowledged(s) + i \in 1 .. pkt_no[s]
                 /\ pkt_no[s] < (Acknowledged(s) + i) + NR_BUFS
           /\ {window_of(s)[i] : i \in DOMAIN window_of(s)} = timer[s]
<1>1. PICK a \in Nat, p \in Nat, n \in Nat :
         /\ a = Acknowledged(s) /\ p = pkt_no[s] /\ n = nbuffered[s]
         /\ a + n = p /\ p <= a + NR_BUFS
  BY CountsAre
<1>2. NR_BUFS \in Nat /\ MAX_SEQ \in Nat /\ NR_BUFS <= MAX_SEQ /\ 0 < NR_BUFS
  BY Sizes
<1>. DEFINE w == window_of(s)
<1>3. DOMAIN w = 1 .. n /\ \A i \in 1 .. n : w[i] = plus(number(a), i - 1)
  BY <1>1 DEF window_of, WindowIs
<1>. HIDE DEF w
<1>4. ASSUME NEW i \in 1 .. n
      PROVE  /\ w[i] = number((a + i) - 1) /\ w[i] \in SeqNr
             /\ out_buf[s][w[i] % NR_BUFS] = a + i
             /\ a + i \in 1 .. p /\ p < (a + i) + NR_BUFS
  <2>1. /\ i - 1 \in 0 .. MAX_SEQ /\ (a + i) - 1 = a + (i - 1)
        /\ a + i \in 1 .. p /\ p < (a + i) + NR_BUFS
        /\ (a + i) - 1 \in a .. p - 1 /\ (a + i) - 1 \in Nat
        /\ ((a + i) - 1) + 1 = a + i
    BY <1>1, <1>2
  <2>2. w[i] = number((a + i) - 1) /\ number((a + i) - 1) \in SeqNr
    BY <1>3, <2>1, PlusNumber, NumberType
  <2>3. \A l \in a .. p - 1 : out_buf[s][number(l) % NR_BUFS] = l + 1
    BY <1>1 DEF WindowIs
  <2>. QED
    BY <2>1, <2>2, <2>3
<1>5. {w[i] : i \in DOMAIN w} = timer[s]
  <2>1. timer[s] = {number(l) : l \in a .. p - 1}
    BY <1>1 DEF TimersAre
  <2>2. \A i \in 1 .. n : w[i] = number((a + i) - 1) /\ (a + i) - 1 \in a .. p - 1
    BY <1>1, <1>4
  <2>3. \A l \in a .. p - 1 : (l - a) + 1 \in 1 .. n /\ (a + ((l - a) + 1)) - 1 = l
    BY <1>1
  <2>4. \A l \in a .. p - 1 : w[(l - a) + 1] = number(l) /\ (l - a) + 1 \in 1 .. n
    BY <2>2, <2>3
  <2>. QED
    BY <1>3, <2>1, <2>2, <2>4
<1>. QED
  BY <1>1, <1>3, <1>4, <1>5 DEF w

\* The window edges, buffers and deliveries agree.
LEMMA WindowsAgree ==
    WindowTypes /\ (\A s \in Station : WindowIs(s)) => WindowAgrees
<1>. SUFFICES ASSUME WindowTypes, \A u \in Station : WindowIs(u), NEW s \in Station
              PROVE  /\ nbuffered[s] <= NR_BUFS
                     /\ next_frame_to_send[s] = plus(ack_expected[s], nbuffered[s])
                     /\ Acknowledged(s) <= rpackets[Peer(s)]
                     /\ rpackets[Peer(s)] <= pkt_no[s]
                     /\ frame_expected[Peer(s)] =
                           plus(ack_expected[s], rpackets[Peer(s)] - Acknowledged(s))
                     /\ \A i \in 0 .. nbuffered[s] - 1 :
                           out_buf[s][plus(ack_expected[s], i) % NR_BUFS]
                              = Acknowledged(s) + i + 1
  BY DEF WindowAgrees
<1>1. PICK a \in Nat, p \in Nat, n \in Nat, r \in Nat :
         /\ a = Acknowledged(s) /\ p = pkt_no[s] /\ n = nbuffered[s]
         /\ r = rpackets[Peer(s)]
         /\ a + n = p /\ p <= a + NR_BUFS /\ r \in a .. p
  BY CountsAre
<1>2. NR_BUFS \in Nat /\ MAX_SEQ \in Nat /\ NR_BUFS <= MAX_SEQ
  BY Sizes
<1>3. /\ n \in 0 .. MAX_SEQ /\ r - a \in 0 .. MAX_SEQ /\ a + (r - a) = r
      /\ n <= NR_BUFS /\ a <= r /\ r <= p /\ a + n = p
  BY <1>1, <1>2
<1>4. /\ ack_expected[s] = number(a) /\ next_frame_to_send[s] = number(p)
      /\ frame_expected[Peer(s)] = number(r)
  BY <1>1 DEF WindowIs
<1>5. plus(number(a), n) = number(p) /\ plus(number(a), r - a) = number(r)
  <2>1. plus(number(a), n) = number(a + n)
    BY <1>3, PlusNumber
  <2>2. plus(number(a), r - a) = number(a + (r - a))
    BY <1>3, PlusNumber
  <2>. QED
    BY <1>1, <1>3, <2>1, <2>2
<1>6. ASSUME NEW i \in 0 .. n - 1
      PROVE  out_buf[s][plus(ack_expected[s], i) % NR_BUFS] = a + i + 1
  <2>1. i \in 0 .. MAX_SEQ /\ a + i \in a .. p - 1
    BY <1>2, <1>3
  <2>2. plus(ack_expected[s], i) = number(a + i)
    BY <1>4, <2>1, PlusNumber
  <2>3. \A l \in a .. p - 1 : out_buf[s][number(l) % NR_BUFS] = l + 1
    BY <1>1 DEF WindowIs
  <2>. QED
    BY <2>1, <2>2, <2>3
<1>. QED
  BY <1>1, <1>3, <1>4, <1>5, <1>6

(***************************************************************************)
(* The calls of DataLink that every handler makes.                         *)
(***************************************************************************)
FlagTypes ==
    /\ inform_phl_ready \in [Station -> BOOLEAN]
    /\ phl_ready \in [Station -> BOOLEAN]
    /\ network_layer_active \in [Station -> BOOLEAN]

LEMMA PutFrame ==
    ASSUME FlagTypes, NEW s \in Station, NEW F, NEW ch \in [Station -> Seq(F)],
           NEW frames \in Seq(F), put_frame(s, ch, frames)
    PROVE  /\ chan' \in [Station -> Seq(F)]
           /\ chan'[s] = ch[s] \o frames /\ chan'[Peer(s)] = ch[Peer(s)]
           /\ inform_phl_ready' \in [Station -> BOOLEAN]
           /\ phl_ready' \in [Station -> BOOLEAN]
<1>1. ch[s] \o frames \in Seq(F)
  BY ConcatProperties
<1>2. chan' = [ch EXCEPT ![s] = ch[s] \o frames]
  BY DEF put_frame
<1>. HIDE DEF put_frame
<1>3. /\ chan' \in [Station -> Seq(F)]
      /\ chan'[s] = ch[s] \o frames /\ chan'[Peer(s)] = ch[Peer(s)]
  BY <1>1, <1>2, Peers
<1>4. /\ inform_phl_ready' \in [Station -> BOOLEAN]
      /\ phl_ready' \in [Station -> BOOLEAN]
  BY DEF put_frame, FlagTypes
<1>. QED
  BY <1>3, <1>4

LEMMA RecvFrame ==
    ASSUME NEW s \in Station, NEW F, chan \in [Station -> Seq(F)], frame_arrived(s)
    PROVE  /\ recv_frame(s) \in [Station -> Seq(F)]
           /\ recv_frame(s)[Peer(s)] = Tail(chan[Peer(s)])
           /\ recv_frame(s)[s] = chan[s]
           /\ chan[Peer(s)] \in Seq(F) /\ chan[Peer(s)] # <<>>
           /\ Arriving(s) = Head(chan[Peer(s)]) /\ Arriving(s) \in F
<1>1. Peer(s) \in Station /\ Peer(s) # s
  BY Peers
<1>2. chan[Peer(s)] \in Seq(F) /\ chan[Peer(s)] # <<>>
  BY <1>1 DEF frame_arrived
<1>3. Tail(chan[Peer(s)]) \in Seq(F) /\ Head(chan[Peer(s)]) \in F
  BY <1>2, TailIs
<1>4. recv_frame(s) = [chan EXCEPT ![Peer(s)] = Tail(chan[Peer(s)])]
  BY DEF recv_frame
<1>. QED
  BY <1>1, <1>2, <1>3, <1>4 DEF Arriving

\* The network layer is enabled at the end of a turn only if the window has
\* room.
LEMMA LoopEnd ==
    ASSUME FlagTypes, phl_ready' \in [Station -> BOOLEAN],
           \A u \in Station : OpenIfActive(u),
           NEW s \in Station, loop_end(s, room(nbuffered'[s])),
           nbuffered'[Peer(s)] = nbuffered[Peer(s)]
    PROVE  /\ network_layer_active' \in [Station -> BOOLEAN]
           /\ \A u \in Station : OpenIfActive(u)'
<1>1. /\ network_layer_active' \in [Station -> BOOLEAN]
      /\ network_layer_active'[s] <=> room(nbuffered'[s]) /\ phl_ready'[s]
      /\ network_layer_active'[Peer(s)] = network_layer_active[Peer(s)]
  BY Peers DEF loop_end, FlagTypes
<1>2. OpenIfActive(s)'
  BY <1>1 DEF OpenIfActive, room
<1>3. OpenIfActive(Peer(s))'
  BY <1>1, Peers DEF OpenIfActive, room
<1>. QED
  BY <1>1, <1>2, <1>3, Peers

(***************************************************************************)
(* The turns of the event loop, as far as windows are concerned.           *)
(***************************************************************************)
Windows ==
    /\ WindowTypes /\ FlagTypes
    /\ \A s \in Station : WindowIs(s) /\ TimersAre(s) /\ OpenIfActive(s)

LEMMA WindowsAre ==
    WindowTypes /\ FlagTypes =>
        (Windows <=> EdgesAreCounts /\ TimersMatchWindow)
BY WindowParts, TimersParts DEF Windows

LEMMA WindowsAreNext ==
    (WindowTypes /\ FlagTypes =>
        (Windows <=> EdgesAreCounts /\ TimersMatchWindow))'
BY WindowsAre, PTL

\* A packet of the network layer is taken into the window and sent.
LEMMA SendTurn ==
    ASSUME Windows, NEW s \in Station, network_layer_ready(s), take_packet(s),
           timer' = [timer EXCEPT ![s] = @ \cup {next_frame_to_send[s]}],
           inform_phl_ready' \in [Station -> BOOLEAN],
           phl_ready' \in [Station -> BOOLEAN],
           UNCHANGED <<rpackets, ack_expected, frame_expected>>,
           loop_end(s, room(nbuffered'[s]))
    PROVE  /\ Windows'
           /\ pkt_no'[s] = pkt_no[s] + 1 /\ pkt_no'[Peer(s)] = pkt_no[Peer(s)]
           /\ nbuffered'[s] = nbuffered[s] + 1
           /\ \A u \in Station : Acknowledged(u)' = Acknowledged(u)
           /\ room(nbuffered[s])
<1>. DEFINE v == Peer(s)
<1>1. v \in Station /\ v # s /\ \A u \in Station : u = s \/ u = v
  BY Peers
<1>2. room(nbuffered[s])
  BY DEF network_layer_ready, Windows, OpenIfActive
<1>3. /\ WindowTypes'
      /\ WindowIs(s)' /\ TimersAre(s)'
      /\ pkt_no'[s] = pkt_no[s] + 1 /\ nbuffered'[s] = nbuffered[s] + 1
      /\ Acknowledged(s)' = Acknowledged(s)
  BY <1>2, TookPacket DEF Windows
<1>4. /\ pkt_no'[v] = pkt_no[v] /\ nbuffered'[v] = nbuffered[v]
      /\ next_frame_to_send'[v] = next_frame_to_send[v]
      /\ out_buf'[v] = out_buf[v] /\ timer'[v] = timer[v]
  BY <1>1 DEF take_packet, get_packet, Windows, WindowTypes, WindowTypeOK
<1>5. WindowIs(v)' /\ TimersAre(v)' /\ Acknowledged(v)' = Acknowledged(v)
  <2>. HIDE DEF v
  <2>. QED
    BY <1>1, <1>4, WindowSame DEF Windows
<1>6. network_layer_active' \in [Station -> BOOLEAN] /\ \A u \in Station : OpenIfActive(u)'
  BY <1>4, LoopEnd DEF Windows
<1>7. \A u \in Station : WindowIs(u)' /\ TimersAre(u)' /\ Acknowledged(u)' = Acknowledged(u)
  BY <1>1, <1>3, <1>5
<1>. QED
  BY <1>2, <1>3, <1>4, <1>6, <1>7 DEF Windows, FlagTypes

\* A frame with an acknowledgement arrives (see OneFrameReceived).
LEMMA ReceiveTurn ==
    ASSUME Windows, NEW s \in Station,
           NEW ack, NEW x \in Acknowledged(s) .. rpackets[Peer(s)],
           ack = plus(x, MAX_SEQ),
           NEW timers, timers = timer[s], process_ack(s, ack, timers),
           NEW k \in 0 .. MAX_SEQ, rpackets[s] + k <= pkt_no[Peer(s)],
           rpackets' = [rpackets EXCEPT ![s] = @ + k],
           frame_expected' = [frame_expected EXCEPT ![s] = plus(@, k)],
           UNCHANGED <<pkt_no, out_buf, next_frame_to_send>>,
           inform_phl_ready' \in [Station -> BOOLEAN],
           phl_ready' \in [Station -> BOOLEAN],
           loop_end(s, room(nbuffered'[s]))
    PROVE  /\ Windows'
           /\ Acknowledged(s)' = x /\ Acknowledged(Peer(s))' = Acknowledged(Peer(s))
           /\ rpackets'[s] = rpackets[s] + k
           /\ rpackets'[Peer(s)] = rpackets[Peer(s)]
<1>1. /\ WindowTypes
      /\ \A u \in Station : WindowIs(u) /\ TimersAre(u)
  BY DEF Windows
<1>2. /\ WindowTypes'
      /\ \A u \in Station : WindowIs(u)' /\ TimersAre(u)'
      /\ Acknowledged(s)' = x
      /\ Acknowledged(Peer(s))' = Acknowledged(Peer(s))
      /\ nbuffered'[Peer(s)] = nbuffered[Peer(s)]
      /\ rpackets'[s] = rpackets[s] + k
      /\ rpackets'[Peer(s)] = rpackets[Peer(s)]
  BY <1>1, OneFrameReceived
<1>3. network_layer_active' \in [Station -> BOOLEAN] /\ \A u \in Station : OpenIfActive(u)'
  BY <1>2, LoopEnd DEF Windows
<1>. QED
  BY <1>2, <1>3 DEF Windows, FlagTypes

\* A turn that leaves the windows as they are.
LEMMA QuietTurn ==
    ASSUME Windows, NEW s \in Station,
           UNCHANGED <<timer, pkt_no, rpackets, windowVars>>,
           inform_phl_ready' \in [Station -> BOOLEAN],
           phl_ready' \in [Station -> BOOLEAN],
           \/ loop_end(s, room(nbuffered'[s]))
           \/ UNCHANGED network_layer_active
    PROVE  /\ Windows'
           /\ \A u \in Station : Acknowledged(u)' = Acknowledged(u)
<1>1. \A u \in Station : WindowIs(u)' /\ TimersAre(u)' /\ Acknowledged(u)' = Acknowledged(u)
  BY WindowSame DEF Windows, windowVars
<1>2. WindowTypes'
  BY DEF Windows, WindowTypes, WindowTypeOK, windowVars
<1>3. network_layer_active' \in [Station -> BOOLEAN] /\ \A u \in Station : OpenIfActive(u)'
  <2>1. CASE loop_end(s, room(nbuffered'[s]))
    BY <2>1, LoopEnd DEF Windows, windowVars
  <2>2. CASE UNCHANGED network_layer_active
    BY <2>2 DEF Windows, windowVars, OpenIfActive, FlagTypes, room
  <2>. QED
    BY <2>1, <2>2
<1>. QED
  BY <1>1, <1>2, <1>3 DEF Windows, FlagTypes

LEMMA WindowsInit == LinkInit /\ WindowInit => Windows
<1>. SUFFICES ASSUME LinkInit, WindowInit PROVE Windows
  OBVIOUS
<1>1. 0 \in SeqNr /\ 0 \in 0 .. 255 /\ 0 \in Nat /\ number(0) = 0 /\ 0 < NR_BUFS
      /\ 0 <= NR_BUFS
  BY Sizes DEF SeqNr, number
<1>2. WindowTypes /\ FlagTypes
  BY <1>1 DEF LinkInit, WindowInit, WindowTypes, WindowTypeOK, FlagTypes
<1>3. ASSUME NEW s \in Station PROVE WindowIs(s) /\ TimersAre(s) /\ OpenIfActive(s)
  <2>1. /\ nbuffered[s] = 0 /\ pkt_no[s] = 0 /\ ack_expected[s] = 0
        /\ next_frame_to_send[s] = 0 /\ frame_expected[Peer(s)] = 0
        /\ rpackets[Peer(s)] = 0 /\ timer[s] = {} /\ network_layer_active[s] = FALSE
    BY Peers DEF LinkInit, WindowInit
  <2>2. Acknowledged(s) = 0
    BY <2>1 DEF Acknowledged
  <2>3. Acknowledged(s) .. pkt_no[s] - 1 = {}
    BY <2>1, <2>2
  <2>. QED
    BY <1>1, <2>1, <2>2, <2>3 DEF WindowIs, TimersAre, OpenIfActive
<1>. QED
  BY <1>2, <1>3 DEF Windows

\* A data frame with the number expected carries the packet expected.
LEMMA ExpectedPacket ==
    ASSUME WindowTypes, NEW u \in Station, WindowIs(u),
           NEW q \in 1 .. pkt_no[u], rpackets[Peer(u)] < q + NR_BUFS,
           number(q - 1) = frame_expected[Peer(u)]
    PROVE  q = rpackets[Peer(u)] + 1
<1>1. PICK a \in Nat, p \in Nat, r \in Nat :
         /\ a = Acknowledged(u) /\ p = pkt_no[u] /\ r = rpackets[Peer(u)]
         /\ p <= a + NR_BUFS /\ r \in a .. p
  BY CountsAre
<1>2. /\ q \in 1 .. p /\ r < q + NR_BUFS /\ p <= a + NR_BUFS /\ r \in a .. p
      /\ number(q - 1) = number(r)
  BY <1>1 DEF WindowIs
<1>3. NR_BUFS \in Nat /\ MAX_SEQ \in Nat /\ NR_BUFS <= MAX_SEQ
  BY Sizes
<1>4. PICK l \in Nat : l = q - 1
  BY <1>2
<1>5. l - r <= MAX_SEQ /\ r - l <= MAX_SEQ
  BY <1>2, <1>3, <1>4
<1>6. l = r
  BY <1>2, <1>4, <1>5, NumberDiffers
<1>. QED
  BY <1>1, <1>2, <1>4, <1>6

\* Taking in no packet at all is a case of ReceiveTurn.
LEMMA NoneTaken ==
    ASSUME Windows, NEW s \in Station
    PROVE  /\ 0 \in 0 .. MAX_SEQ
           /\ rpackets[s] + 0 = rpackets[s] /\ rpackets[s] + 0 <= pkt_no[Peer(s)]
           /\ rpackets = [rpackets EXCEPT ![s] = @ + 0]
           /\ frame_expected = [frame_expected EXCEPT ![s] = plus(@, 0)]
<1>1. /\ Peer(s) \in Station /\ Peer(Peer(s)) = s
      /\ WindowTypes /\ WindowIs(Peer(s))
  BY Peers DEF Windows
<1>2. /\ rpackets[s] \in Nat /\ rpackets[s] <= pkt_no[Peer(s)]
      /\ frame_expected[s] = number(rpackets[s])
  BY <1>1, CountsAre DEF WindowIs
<1>3. 0 \in 0 .. MAX_SEQ /\ rpackets[s] + 0 = rpackets[s]
  BY <1>2, Sizes
<1>4. plus(frame_expected[s], 0) = frame_expected[s]
  BY <1>2, <1>3, PlusNumber
<1>. QED
  BY <1>1, <1>2, <1>3, <1>4 DEF WindowTypes, WindowTypeOK

\* A frame acknowledges the packets that its sender has had.
LEMMA LastAcked ==
    ASSUME Windows, NEW s \in Station
    PROVE  /\ rpackets[s] \in Nat
           /\ last_acked_frame(frame_expected[s]) = plus(rpackets[s], MAX_SEQ)
           /\ last_acked_frame(frame_expected[s]) \in SeqNr
<1>1. PICK r \in Nat : r = rpackets[s] /\ frame_expected[s] = number(r)
  BY Peers, CountsAre DEF Windows, WindowIs
<1>2. MAX_SEQ \in 0 .. MAX_SEQ /\ r + MAX_SEQ \in Nat
  BY <1>1, Sizes
<1>3. plus(number(r), MAX_SEQ) = number(r + MAX_SEQ)
  BY <1>2, PlusNumber
<1>. QED
  BY <1>1, <1>2, <1>3, AckNumber, NumberType DEF last_acked_frame

(***************************************************************************)
(* The turns as steps of ReliableLink.                                     *)
(***************************************************************************)
Sends(s) ==
    /\ room(nbuffered[s])
    /\ pkt_no' = [pkt_no EXCEPT ![s] = @ + 1]
    /\ UNCHANGED <<rpackets, aborted>>
    /\ \A u \in Station : Acknowledged(u)' = Acknowledged(u)

Receives(s) ==
    /\ rpackets'[s] \in rpackets[s] .. pkt_no[Peer(s)]
    /\ rpackets'[Peer(s)] = rpackets[Peer(s)]
    /\ Acknowledged(s)' \in Acknowledged(s) .. rpackets[Peer(s)]
    /\ Acknowledged(Peer(s))' = Acknowledged(Peer(s))
    /\ UNCHANGED <<pkt_no, aborted>>

LeavesLink ==
    /\ UNCHANGED <<pkt_no, rpackets, aborted>>
    /\ \A u \in Station : Acknowledged(u)' = Acknowledged(u)

LEMMA LinkInitially == LinkInit /\ WindowInit => Link!Init
<1>. SUFFICES ASSUME LinkInit, WindowInit PROVE Link!Init
  OBVIOUS
<1>1. \A s \in Station : pkt_no[s] = 0 /\ nbuffered[s] = 0 /\ rpackets[Peer(s)] = 0
  BY Peers DEF LinkInit, WindowInit
<1>2. \A s \in Station : Acknowledged(s) = 0
  BY <1>1 DEF Acknowledged
<1>. QED
  BY <1>1, <1>2 DEF LinkInit, Link!Init

LEMMA SendsOnLink ==
    ASSUME Windows, NEW s \in Station, Sends(s)
    PROVE  Link!Send(s)
<1>1. /\ WindowTypes /\ WindowIs(s)
  BY DEF Windows
<1>2. [u \in Station |-> Acknowledged(u)][s] = Acknowledged(s)
  OBVIOUS
<1>3. pkt_no[s] - Acknowledged(s) < NR_BUFS
  <2>1. PICK a \in Nat, p \in Nat, n \in Nat :
           /\ a = Acknowledged(s) /\ p = pkt_no[s] /\ n = nbuffered[s] /\ a + n = p
    BY <1>1, CountsAre
  <2>2. n < NR_BUFS
    BY <2>1 DEF Sends, room
  <2>3. p - a < NR_BUFS
    BY <2>1, <2>2, Sizes
  <2>. QED
    BY <2>1, <2>3
<1>4. [u \in Station |-> Acknowledged(u)]' = [u \in Station |-> Acknowledged(u)]
  BY DEF Sends
<1>5. [u \in Station |-> rpackets[Peer(u)]]' = [u \in Station |-> rpackets[Peer(u)]]
  BY DEF Sends
<1>. QED
  BY <1>2, <1>3, <1>4, <1>5 DEF Sends, Link!Send

LEMMA ReceivesOnLink ==
    ASSUME NEW s \in Station, Receives(s)
    PROVE  Link!Receive(Peer(s), s)
<1>. DEFINE v == Peer(s)
            delivered == [u \in Station |-> rpackets[Peer(u)]]
            acked == [u \in Station |-> Acknowledged(u)]
            d == rpackets'[s]
            a == Acknowledged(s)'
<1>1. /\ v \in Station /\ v # s /\ Peer(v) = s /\ Peer(s) = v
      /\ \A u \in Station : u = s \/ u = v
  BY Peers
<1>2. /\ delivered[v] = rpackets[s] /\ delivered[s] = rpackets[v]
      /\ acked[s] = Acknowledged(s)
  BY <1>1
<1>3. d \in delivered[v] .. pkt_no[v] /\ a \in acked[s] .. delivered[s]
  BY <1>2 DEF Receives
<1>4. [u \in Station |-> rpackets'[Peer(u)]] = [delivered EXCEPT ![v] = d]
  <2>1. \A u \in Station : rpackets'[Peer(u)] = IF u = v THEN d ELSE delivered[u]
    BY <1>1 DEF Receives
  <2>. QED
    BY <2>1
<1>5. [u \in Station |-> Acknowledged(u)'] = [acked EXCEPT ![s] = a]
  <2>1. \A u \in Station : Acknowledged(u)' = IF u = s THEN a ELSE acked[u]
    BY <1>1 DEF Receives
  <2>. QED
    BY <2>1
<1>6. pkt_no' = pkt_no /\ (aborted # {})' = (aborted # {})
  BY DEF Receives
<1>. QED
  BY <1>3, <1>4, <1>5, <1>6, Zenon DEF Link!Receive

LEMMA LeavesOnLink ==
    ASSUME LeavesLink
    PROVE  UNCHANGED Link!vars
<1>1. [u \in Station |-> Acknowledged(u)]' = [u \in Station |-> Acknowledged(u)]
  BY DEF LeavesLink
<1>2. [u \in Station |-> rpackets[Peer(u)]]' = [u \in Station |-> rpackets[Peer(u)]]
  BY DEF LeavesLink
<1>. QED
  BY <1>1, <1>2 DEF LeavesLink, Link!vars

LEMMA LinkTurn ==
    ASSUME Windows,
           LeavesLink \/ \E s \in Station : Sends(s) \/ Receives(s)
    PROVE  [Link!Next]_(Link!vars)
<1>1. CASE LeavesLink
  BY <1>1, LeavesOnLink
<1>2. ASSUME NEW s \in Station, Sends(s) PROVE Link!Next
  BY <1>2, SendsOnLink DEF Link!Next
<1>3. ASSUME NEW s \in Station, Receives(s) PROVE Link!Next
  <2>1. Peer(s) \in Station /\ s \in Station \ {Peer(s)}
    BY Peers
  <2>. QED
    BY <1>3, <2>1, ReceivesOnLink DEF Link!Next
<1>. QED
  BY <1>1, <1>2, <1>3
=============================================================================
