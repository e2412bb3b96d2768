------------------------ MODULE SelectiveRepeatProofs ------------------------
(***************************************************************************)
(* Proofs about SelectiveRepeat for any MAX_SEQ and NR_BUFS that           *)
(* WindowSizes and HalfTheNumbers allow, any amount of traffic and any     *)
(* MaxInFlight.                                                            *)
(***************************************************************************)
EXTENDS SelectiveRepeat, SlidingWindowProofs, WellFoundedInduction

LEMMA TwoWindows ==
    /\ NR_BUFS \in Nat /\ 0 < NR_BUFS /\ MAX_SEQ \in Nat
    /\ NR_BUFS + NR_BUFS <= MAX_SEQ + 1
<1>1. MAX_SEQ + 1 \in Nat /\ 2 \in Nat \ {0}
  BY Sizes
<1>2. PICK q \in Nat, r \in 0 .. 1 : q = NR_BUFS /\ MAX_SEQ + 1 = 2 * q + r
  BY <1>1, Sizes, Division, HalfTheNumbers
<1>. QED
  BY <1>2, Sizes

(***************************************************************************)
(* The frames of one direction, and the packets that wait in the slots of  *)
(* receiver u.                                                             *)
(***************************************************************************)
Acking == {"DATA", "ACK", "NAK"}

InTransit(u) ==
    /\ DataInOrder(chan[u], pkt_no[u], rpackets[Peer(u)])
    /\ AcksInOrder(chan[Peer(u)], Acking, Acknowledged(u), rpackets[Peer(u)])

\* No frame among fs could be taken for one of the window after packet p.
NoneOlder(fs, p) == \A i \in 1 .. Len(fs) :
    fs[i].kind = "DATA" => p < fs[i].pkt + NR_BUFS

Stored(u) ==
    /\ too_far[u] = number(rpackets[u] + NR_BUFS)
    /\ ~arrived[u][number(rpackets[u]) % NR_BUFS]
    /\ \A n \in rpackets[u] .. rpackets[u] + NR_BUFS - 1 :
          arrived[u][number(n) % NR_BUFS] =>
             /\ in_buf[u][number(n) % NR_BUFS] = n + 1
             /\ n < pkt_no[Peer(u)]
             /\ NoneOlder(chan[Peer(u)], n + 1)

ReceiverTypes ==
    /\ ack_timer \in [Station -> BOOLEAN]
    /\ arrived \in [Station -> [Slot -> BOOLEAN]]
    /\ in_buf \in [Station -> [Slot -> Nat]]
    /\ too_far \in [Station -> SeqNr]
    /\ no_nak \in [Station -> BOOLEAN]

LEMMA Parts ==
    IInv <=> /\ TypeOK /\ NobodyAborts /\ Windows
             /\ \A u \in Station : InTransit(u) /\ Stored(u)
<1>1. TypeOK => WindowTypes /\ FlagTypes
  BY DEF TypeOK, LinkTypeOK, WindowTypes, FlagTypes
<1>2. FramesInTransit(Acking) <=> \A u \in Station : InTransit(u)
  BY DEF FramesInTransit, InTransit
<1>3. StoredInOrder <=> \A u \in Station : Stored(u)
  BY DEF StoredInOrder, Stored, NoneOlder
<1>. QED
  BY <1>1, <1>2, <1>3, WindowsAre DEF IInv, Acking

LEMMA PartsNext ==
    (IInv <=> /\ TypeOK /\ NobodyAborts /\ Windows
              /\ \A u \in Station : InTransit(u) /\ Stored(u))'
BY Parts, PTL

\* What a step has to show.
LEMMA Kept ==
    ASSUME Windows', chan' \in [Station -> Seq(Frame)], aborted' = {},
           inform_phl_ready' \in [Station -> BOOLEAN],
           phl_ready' \in [Station -> BOOLEAN],
           ReceiverTypes',
           NEW s \in Station, InTransit(s)', InTransit(Peer(s))',
           Stored(s)', Stored(Peer(s))'
    PROVE  IInv'
<1>1. TypeOK'
  BY DEF TypeOK, LinkTypeOK, Windows, WindowTypes, FlagTypes, ReceiverTypes
<1>2. NobodyAborts'
  BY DEF NobodyAborts
<1>3. \A u \in Station : InTransit(u)' /\ Stored(u)'
  BY Peers
<1>. QED
  BY <1>1, <1>2, <1>3, PartsNext

\* What a step may use.
LEMMA Given ==
    ASSUME IInv
    PROVE  /\ aborted = {} /\ Windows /\ WindowTypes /\ FlagTypes /\ ReceiverTypes
           /\ chan \in [Station -> Seq(Frame)]
           /\ timer \in [Station -> SUBSET SeqNr]
           /\ \A u \in Station : /\ WindowIs(u) /\ TimersAre(u)
                                 /\ InTransit(u) /\ Stored(u)
BY Parts DEF NobodyAborts, TypeOK, LinkTypeOK, Windows, WindowTypes, ReceiverTypes

LEMMA BuiltFrames ==
    ASSUME Windows, NEW s \in Station
    PROVE  /\ \A q \in SeqNr, p \in Nat :
                 /\ data_frame(s, q, p) \in Frame
                 /\ data_frame(s, q, p).kind = "DATA"
                 /\ data_frame(s, q, p).seq = q /\ data_frame(s, q, p).pkt = p
                 /\ data_frame(s, q, p).ack = plus(rpackets[s], MAX_SEQ)
           /\ \A k \in {"ACK", "NAK"} :
                 /\ control_frame(s, k) \in Frame
                 /\ control_frame(s, k).kind = k
                 /\ control_frame(s, k).ack = plus(rpackets[s], MAX_SEQ)
BY LastAcked DEF data_frame, control_frame, Frame

\* An outstanding frame is sent again from its buffer.
LEMMA KeptFrame ==
    ASSUME Windows, NEW s \in Station,
           NEW l \in Acknowledged(s) .. pkt_no[s] - 1, NEW seq, seq = number(l)
    PROVE  /\ kept_frame(s, seq) \in Frame
           /\ kept_frame(s, seq).pkt \in 1 .. pkt_no[s]
           /\ kept_frame(s, seq).seq = number(kept_frame(s, seq).pkt - 1)
           /\ pkt_no[s] < kept_frame(s, seq).pkt + NR_BUFS
           /\ kept_frame(s, seq).ack = plus(rpackets[s], MAX_SEQ)
<1>1. WindowTypes /\ WindowIs(s)
  BY DEF Windows
<1>2. PICK a \in Nat, p \in Nat :
         a = Acknowledged(s) /\ p = pkt_no[s] /\ p <= a + NR_BUFS
  BY <1>1, CountsAre
<1>3. l \in a .. p - 1 /\ NR_BUFS \in Nat
  BY <1>2, Sizes
<1>4. /\ l \in Nat /\ l + 1 \in 1 .. p /\ (l + 1) - 1 = l /\ p < (l + 1) + NR_BUFS
      /\ l + 1 \in Nat
  BY <1>2, <1>3
<1>5. out_buf[s][seq % NR_BUFS] = l + 1
  BY <1>1, <1>2, <1>3 DEF WindowIs
<1>6. kept_frame(s, seq) = data_frame(s, seq, l + 1) /\ seq \in SeqNr
  BY <1>4, <1>5, NumberType DEF kept_frame
<1>. QED
  BY <1>2, <1>4, <1>6, BuiltFrames

LEMMA InitIInv == Init => IInv
<1>. SUFFICES ASSUME Init PROVE IInv
  OBVIOUS
<1>1. Windows
  BY WindowsInit DEF Init
<1>2. TypeOK /\ NobodyAborts
  <2>1. <<>> \in Seq(Frame)
    OBVIOUS
  <2>2. NR_BUFS \in SeqNr /\ 0 \in Nat
    BY Sizes DEF SeqNr
  <2>. QED
    BY <1>1, <2>1, <2>2 DEF Init, LinkInit, TypeOK, LinkTypeOK, Windows,
                            WindowTypes, FlagTypes, NobodyAborts
<1>3. ASSUME NEW u \in Station PROVE InTransit(u)
  <2>1. chan[u] = <<>> /\ chan[Peer(u)] = <<>>
    BY Peers DEF Init, LinkInit
  <2>. QED
    BY <2>1, NothingInTransit DEF InTransit
<1>4. ASSUME NEW u \in Station PROVE Stored(u)
  <2>1. /\ too_far[u] = NR_BUFS /\ rpackets[u] = 0
        /\ \A i \in Slot : ~arrived[u][i]
    BY DEF Init, LinkInit
  <2>2. NR_BUFS \in 0 .. MAX_SEQ /\ 0 + NR_BUFS = NR_BUFS /\ MAX_SEQ \in Nat
    BY Sizes
  <2>3. number(0 + NR_BUFS) = NR_BUFS
    BY <2>2 DEF number
  <2>4. number(0) % NR_BUFS \in Slot
    BY NumberSlot
  <2>5. \A n \in 0 .. 0 + NR_BUFS - 1 : number(n) % NR_BUFS \in Slot
    BY NumberSlot
  <2>. QED
    BY <2>1, <2>3, <2>4, <2>5 DEF Stored
<1>. QED
  BY <1>1, <1>2, <1>3, <1>4, Parts

(***************************************************************************)
(* What sending and taking frames does to InTransit and to Stored.         *)
(***************************************************************************)

\* Each of the frames hs was under way from v already, or is so new that
\* the window v had ends behind it.
NoOldData(hs, v) == \A i \in 1 .. Len(hs) :
    \/ \E j \in 1 .. Len(chan[v]) : hs[i] = chan[v][j]
    \/ hs[i].kind = "DATA" => /\ hs[i].pkt \in Nat
                              /\ pkt_no[v] < hs[i].pkt + NR_BUFS

\* Stored speaks of frames under way: taking some away, or sending frames of
\* the sender's window, keeps it.
LEMMA StoredKept ==
    ASSUME IInv, NEW u \in Station, NEW v, v = Peer(u),
           pkt_no[v] <= pkt_no'[v], pkt_no'[v] \in Nat,
           rpackets'[u] = rpackets[u], too_far'[u] = too_far[u],
           arrived'[u] = arrived[u], in_buf'[u] = in_buf[u],
           NEW hs, hs = chan'[v],
           NoOldData(hs, v)
    PROVE  Stored(u)'
<1>1. /\ Stored(u) /\ v \in Station /\ pkt_no[v] \in Nat /\ rpackets[u] \in Nat
      /\ NR_BUFS \in Nat
  BY Given, Peers, Sizes DEF WindowTypes
<1>2. ASSUME NEW n \in rpackets[u] .. rpackets[u] + NR_BUFS - 1,
             arrived[u][number(n) % NR_BUFS]
      PROVE  n < pkt_no'[v] /\ NoneOlder(hs, n + 1)
  <2>1. n < pkt_no[v] /\ NoneOlder(chan[v], n + 1) /\ n \in Nat
    BY <1>1, <1>2 DEF Stored
  <2>2. ASSUME NEW i \in 1 .. Len(hs), hs[i].kind = "DATA"
        PROVE  n + 1 < hs[i].pkt + NR_BUFS
    <3>1. CASE \E j \in 1 .. Len(chan[v]) : hs[i] = chan[v][j]
      BY <2>1, <2>2, <3>1 DEF NoneOlder
    <3>2. CASE hs[i].pkt \in Nat /\ pkt_no[v] < hs[i].pkt + NR_BUFS
      <4>1. PICK x, p : x = hs[i].pkt /\ p = pkt_no[v]
        OBVIOUS
      <4>2. x \in Nat /\ p \in Nat /\ p < x + NR_BUFS /\ n < p /\ n \in Nat
        BY <1>1, <2>1, <3>2, <4>1
      <4>3. n + 1 < x + NR_BUFS
        BY <1>1, <4>2
      <4>. QED
        BY <4>1, <4>3
    <3>. QED
      BY <2>2, <3>1, <3>2 DEF NoOldData
  <2>. QED
    BY <1>1, <2>1, <2>2 DEF NoneOlder
<1>. QED
  BY <1>1, <1>2 DEF Stored

\* What s sends: packets of its window, and the acknowledgement of what it
\* has had.
Sendable(g, s) ==
    /\ g \in Seq(Frame)
    /\ \A i \in 1 .. Len(g) :
          /\ g[i].ack = plus(rpackets[s], MAX_SEQ)
          /\ g[i].kind = "DATA" =>
                /\ g[i].pkt \in 1 .. pkt_no[s]
                /\ g[i].seq = number(g[i].pkt - 1)
                /\ pkt_no[s] < g[i].pkt + NR_BUFS

LEMMA SendableFrames ==
    ASSUME NEW s \in Station
    PROVE  /\ Sendable(<<>>, s)
           /\ \A f \in Frame :
                 /\ f.ack = plus(rpackets[s], MAX_SEQ)
                 /\ f.kind = "DATA" =>
                       /\ f.pkt \in 1 .. pkt_no[s]
                       /\ f.seq = number(f.pkt - 1)
                       /\ pkt_no[s] < f.pkt + NR_BUFS
                 => Sendable(<<f>>, s)
<1>1. <<>> \in Seq(Frame) /\ 1 .. Len(<<>>) = {}
  OBVIOUS
<1>. QED
  BY <1>1, OneFrame DEF Sendable

\* Receiver v keeps what it has stored when its peer s sends such frames.
LEMMA StoredAfterSending ==
    ASSUME IInv, NEW s \in Station, NEW g, Sendable(g, s),
           chan'[s] = chan[s] \o g, pkt_no'[s] = pkt_no[s],
           rpackets'[Peer(s)] = rpackets[Peer(s)],
           too_far'[Peer(s)] = too_far[Peer(s)],
           arrived'[Peer(s)] = arrived[Peer(s)],
           in_buf'[Peer(s)] = in_buf[Peer(s)]
    PROVE  Stored(Peer(s))'
<1>. DEFINE v == Peer(s)
            hs == chan'[s]
<1>1. v \in Station /\ Peer(v) = s /\ pkt_no[s] \in Nat /\ chan[s] \in Seq(Frame)
  BY Given, Peers DEF WindowTypes
<1>2. /\ hs \in Seq(Frame) /\ Len(chan[s]) \in Nat
      /\ \A i \in 1 .. Len(chan[s]) : hs[i] = chan[s][i]
      /\ \A i \in 1 .. Len(hs) : i > Len(chan[s]) =>
            hs[i] = g[i - Len(chan[s])] /\ i - Len(chan[s]) \in 1 .. Len(g)
  BY <1>1, ConcatIs DEF Sendable
<1>. HIDE DEF hs
<1>3. ASSUME NEW i \in 1 .. Len(hs)
      PROVE  \/ \E j \in 1 .. Len(chan[s]) : hs[i] = chan[s][j]
             \/ hs[i].kind = "DATA" => /\ hs[i].pkt \in Nat
                                       /\ pkt_no[s] < hs[i].pkt + NR_BUFS
  <2>1. CASE i > Len(chan[s])
    <3>1. PICK j \in 1 .. Len(g) : hs[i] = g[j]
      BY <1>2, <2>1
    <3>2. hs[i].kind = "DATA" =>
             hs[i].pkt \in 1 .. pkt_no[s] /\ pkt_no[s] < hs[i].pkt + NR_BUFS
      BY <3>1 DEF Sendable
    <3>. QED
      BY <1>1, <3>2
  <2>2. CASE ~(i > Len(chan[s]))
    <3>1. i \in 1 .. Len(chan[s])
      BY <1>2, <2>2
    <3>. QED
      BY <1>2, <3>1
  <2>. QED
    BY <2>1, <2>2
<1>4. hs = chan'[s] /\ pkt_no[s] <= pkt_no'[s] /\ pkt_no'[s] \in Nat /\ s = Peer(v)
  BY <1>1 DEF hs
<1>6. NoOldData(hs, s)
  BY <1>1, <1>3 DEF NoOldData
<1>. HIDE DEF v
<1>5. Stored(v)'
  BY <1>1, <1>4, <1>6, StoredKept DEF v
<1>. QED
  BY <1>5 DEF v

\* Receiver s keeps what it has stored when it takes a frame off the channel.
LEMMA StoredAfterTaking ==
    ASSUME IInv, NEW s \in Station, frame_arrived(s),
           chan'[Peer(s)] = Tail(chan[Peer(s)]),
           pkt_no'[Peer(s)] = pkt_no[Peer(s)],
           rpackets'[s] = rpackets[s], too_far'[s] = too_far[s],
           arrived'[s] = arrived[s], in_buf'[s] = in_buf[s]
    PROVE  Stored(s)'
<1>0. PICK v : v = Peer(s)
  OBVIOUS
<1>1. /\ v \in Station /\ pkt_no[v] \in Nat /\ chan[v] \in Seq(Frame)
      /\ chan[v] # <<>>
  BY <1>0, Given, Peers DEF WindowTypes, frame_arrived
<1>2. /\ Tail(chan[v]) \in Seq(Frame) /\ Len(chan[v]) \in Nat
      /\ Len(Tail(chan[v])) = Len(chan[v]) - 1
      /\ \A i \in 1 .. Len(chan[v]) - 1 : Tail(chan[v])[i] = chan[v][i + 1]
  BY <1>1, TailIs
<1>3. ASSUME NEW i \in 1 .. Len(Tail(chan[v]))
      PROVE  \E j \in 1 .. Len(chan[v]) : Tail(chan[v])[i] = chan[v][j]
  <2>1. i \in 1 .. Len(chan[v]) - 1 /\ i + 1 \in 1 .. Len(chan[v])
    BY <1>2
  <2>. QED
    BY <1>2, <2>1
<1>4. PICK hs : hs = Tail(chan[v])
  OBVIOUS
<1>5. /\ hs = chan'[v] /\ pkt_no[v] <= pkt_no'[v] /\ pkt_no'[v] \in Nat
      /\ v = Peer(s)
      /\ \A i \in 1 .. Len(hs) : \E j \in 1 .. Len(chan[v]) : hs[i] = chan[v][j]
  BY <1>0, <1>1, <1>3, <1>4
<1>6. NoOldData(hs, v)
  BY <1>5 DEF NoOldData
<1>. QED
  BY <1>5, <1>6, StoredKept

\* s takes a frame that acknowledges x packets, takes in k packets, and sends
\* the frames of g.
LEMMA Exchanged ==
    ASSUME IInv, NEW s \in Station, frame_arrived(s),
           NEW g, Sendable(g, s),
           chan'[s] = chan[s] \o g, chan'[Peer(s)] = Tail(chan[Peer(s)]),
           NEW x \in Acknowledged(s) .. rpackets[Peer(s)],
           AcksInOrder(Tail(chan[Peer(s)]), Acking, x, rpackets[Peer(s)]),
           NEW k \in Nat, rpackets'[s] = rpackets[s] + k,
           DataInOrder(Tail(chan[Peer(s)]), pkt_no[Peer(s)], rpackets[s] + k),
           rpackets'[Peer(s)] = rpackets[Peer(s)], UNCHANGED pkt_no,
           Acknowledged(s)' = x, Acknowledged(Peer(s))' = Acknowledged(Peer(s))
    PROVE  InTransit(s)' /\ InTransit(Peer(s))'
<1>. DEFINE v == Peer(s)
<1>1. /\ v \in Station /\ v # s /\ Peer(v) = s
  BY Peers
<1>2. /\ WindowTypes /\ WindowIs(s) /\ WindowIs(v) /\ InTransit(s) /\ InTransit(v)
      /\ chan[s] \in Seq(Frame)
  BY <1>1, Given
<1>3. InTransit(s)'
  <2>1. PICK p \in Nat, h \in Nat :
           /\ p = pkt_no[s] /\ h = rpackets[v] /\ h <= p /\ p <= p
           /\ DataInOrder(chan[s], p, h)
    BY <1>2, CountsAre DEF WindowIs, InTransit
  <2>2. DataInOrder(chan[s] \o g, p, h)
    BY <1>2, <2>1, DataPut DEF Sendable
  <2>. QED
    BY <2>1, <2>2 DEF InTransit
<1>4. InTransit(v)'
  <2>1. PICK a \in Nat, r \in Nat :
           /\ a = Acknowledged(v) /\ r = rpackets[s] /\ a <= r
           /\ AcksInOrder(chan[s], Acking, a, r)
    BY <1>1, <1>2, CountsAre DEF WindowIs, InTransit
  <2>2. AcksInOrder(chan[s] \o g, Acking, a, r)
    BY <1>2, <2>1, AcksPut DEF Sendable
  <2>3. r + k \in Nat /\ r <= r + k
    BY <2>1
  <2>4. AcksInOrder(chan[s] \o g, Acking, a, r + k)
    BY <2>1, <2>2, <2>3, AcksHad
  <2>. QED
    BY <1>1, <2>1, <2>4 DEF InTransit
<1>. QED
  BY <1>3, <1>4

(***************************************************************************)
(* The actions.                                                            *)
(***************************************************************************)
LEMMA StepNetworkLayerReady ==
    ASSUME IInv, NEW s \in Station, NetworkLayerReady(s)
    PROVE  IInv' /\ Sends(s)
<1>. DEFINE v == Peer(s)
            f == data_frame(s, next_frame_to_send[s], pkt_no[s] + 1)
            hs == chan[s] \o <<f>>
<1>1. /\ v \in Station /\ v # s /\ Peer(v) = s
  BY Peers
<1>2. /\ aborted = {} /\ Windows /\ WindowTypes /\ FlagTypes /\ ReceiverTypes
      /\ InTransit(s) /\ InTransit(v) /\ WindowIs(s) /\ WindowIs(v)
      /\ chan \in [Station -> Seq(Frame)]
  BY <1>1, Given
<1>3. /\ pkt_no[s] \in Nat /\ next_frame_to_send[s] \in SeqNr
      /\ next_frame_to_send[s] = number(pkt_no[s])
      /\ pkt_no[s] + 1 \in Nat
      /\ rpackets[v] \in Nat /\ rpackets[v] <= pkt_no[s]
  <2>1. /\ pkt_no[s] \in Nat /\ rpackets[v] \in Nat
    BY <1>2, CountsAre
  <2>2. /\ next_frame_to_send[s] \in SeqNr
        /\ next_frame_to_send[s] = number(pkt_no[s]) /\ rpackets[v] <= pkt_no[s]
    BY <1>2 DEF WindowTypes, WindowTypeOK, WindowIs
  <2>. QED
    BY <2>1, <2>2
<1>4. /\ f \in Frame /\ f.kind = "DATA"
      /\ f.seq = next_frame_to_send[s] /\ f.pkt = pkt_no[s] + 1
      /\ f.ack = plus(rpackets[s], MAX_SEQ)
  BY <1>2, <1>3, BuiltFrames
<1>. HIDE DEF f
<1>5. /\ put_frame(s, chan, <<f>>)
      /\ UNCHANGED <<rpackets, aborted, ack_expected, frame_expected, receiverVars>>
      /\ ReceiverTypes'
  BY <1>2 DEF NetworkLayerReady, f, set_ack_timer, ReceiverTypes, receiverVars
<1>6. <<f>> \in Seq(Frame) /\ \A i \in 1 .. Len(<<f>>) : <<f>>[i] = f
  BY <1>4, OneFrame
<1>7. /\ chan' \in [Station -> Seq(Frame)]
      /\ chan'[s] = hs /\ chan'[v] = chan[v]
      /\ inform_phl_ready' \in [Station -> BOOLEAN]
      /\ phl_ready' \in [Station -> BOOLEAN]
  BY <1>2, <1>5, <1>6, PutFrame
<1>8. /\ Windows'
      /\ pkt_no'[s] = pkt_no[s] + 1 /\ pkt_no'[v] = pkt_no[v]
      /\ \A u \in Station : Acknowledged(u)' = Acknowledged(u)
      /\ room(nbuffered[s])
  BY <1>2, <1>7, SendTurn DEF NetworkLayerReady
<1>9. InTransit(s)'
  <2>1. DataInOrder(hs, pkt_no[s] + 1, rpackets[v])
    BY <1>2, <1>3, <1>4, NewDataPut DEF InTransit
  <2>2. DataInOrder(chan'[s], pkt_no'[s], rpackets'[v])
    BY <1>5, <1>7, <1>8, <2>1
  <2>. QED
    BY <1>2, <1>5, <1>7, <1>8, <2>2 DEF InTransit
<1>10. InTransit(v)'
  <2>1. PICK a \in Nat, r \in Nat :
           /\ a = Acknowledged(v) /\ r = rpackets[s] /\ a <= r
           /\ AcksInOrder(chan[s], Acking, a, r)
    BY <1>1, <1>2, CountsAre DEF WindowIs, InTransit
  <2>2. AcksInOrder(chan[s] \o <<f>>, Acking, a, r)
    BY <1>2, <1>4, <1>6, <2>1, AcksPut
  <2>. QED
    BY <1>1, <1>2, <1>5, <1>7, <1>8, <2>1, <2>2 DEF InTransit
<1>11. Stored(s)' /\ Stored(v)'
  <2>1. Stored(s)'
    BY <1>5, <1>7, <1>8, Given DEF Stored, receiverVars
  <2>2. ASSUME NEW i \in 1 .. Len(hs)
        PROVE  \/ \E j \in 1 .. Len(chan[s]) : hs[i] = chan[s][j]
               \/ hs[i].pkt \in Nat /\ pkt_no[s] < hs[i].pkt + NR_BUFS
    <3>1. /\ Len(chan[s]) \in Nat
          /\ \A j \in 1 .. Len(chan[s]) : hs[j] = chan[s][j]
          /\ \A j \in 1 .. Len(hs) : j > Len(chan[s]) =>
                hs[j] = <<f>>[j - Len(chan[s])] /\ j - Len(chan[s]) \in 1 .. Len(<<f>>)
      BY <1>2, <1>6, ConcatIs
    <3>2. CASE i > Len(chan[s])
      <4>1. hs[i] = f
        BY <1>6, <3>1, <3>2
      <4>2. pkt_no[s] < (pkt_no[s] + 1) + NR_BUFS
        BY <1>3, Sizes
      <4>. QED
        BY <1>3, <1>4, <4>1, <4>2
    <3>3. CASE ~(i > Len(chan[s]))
      <4>1. i \in 1 .. Len(chan[s])
        BY <3>1, <3>3
      <4>. QED
        BY <3>1, <4>1
    <3>. QED
      BY <3>2, <3>3
  <2>3. /\ hs = chan'[s] /\ s = Peer(v) /\ v \in Station
        /\ pkt_no[s] <= pkt_no'[s] /\ pkt_no'[s] \in Nat
    BY <1>1, <1>3, <1>7, <1>8
  <2>. HIDE DEF v, hs
  <2>5. NoOldData(hs, s)
    BY <2>2 DEF NoOldData
  <2>4. Stored(v)'
    BY <1>5, <2>3, <2>5, StoredKept DEF receiverVars
  <2>. QED
    BY <2>1, <2>4
<1>12. Sends(s)
  BY <1>5, <1>8 DEF Sends, NetworkLayerReady, take_packet, get_packet
<1>. QED
  BY <1>2, <1>5, <1>7, <1>8, <1>9, <1>10, <1>11, <1>12, Kept

\* Frames are sent, and nothing is received.
LEMMA StepSent ==
    ASSUME IInv, NEW s \in Station, NEW g, Sendable(g, s), put_frame(s, chan, g),
           ack_timer' \in [Station -> BOOLEAN],
           UNCHANGED <<timer, pkt_no, rpackets, aborted, windowVars, receiverVars>>,
           loop_end(s, room(nbuffered[s]))
    PROVE  IInv' /\ LeavesLink
<1>. DEFINE v == Peer(s)
<1>1. /\ v \in Station /\ v # s /\ Peer(v) = s
  BY Peers
<1>2. /\ aborted = {} /\ Windows /\ WindowTypes /\ FlagTypes /\ ReceiverTypes
      /\ InTransit(s) /\ InTransit(v) /\ WindowIs(s) /\ WindowIs(v)
      /\ chan \in [Station -> Seq(Frame)] /\ g \in Seq(Frame)
  BY <1>1, Given DEF Sendable
<1>3. /\ chan' \in [Station -> Seq(Frame)]
      /\ chan'[s] = chan[s] \o g /\ chan'[v] = chan[v]
      /\ inform_phl_ready' \in [Station -> BOOLEAN]
      /\ phl_ready' \in [Station -> BOOLEAN]
  BY <1>2, PutFrame
<1>4. /\ Windows'
      /\ \A u \in Station : Acknowledged(u)' = Acknowledged(u)
  BY <1>2, <1>3, QuietTurn DEF windowVars
<1>5. InTransit(s)'
  <2>1. PICK p \in Nat, r \in Nat :
           /\ p = pkt_no[s] /\ r = rpackets[v] /\ r <= p /\ p <= p
           /\ DataInOrder(chan[s], p, r) /\ chan[s] \in Seq(Frame)
    <3>1. pkt_no[s] \in Nat /\ rpackets[v] \in Nat
      BY <1>2, CountsAre
    <3>2. rpackets[v] <= pkt_no[s] /\ pkt_no[s] <= pkt_no[s]
      BY <1>2, <3>1 DEF WindowIs
    <3>3. DataInOrder(chan[s], pkt_no[s], rpackets[v]) /\ chan[s] \in Seq(Frame)
      BY <1>2 DEF InTransit
    <3>. QED
      BY <3>1, <3>2, <3>3
  <2>2. DataInOrder(chan[s] \o g, p, r)
    BY <1>2, <2>1, DataPut DEF Sendable
  <2>. QED
    BY <1>2, <1>3, <1>4, <2>1, <2>2 DEF InTransit
<1>6. InTransit(v)'
  <2>1. PICK a \in Nat, r \in Nat :
           /\ a = Acknowledged(v) /\ r = rpackets[s] /\ a <= r
           /\ AcksInOrder(chan[s], Acking, a, r)
    BY <1>1, <1>2, CountsAre DEF WindowIs, InTransit
  <2>2. AcksInOrder(chan[s] \o g, Acking, a, r)
    BY <1>2, <2>1, AcksPut DEF Sendable
  <2>. QED
    BY <1>1, <1>2, <1>3, <1>4, <2>1, <2>2 DEF InTransit
<1>7. Stored(s)' /\ Stored(v)'
  <2>1. Stored(v)'
    BY <1>1, <1>3, StoredAfterSending DEF receiverVars
  <2>2. Stored(s)'
    BY <1>3, Given DEF Stored, receiverVars
  <2>. QED
    BY <2>1, <2>2
<1>8. ReceiverTypes'
  BY <1>2 DEF ReceiverTypes, receiverVars
<1>. QED
  BY <1>2, <1>3, <1>4, <1>5, <1>6, <1>7, <1>8, Kept DEF LeavesLink

LEMMA StepAckTimeout ==
    ASSUME IInv, NEW s \in Station, AckTimeout(s)
    PROVE  IInv' /\ LeavesLink
<1>. DEFINE f == control_frame(s, "ACK")
<1>1. Windows /\ ReceiverTypes
  BY Given
<1>2. f \in Frame /\ f.kind = "ACK" /\ f.ack = plus(rpackets[s], MAX_SEQ)
  BY <1>1, BuiltFrames
<1>3. /\ put_frame(s, chan, <<f>>) /\ ack_timer' \in [Station -> BOOLEAN]
      /\ UNCHANGED <<timer, pkt_no, rpackets, aborted, windowVars, receiverVars>>
      /\ loop_end(s, room(nbuffered[s]))
  BY <1>1 DEF AckTimeout, set_ack_timer, ReceiverTypes
<1>. HIDE DEF f
<1>4. Sendable(<<f>>, s)
  BY <1>2, SendableFrames
<1>. QED
  BY <1>3, <1>4, StepSent

LEMMA StepDataTimeout ==
    ASSUME IInv, NEW s \in Station, DataTimeout(s)
    PROVE  IInv' /\ LeavesLink
<1>1. Windows /\ ReceiverTypes /\ TimersAre(s)
  BY Given
<1>2. PICK nr \in SeqNr : Expires(s, nr)
  BY DEF DataTimeout
<1>. DEFINE f == kept_frame(s, nr)
<1>3. /\ put_frame(s, chan, <<f>>) /\ ack_timer' \in [Station -> BOOLEAN]
      /\ UNCHANGED <<timer, pkt_no, rpackets, aborted, windowVars, receiverVars>>
      /\ loop_end(s, room(nbuffered[s])) /\ nr \in timer[s]
  BY <1>1, <1>2 DEF Expires, set_ack_timer, ReceiverTypes, timer_expired
<1>4. PICK l \in Acknowledged(s) .. pkt_no[s] - 1 : nr = number(l)
  BY <1>1, <1>3 DEF TimersAre
<1>5. /\ f \in Frame /\ f.pkt \in 1 .. pkt_no[s]
      /\ f.seq = number(f.pkt - 1) /\ pkt_no[s] < f.pkt + NR_BUFS
      /\ f.ack = plus(rpackets[s], MAX_SEQ)
  BY <1>1, <1>4, KeptFrame
<1>. HIDE DEF f
<1>6. Sendable(<<f>>, s)
  BY <1>5, SendableFrames
<1>. QED
  BY <1>3, <1>6, StepSent

\* What IInv says of the frame that arrives, and of those behind it.
LEMMA Arrives ==
    ASSUME IInv, NEW s \in Station, frame_arrived(s)
    PROVE  /\ DataInOrder(Tail(chan[Peer(s)]), pkt_no[Peer(s)], rpackets[s])
           /\ AcksInOrder(Tail(chan[Peer(s)]), Acking, Acknowledged(s),
                          rpackets[Peer(s)])
           /\ \E x \in Acknowledged(s) .. rpackets[Peer(s)] :
                 /\ Arriving(s).ack = plus(x, MAX_SEQ)
                 /\ AcksInOrder(Tail(chan[Peer(s)]), Acking, x, rpackets[Peer(s)])
           /\ Arriving(s).kind = "DATA" =>
                 /\ Arriving(s).pkt \in 1 .. pkt_no[Peer(s)]
                 /\ Arriving(s).seq = number(Arriving(s).pkt - 1)
                 /\ rpackets[s] < Arriving(s).pkt + NR_BUFS
                 /\ NoneOlder(Tail(chan[Peer(s)]), Arriving(s).pkt)
           /\ recv_frame(s) \in [Station -> Seq(Frame)]
           /\ recv_frame(s)[Peer(s)] = Tail(chan[Peer(s)])
           /\ recv_frame(s)[s] = chan[s]
<1>. DEFINE v == Peer(s)
            f == Arriving(s)
<1>1. /\ v \in Station /\ v # s /\ Peer(v) = s
  BY Peers
<1>2. /\ WindowTypes /\ InTransit(s) /\ InTransit(v) /\ WindowIs(s)
      /\ chan \in [Station -> Seq(Frame)]
  BY <1>1, Given
<1>3. /\ recv_frame(s) \in [Station -> Seq(Frame)]
      /\ recv_frame(s)[v] = Tail(chan[v]) /\ recv_frame(s)[s] = chan[s]
      /\ chan[v] \in Seq(Frame) /\ chan[v] # <<>> /\ f = Head(chan[v])
      /\ f \in Frame
  BY <1>2, RecvFrame
<1>4. /\ Acknowledged(s) \in Nat /\ rpackets[v] \in Nat
      /\ rpackets[v] - Acknowledged(s) <= MAX_SEQ
  BY <1>2, CountsAre
<1>5. f.kind \in Acking
  BY <1>3 DEF Frame, Acking
<1>6. /\ AcksInOrder(Tail(chan[v]), Acking, Acknowledged(s), rpackets[v])
      /\ \E x \in Acknowledged(s) .. rpackets[v] :
            /\ f.ack = plus(x, MAX_SEQ)
            /\ AcksInOrder(Tail(chan[v]), Acking, x, rpackets[v])
  BY <1>2, <1>3, <1>4, <1>5, AcksTaken DEF InTransit
<1>7. /\ DataInOrder(Tail(chan[v]), pkt_no[v], rpackets[s])
      /\ f.kind = "DATA" =>
            /\ f.pkt \in 1 .. pkt_no[v] /\ f.seq = number(f.pkt - 1)
            /\ rpackets[s] < f.pkt + NR_BUFS
            /\ NoneOlder(Tail(chan[v]), f.pkt)
  BY <1>1, <1>2, <1>3, DataTaken DEF InTransit, NoneOlder
<1>. QED
  BY <1>3, <1>6, <1>7

\* A frame arrives and leaves the windows as they are: a damaged one, or one
\* that is lost.
LEMMA StepQuiet ==
    ASSUME IInv, NEW s \in Station,
           \/ PhysicalLayerReady(s) \/ BadFrameReceived(s)
           \/ FrameLost(s) /\ UNCHANGED <<windowVars, ack_timer, receiverVars>>
    PROVE  IInv' /\ LeavesLink
<1>. DEFINE v == Peer(s)
            f == control_frame(s, "NAK")
<1>1. /\ v \in Station /\ v # s /\ Peer(v) = s
  BY Peers
<1>2. /\ aborted = {} /\ Windows /\ WindowTypes /\ FlagTypes /\ ReceiverTypes
      /\ chan \in [Station -> Seq(Frame)]
      /\ InTransit(s) /\ InTransit(v) /\ Stored(s) /\ Stored(v) /\ WindowIs(s)
  BY <1>1, Given
<1>3. /\ UNCHANGED <<timer, pkt_no, rpackets, aborted>>
      /\ UNCHANGED windowVars /\ UNCHANGED <<arrived, in_buf, too_far>>
      /\ loop_end(s, room(nbuffered[s])) \/ UNCHANGED network_layer_active
      /\ ReceiverTypes'
  BY <1>2 DEF PhysicalLayerReady, BadFrameReceived, FrameLost, ReceiverTypes,
              receiverVars, set_ack_timer
<1>4. CASE PhysicalLayerReady(s)
  <2>1. /\ UNCHANGED chan
        /\ inform_phl_ready' \in [Station -> BOOLEAN]
        /\ phl_ready' \in [Station -> BOOLEAN]
    BY <1>2, <1>4 DEF PhysicalLayerReady, FlagTypes
  <2>2. Windows' /\ \A u \in Station : Acknowledged(u)' = Acknowledged(u)
    BY <1>2, <1>3, <2>1, QuietTurn DEF windowVars
  <2>3. InTransit(s)' /\ InTransit(v)' /\ Stored(s)' /\ Stored(v)'
    BY <1>1, <1>2, <1>3, <2>1, <2>2 DEF InTransit, Stored
  <2>. QED
    BY <1>2, <1>3, <2>1, <2>2, <2>3, Kept DEF LeavesLink
<1>5. CASE ~PhysicalLayerReady(s)
  <2>1. PICK g : /\ Sendable(g, s) /\ frame_arrived(s)
                 /\ chan' \in [Station -> Seq(Frame)]
                 /\ chan'[s] = chan[s] \o g /\ chan'[v] = Tail(chan[v])
                 /\ inform_phl_ready' \in [Station -> BOOLEAN]
                 /\ phl_ready' \in [Station -> BOOLEAN]
    <3>1. CASE FrameLost(s)
      <4>1. /\ frame_arrived(s) /\ chan' = recv_frame(s)
            /\ inform_phl_ready' \in [Station -> BOOLEAN]
            /\ phl_ready' \in [Station -> BOOLEAN]
        BY <1>2, <3>1 DEF FrameLost, FlagTypes
      <4>2. chan[s] \o <<>> = chan[s]
        BY <1>2, ConcatEmptySeq
      <4>. QED
        BY <4>1, <4>2, Arrives, SendableFrames
    <3>2. CASE BadFrameReceived(s)
      <4>. DEFINE g == IF no_nak[s] THEN <<f>> ELSE <<>>
                  ch == recv_frame(s)
      <4>1. frame_arrived(s) /\ put_frame(s, ch, g)
        BY <3>2 DEF BadFrameReceived
      <4>2. f \in Frame /\ f.kind = "NAK" /\ f.ack = plus(rpackets[s], MAX_SEQ)
        BY <1>2, BuiltFrames
      <4>. HIDE DEF f
      <4>3. Sendable(<<f>>, s) /\ Sendable(<<>>, s)
        BY <4>2, SendableFrames
      <4>4. Sendable(g, s) /\ g \in Seq(Frame)
        BY <4>3 DEF Sendable
      <4>5. /\ ch \in [Station -> Seq(Frame)]
            /\ ch[s] = chan[s] /\ ch[v] = Tail(chan[v])
        BY <4>1, Arrives
      <4>. HIDE DEF g, ch
      <4>6. /\ chan' \in [Station -> Seq(Frame)]
            /\ chan'[s] = ch[s] \o g /\ chan'[v] = ch[v]
            /\ inform_phl_ready' \in [Station -> BOOLEAN]
            /\ phl_ready' \in [Station -> BOOLEAN]
        BY <1>2, <4>1, <4>4, <4>5, PutFrame
      <4>. QED
        BY <4>1, <4>4, <4>5, <4>6
    <3>. QED
      BY <1>5, <3>1, <3>2
  <2>2. Windows' /\ \A u \in Station : Acknowledged(u)' = Acknowledged(u)
    BY <1>2, <1>3, <2>1, QuietTurn DEF windowVars
  <2>3. InTransit(s)' /\ InTransit(v)'
    <3>1. /\ Acknowledged(s) \in Acknowledged(s) .. rpackets[v]
          /\ 0 \in Nat /\ rpackets[s] + 0 = rpackets[s]
      <4>1. PICK a \in Nat, h \in Nat, r \in Nat :
               a = Acknowledged(s) /\ h = rpackets[v] /\ r = rpackets[s] /\ a <= h
        BY <1>1, <1>2, CountsAre DEF WindowIs, WindowTypes
      <4>. QED
        BY <4>1
    <3>2. /\ AcksInOrder(Tail(chan[v]), Acking, Acknowledged(s), rpackets[v])
          /\ DataInOrder(Tail(chan[v]), pkt_no[v], rpackets[s] + 0)
      BY <2>1, <3>1, Arrives
    <3>3. /\ rpackets'[s] = rpackets[s] + 0 /\ rpackets'[v] = rpackets[v]
          /\ Acknowledged(s)' = Acknowledged(s) /\ Acknowledged(v)' = Acknowledged(v)
          /\ UNCHANGED pkt_no
      BY <1>1, <1>3, <2>2, <3>1
    <3>. QED
      BY <2>1, <3>1, <3>2, <3>3, Exchanged
  <2>4. Stored(s)'
    BY <1>3, <2>1, StoredAfterTaking
  <2>5. Stored(v)'
    BY <1>3, <2>1, StoredAfterSending
  <2>. QED
    BY <1>2, <1>3, <2>1, <2>2, <2>3, <2>4, <2>5, Kept DEF LeavesLink
<1>. QED
  BY <1>4, <1>5

\* A frame that only acknowledges arrives, and the frames of g are sent.
LEMMA StepAcked ==
    ASSUME IInv, NEW s \in Station, frame_arrived(s),
           NEW g, Sendable(g, s), chan' \in [Station -> Seq(Frame)],
           chan'[s] = chan[s] \o g, chan'[Peer(s)] = Tail(chan[Peer(s)]),
           inform_phl_ready' \in [Station -> BOOLEAN],
           phl_ready' \in [Station -> BOOLEAN],
           ack_timer' \in [Station -> BOOLEAN],
           NEW timers, timers = timer[s],
           process_ack(s, Arriving(s).ack, timers),
           UNCHANGED <<pkt_no, rpackets, aborted, out_buf, next_frame_to_send,
                       frame_expected, receiverVars>>,
           loop_end(s, room(nbuffered'[s]))
    PROVE  IInv' /\ Receives(s)
<1>. DEFINE v == Peer(s)
<1>1. /\ v \in Station /\ v # s /\ Peer(v) = s
  BY Peers
<1>2. /\ aborted = {} /\ Windows /\ WindowTypes /\ ReceiverTypes /\ WindowIs(v)
      /\ rpackets[s] \in Nat
  BY <1>1, Given DEF WindowTypes
<1>3. PICK x \in Acknowledged(s) .. rpackets[v] :
         /\ Arriving(s).ack = plus(x, MAX_SEQ)
         /\ AcksInOrder(Tail(chan[v]), Acking, x, rpackets[v])
  BY Arrives
<1>4. PICK k \in 0 .. MAX_SEQ :
         /\ k = 0 /\ rpackets[s] + k = rpackets[s] /\ rpackets[s] + k <= pkt_no[v]
         /\ rpackets' = [rpackets EXCEPT ![s] = @ + k]
         /\ frame_expected' = [frame_expected EXCEPT ![s] = plus(@, k)]
  BY <1>2, NoneTaken
<1>5. /\ Windows'
      /\ Acknowledged(s)' = x /\ Acknowledged(v)' = Acknowledged(v)
      /\ rpackets'[s] = rpackets[s] + k
      /\ rpackets'[v] = rpackets[v]
  BY <1>2, <1>3, <1>4, ReceiveTurn
<1>6. InTransit(s)' /\ InTransit(v)'
  <2>1. k \in Nat /\ DataInOrder(Tail(chan[v]), pkt_no[v], rpackets[s] + k)
    BY <1>4, Arrives
  <2>. QED
    BY <1>3, <1>5, <2>1, Exchanged
<1>7. Stored(s)' /\ Stored(v)'
  BY StoredAfterTaking, StoredAfterSending DEF receiverVars
<1>8. ReceiverTypes'
  BY <1>2 DEF ReceiverTypes, receiverVars
<1>9. Receives(s)
  <2>1. rpackets[s] \in rpackets[s] .. pkt_no[v]
    BY <1>1, <1>2, <1>4, CountsAre
  <2>. QED
    BY <1>3, <1>4, <1>5, <2>1 DEF Receives
<1>. QED
  BY <1>2, <1>5, <1>6, <1>7, <1>8, <1>9, Kept

LEMMA StepAckReceived ==
    ASSUME IInv, NEW s \in Station, AckReceived(s)
    PROVE  IInv' /\ Receives(s)
<1>1. /\ frame_arrived(s) /\ process_ack(s, Arriving(s).ack, timer[s])
      /\ chan' = recv_frame(s)
      /\ UNCHANGED <<inform_phl_ready, phl_ready, ack_timer>>
      /\ UNCHANGED <<pkt_no, rpackets, aborted, out_buf, next_frame_to_send,
                     frame_expected, receiverVars>>
      /\ loop_end(s, room(nbuffered'[s]))
  BY DEF AckReceived
<1>2. /\ FlagTypes /\ ack_timer \in [Station -> BOOLEAN]
      /\ chan[s] \in Seq(Frame)
  BY Given DEF ReceiverTypes
<1>3. /\ chan' \in [Station -> Seq(Frame)]
      /\ chan'[s] = chan[s] \o <<>> /\ chan'[Peer(s)] = Tail(chan[Peer(s)])
      /\ Sendable(<<>>, s)
  <2>1. chan[s] \o <<>> = chan[s]
    BY <1>2, ConcatEmptySeq
  <2>. QED
    BY <1>1, <2>1, Arrives, SendableFrames
<1>. QED
  BY <1>1, <1>2, <1>3, StepAcked DEF FlagTypes

\* The frame that a NAK asks for is outstanding, so its timer runs already.
LEMMA StepNakReceived ==
    ASSUME IInv, NEW s \in Station, NakReceived(s)
    PROVE  IInv' /\ Receives(s)
<1>. DEFINE v == Peer(s)
            seq == inc(Arriving(s).ack)
            resend == resends(s, seq)
            f == kept_frame(s, seq)
            g == IF resend THEN <<f>> ELSE <<>>
            ch == recv_frame(s)
            timers == IF resend THEN timer[s] \cup {seq} ELSE timer[s]
<1>1. /\ frame_arrived(s) /\ process_ack(s, Arriving(s).ack, timers)
      /\ put_frame(s, ch, g)
      /\ set_ack_timer(s, ack_timer[s] /\ ~resend)
      /\ UNCHANGED <<pkt_no, rpackets, aborted, out_buf, next_frame_to_send,
                     frame_expected, receiverVars>>
      /\ loop_end(s, room(nbuffered'[s]))
  BY DEF NakReceived
<1>2. /\ FlagTypes /\ Windows /\ WindowTypes /\ WindowIs(s) /\ TimersAre(s)
      /\ ack_timer \in [Station -> BOOLEAN]
  BY Given DEF ReceiverTypes
<1>3. ack_timer' \in [Station -> BOOLEAN]
  BY <1>1, <1>2 DEF set_ack_timer
<1>4. PICK x \in Acknowledged(s) .. rpackets[v] : Arriving(s).ack = plus(x, MAX_SEQ)
  BY <1>1, Arrives
<1>5. PICK a \in Nat, p \in Nat, r \in Nat :
         /\ a = Acknowledged(s) /\ p = pkt_no[s] /\ r = rpackets[v]
         /\ p <= a + NR_BUFS /\ r \in a .. p
  BY <1>2, CountsAre
<1>6. /\ x \in Nat /\ a <= x /\ x - a <= MAX_SEQ /\ a <= p /\ p - a <= MAX_SEQ
      /\ x < p => x \in a .. p - 1
  <2>1. x \in a .. r /\ r \in a .. p /\ p <= a + NR_BUFS
    BY <1>5
  <2>2. NR_BUFS \in Nat /\ MAX_SEQ \in Nat /\ NR_BUFS <= MAX_SEQ
    BY Sizes
  <2>. QED
    BY <2>1, <2>2
<1>7. seq = number(x)
  BY <1>4, <1>6, AfterAck
<1>. HIDE DEF seq
<1>8. resend <=> x < p
  <2>1. ack_expected[s] = number(a) /\ next_frame_to_send[s] = number(p)
    BY <1>2, <1>5 DEF WindowIs
  <2>2. between(number(a), number(x), number(p)) <=> x < p
    BY <1>6, BetweenCounts
  <2>. QED
    BY <1>7, <2>1, <2>2 DEF resends
<1>. HIDE DEF resend
<1>9. timers = timer[s]
  <2>1. ASSUME resend PROVE seq \in timer[s]
    <3>1. x \in a .. p - 1
      BY <1>6, <1>8, <2>1
    <3>. QED
      BY <1>2, <1>5, <1>7, <3>1 DEF TimersAre
  <2>. QED
    BY <2>1
<1>10. Sendable(g, s)
  <2>1. ASSUME resend PROVE Sendable(<<f>>, s)
    <3>1. x \in Acknowledged(s) .. pkt_no[s] - 1
      BY <1>5, <1>6, <1>8, <2>1
    <3>2. /\ f \in Frame /\ f.pkt \in 1 .. pkt_no[s]
          /\ f.seq = number(f.pkt - 1) /\ pkt_no[s] < f.pkt + NR_BUFS
          /\ f.ack = plus(rpackets[s], MAX_SEQ)
      BY <1>2, <1>7, <3>1, KeptFrame
    <3>. HIDE DEF f
    <3>. QED
      BY <3>2, SendableFrames
  <2>2. Sendable(<<>>, s)
    BY SendableFrames
  <2>. QED
    BY <2>1, <2>2
<1>11. /\ ch \in [Station -> Seq(Frame)]
       /\ ch[s] = chan[s] /\ ch[v] = Tail(chan[v])
  BY <1>1, Arrives
<1>. HIDE DEF g, ch, timers
<1>12. /\ chan' \in [Station -> Seq(Frame)]
       /\ chan'[s] = ch[s] \o g /\ chan'[v] = ch[v]
       /\ inform_phl_ready' \in [Station -> BOOLEAN]
       /\ phl_ready' \in [Station -> BOOLEAN]
  <2>1. g \in Seq(Frame)
    BY <1>10 DEF Sendable
  <2>. QED
    BY <1>1, <1>2, <1>11, <2>1, PutFrame
<1>. QED
  BY <1>1, <1>3, <1>9, <1>10, <1>11, <1>12, StepAcked

(***************************************************************************)
(* A data frame arrives.  Every packet that is stored belongs in its slot, *)
(* so the run that starts at frame_expected is what put_packet expects.    *)
(***************************************************************************)

\* A set of natural numbers that is not empty has a least element.
LEMMA LeastOf ==
    ASSUME NEW S, S \subseteq Nat, S # {}
    PROVE  \E x \in S : \A y \in S : x <= y
<1>1. PICK x \in S : \A y \in S : ~ (<<y, x>> \in OpToRel(<, Nat))
  BY NatLessThanWellFounded, WFMin
<1>2. ASSUME NEW y \in S PROVE ~ (y < x)
  <2>1. <<y, x>> \in Nat \X Nat /\ <<y, x>>[1] = y /\ <<y, x>>[2] = x
    OBVIOUS
  <2>. QED
    BY <1>1, <2>1, Zenon DEF OpToRel
<1>3. ASSUME NEW y \in S PROVE x <= y
  BY <1>2
<1>. QED
  BY <1>3

LEMMA RunLength ==
    ASSUME NEW s, NEW f
    PROVE  /\ run_length(s, f) \in 0 .. NR_BUFS
           /\ \/ run_length(s, f) = NR_BUFS
              \/ ~arrived_with(s, f)[slot_after(s, run_length(s, f))]
           /\ \A i \in 0 .. run_length(s, f) - 1 :
                 arrived_with(s, f)[slot_after(s, i)]
<1>. DEFINE Ends(n) == n = NR_BUFS \/ ~arrived_with(s, f)[slot_after(s, n)]
            Run(n) == \A i \in 0 .. n - 1 : arrived_with(s, f)[slot_after(s, i)]
            S == {n \in 0 .. NR_BUFS : Ends(n)}
<1>1. NR_BUFS \in Nat /\ NR_BUFS \in 0 .. NR_BUFS
  BY Sizes
<1>2. S \subseteq Nat /\ NR_BUFS \in S
  BY <1>1
<1>3. PICK n \in S : \A m \in S : n <= m
  <2>. HIDE DEF S
  <2>. QED
    BY <1>2, LeastOf
<1>4. ASSUME NEW i \in 0 .. n - 1 PROVE arrived_with(s, f)[slot_after(s, i)]
  <2>1. i \in 0 .. NR_BUFS /\ ~(n <= i)
    BY <1>1
  <2>2. ~Ends(i)
    <3>1. i \notin S
      BY <1>3, <2>1
    <3>. QED
      BY <2>1, <3>1
  <2>. QED
    BY <2>2
<1>5. n \in 0 .. NR_BUFS /\ Ends(n) /\ Run(n)
  BY <1>4
<1>6. run_length(s, f) = CHOOSE m \in 0 .. NR_BUFS : Ends(m) /\ Run(m)
  BY DEF run_length
<1>7. /\ run_length(s, f) \in 0 .. NR_BUFS
      /\ Ends(run_length(s, f)) /\ Run(run_length(s, f))
  <2>. HIDE DEF Ends, Run
  <2>. QED
    BY <1>5, <1>6
<1>. QED
  BY <1>7

\* One window further on, a packet has the same slot.
LEMMA SlotRound ==
    ASSUME NEW n \in Nat
    PROVE  number(n + NR_BUFS) % NR_BUFS = number(n) % NR_BUFS
<1>. DEFINE q == n \div NR_BUFS
            t == n % NR_BUFS
<1>1. NR_BUFS \in Nat \ {0} /\ n + NR_BUFS \in Nat
  BY Sizes
<1>2. q \in Nat /\ t \in 0 .. NR_BUFS - 1 /\ n = NR_BUFS * q + t
  BY <1>1, Division
<1>3. /\ number(n) % NR_BUFS = t
      /\ number(n + NR_BUFS) % NR_BUFS = (n + NR_BUFS) % NR_BUFS
  BY <1>1, NumberSlot
<1>. HIDE DEF q, t
<1>4. q + 1 \in Nat /\ n + NR_BUFS = NR_BUFS * (q + 1) + t
  BY <1>1, <1>2
<1>5. (n + NR_BUFS) % NR_BUFS = t
  BY <1>1, <1>2, <1>4, DivisionUnique
<1>. QED
  BY <1>3, <1>5

\* The slots from frame_expected on.
LEMMA SlotAfter ==
    ASSUME NEW s, NEW r \in Nat, frame_expected[s] = number(r)
    PROVE  \A i \in 0 .. NR_BUFS : slot_after(s, i) = number(r + i) % NR_BUFS
<1>1. \A i \in 0 .. NR_BUFS : i \in 0 .. MAX_SEQ
  BY Sizes
<1>. QED
  BY <1>1, PlusNumber DEF slot_after

\* What s knows when data frame f arrives, with packet l + 1.
LEMMA ArrivesData ==
    ASSUME IInv, NEW s \in Station, frame_arrived(s),
           NEW f, f = Arriving(s), f.kind = "DATA"
    PROVE  \E r \in Nat, l \in Nat, p \in Nat :
              /\ r = rpackets[s] /\ p = pkt_no[Peer(s)]
              /\ f.pkt = l + 1 /\ f.seq = number(l)
              /\ frame_expected[s] = number(r) /\ too_far[s] = number(r + NR_BUFS)
              /\ r <= p /\ l < p /\ l < r + NR_BUFS /\ r <= l + NR_BUFS
              /\ NoneOlder(Tail(chan[Peer(s)]), l + 1)
<1>1. /\ Peer(s) \in Station /\ Peer(Peer(s)) = s
  BY Peers
<1>2. WindowTypes /\ WindowIs(Peer(s)) /\ Stored(s)
  BY <1>1, Given
<1>3. PICK a \in Nat, p \in Nat, r \in Nat :
         /\ a = Acknowledged(Peer(s)) /\ p = pkt_no[Peer(s)] /\ r = rpackets[s]
         /\ p <= a + NR_BUFS /\ r \in a .. p
  BY <1>1, <1>2, CountsAre
<1>4. frame_expected[s] = number(r) /\ too_far[s] = number(r + NR_BUFS)
  BY <1>1, <1>2, <1>3 DEF WindowIs, Stored
<1>5. /\ f.pkt \in 1 .. p /\ f.seq = number(f.pkt - 1)
      /\ r < f.pkt + NR_BUFS
      /\ NoneOlder(Tail(chan[Peer(s)]), f.pkt)
  BY <1>3, Arrives
<1>6. PICK l \in Nat : l = f.pkt - 1 /\ f.pkt = l + 1
  BY <1>5
<1>7. f.seq = number(l) /\ NoneOlder(Tail(chan[Peer(s)]), l + 1)
  BY <1>5, <1>6
<1>8. l + 1 \in 1 .. p /\ r < (l + 1) + NR_BUFS /\ p <= a + NR_BUFS /\ r \in a .. p
  BY <1>3, <1>5, <1>6
<1>9. r <= p /\ l < p /\ l < r + NR_BUFS /\ r <= l + NR_BUFS
  BY <1>8, Sizes
<1>. QED
  BY <1>3, <1>4, <1>6, <1>7, <1>9

\* A frame is taken for one of the window only if it is one: half the
\* numbers are too few for an old frame to look like a new one.
LEMMA WantedIsNew ==
    ASSUME NEW s, NEW r \in Nat, NEW l \in Nat, NEW seq, seq = number(l),
           frame_expected[s] = number(r), too_far[s] = number(r + NR_BUFS),
           l < r + NR_BUFS, r <= l + NR_BUFS, wanted(s, seq)
    PROVE  l \in r .. r + NR_BUFS - 1
<1>1. between(number(r), number(l), number(r + NR_BUFS))
  BY DEF wanted
<1>2. ASSUME l < r PROVE FALSE
  <2>1. PICK m \in Nat : m = l + (MAX_SEQ + 1)
    BY Sizes
  <2>2. PICK c \in Nat : c = r + NR_BUFS
    BY Sizes
  <2>3. number(m) = number(l)
    BY <2>1, Round
  <2>4. /\ r <= m /\ m - r <= MAX_SEQ /\ r <= c /\ c - r <= MAX_SEQ /\ ~(m < c)
    BY <1>2, <2>1, <2>2, TwoWindows
  <2>5. ~between(number(r), number(m), number(c))
    BY <2>4, BetweenCounts
  <2>. QED
    BY <1>1, <2>2, <2>3, <2>5
<1>. QED
  BY <1>2, Sizes

\* With the new frame stored, each packet still waits in its own slot.
LEMMA StoredWith ==
    ASSUME IInv, NEW s \in Station, frame_arrived(s),
           NEW f, f = Arriving(s), f.kind = "DATA",
           NEW n \in rpackets[s] .. rpackets[s] + NR_BUFS - 1,
           arrived_with(s, f)[number(n) % NR_BUFS]
    PROVE  /\ in_buf_with(s, f)[number(n) % NR_BUFS] = n + 1
           /\ n < pkt_no[Peer(s)]
           /\ NoneOlder(Tail(chan[Peer(s)]), n + 1)
<1>. DEFINE v == Peer(s)
<1>1. PICK r \in Nat, l \in Nat, p \in Nat :
         /\ r = rpackets[s] /\ p = pkt_no[v]
         /\ f.pkt = l + 1 /\ f.seq = number(l)
         /\ frame_expected[s] = number(r) /\ too_far[s] = number(r + NR_BUFS)
         /\ r <= p /\ l < p /\ l < r + NR_BUFS /\ r <= l + NR_BUFS
         /\ NoneOlder(Tail(chan[v]), l + 1)
  BY ArrivesData
<1>2. n \in r .. r + NR_BUFS - 1
  BY <1>1
<1>3. n \in Nat
  BY <1>2
<1>. DEFINE slot == number(n) % NR_BUFS
<1>4. slot \in Slot
  BY <1>3, NumberSlot
<1>5. CASE wanted(s, f.seq) /\ slot = f.seq % NR_BUFS
  <2>1. l \in r .. r + NR_BUFS - 1
    BY <1>1, <1>5, WantedIsNew
  <2>2. n = l
    <3>1. number(n) % NR_BUFS = number(l) % NR_BUFS
      BY <1>1, <1>5
    <3>2. NR_BUFS \in Nat
      BY Sizes
    <3>3. ASSUME n < l PROVE FALSE
      <4>1. l - n < NR_BUFS
        BY <1>2, <2>1, <3>2
      <4>. QED
        BY <1>3, <3>1, <3>3, <4>1, SlotDiffers
    <3>4. ASSUME l < n PROVE FALSE
      <4>1. n - l < NR_BUFS
        BY <1>2, <2>1, <3>2
      <4>. QED
        BY <1>3, <3>1, <3>4, <4>1, SlotDiffers
    <3>. QED
      BY <1>3, <3>3, <3>4
  <2>3. in_buf_with(s, f)[slot] = l + 1
    BY <1>1, <1>4, <1>5 DEF in_buf_with
  <2>. QED
    BY <1>1, <2>2, <2>3
<1>6. CASE ~(wanted(s, f.seq) /\ slot = f.seq % NR_BUFS)
  <2>1. arrived[s][slot] /\ in_buf_with(s, f)[slot] = in_buf[s][slot]
    BY <1>4, <1>6 DEF arrived_with, in_buf_with
  <2>2. Stored(s)
    BY Given
  <2>3. in_buf[s][slot] = n + 1 /\ n < pkt_no[v] /\ NoneOlder(chan[v], n + 1)
    BY <2>1, <2>2 DEF Stored
  <2>4. NoneOlder(Tail(chan[v]), n + 1)
    <3>1. chan[v] \in Seq(Frame) /\ chan[v] # <<>>
      BY Given, RecvFrame
    <3>2. /\ Len(chan[v]) \in Nat /\ Len(Tail(chan[v])) = Len(chan[v]) - 1
          /\ \A i \in 1 .. Len(chan[v]) - 1 : Tail(chan[v])[i] = chan[v][i + 1]
      BY <3>1, TailIs
    <3>3. \A i \in 1 .. Len(chan[v]) - 1 : i + 1 \in 1 .. Len(chan[v])
      BY <3>2
    <3>. QED
      BY <2>3, <3>2, <3>3 DEF NoneOlder
  <2>. QED
    BY <2>1, <2>3, <2>4
<1>. QED
  BY <1>5, <1>6

LEMMA StoredTypes ==
    ASSUME IInv, NEW s \in Station, frame_arrived(s),
           NEW f, f = Arriving(s), f.kind = "DATA"
    PROVE  arrived_with(s, f) \in [Slot -> BOOLEAN] /\ in_buf_with(s, f) \in [Slot -> Nat]
<1>1. ReceiverTypes
  BY Given
<1>2. f.pkt \in Nat
  <2>1. PICK l \in Nat : f.pkt = l + 1
    BY ArrivesData
  <2>. QED
    BY <2>1
<1>3. \A i \in Slot : arrived[s][i] \in BOOLEAN /\ in_buf[s][i] \in Nat
  BY <1>1 DEF ReceiverTypes
<1>4. arrived_with(s, f) \in [Slot -> BOOLEAN]
  BY <1>3 DEF arrived_with, wanted, between
<1>5. in_buf_with(s, f) \in [Slot -> Nat]
  BY <1>2, <1>3 DEF in_buf_with
<1>. QED
  BY <1>4, <1>5

\* The run of stored packets is handed up, in sequence.
LEMMA RunTaken ==
    ASSUME IInv, NEW s \in Station, frame_arrived(s),
           NEW f, f = Arriving(s), f.kind = "DATA",
           NEW n, n = run_length(s, f), put_run(s, f, n)
    PROVE  /\ n \in 0 .. NR_BUFS
           /\ rpackets[s] + n <= pkt_no[Peer(s)]
           /\ rpackets' = [rpackets EXCEPT ![s] = @ + n] /\ aborted' = {}
           /\ DataInOrder(Tail(chan[Peer(s)]), pkt_no[Peer(s)], rpackets[s] + n)
<1>. DEFINE v == Peer(s)
<1>1. PICK r \in Nat, p \in Nat :
         /\ r = rpackets[s] /\ p = pkt_no[v] /\ r <= p
         /\ frame_expected[s] = number(r)
  BY ArrivesData
<1>2. /\ n \in 0 .. NR_BUFS
      /\ \A i \in 0 .. n - 1 : arrived_with(s, f)[slot_after(s, i)]
  BY RunLength
<1>3. n \in Nat /\ NR_BUFS \in Nat /\ n <= NR_BUFS
  BY <1>2, Sizes
<1>4. ASSUME NEW i \in 0 .. n - 1
      PROVE  /\ in_buf_with(s, f)[slot_after(s, i)] = r + i + 1
             /\ r + i < p /\ NoneOlder(Tail(chan[v]), r + i + 1)
  <2>1. i \in 0 .. NR_BUFS /\ r + i \in r .. r + NR_BUFS - 1
    BY <1>3
  <2>2. slot_after(s, i) = number(r + i) % NR_BUFS
    BY <1>1, <2>1, SlotAfter
  <2>3. arrived_with(s, f)[number(r + i) % NR_BUFS]
    BY <1>2, <2>2
  <2>. QED
    BY <1>1, <2>1, <2>2, <2>3, StoredWith
<1>5. /\ rpackets' = [rpackets EXCEPT ![s] = @ + n] /\ aborted' = {}
  BY <1>1, <1>4, Given DEF put_run
<1>6. r + n <= p /\ DataInOrder(Tail(chan[v]), p, r + n)
  <2>1. DataInOrder(Tail(chan[v]), p, r)
    BY <1>1, Arrives
  <2>2. CASE n = 0
    <3>1. r + n = r
      BY <1>3, <2>2
    <3>. QED
      BY <1>1, <2>1, <3>1
  <2>3. CASE n # 0
    <3>1. PICK i \in 0 .. n - 1 : i = n - 1
      BY <1>3, <2>3
    <3>2. r + i + 1 = r + n /\ (r + i < p => r + n <= p)
      BY <1>1, <1>3, <3>1
    <3>3. r + n <= p /\ NoneOlder(Tail(chan[v]), r + n)
      BY <1>4, <3>2
    <3>. QED
      BY <2>1, <3>3, DataHad DEF NoneOlder
  <2>. QED
    BY <2>2, <2>3
<1>. QED
  BY <1>1, <1>2, <1>5, <1>6

\* What waits after that belongs to the window further on.
LEMMA StoredAfterRun ==
    ASSUME IInv, NEW s \in Station, frame_arrived(s),
           NEW f, f = Arriving(s), f.kind = "DATA",
           NEW n, n = run_length(s, f),
           arrived' = [arrived EXCEPT ![s] =
              [i \in Slot |-> /\ arrived_with(s, f)[i]
                              /\ \A k \in 0 .. n - 1 : i # slot_after(s, k)]],
           in_buf' = [in_buf EXCEPT ![s] = in_buf_with(s, f)],
           too_far' = [too_far EXCEPT ![s] = plus(@, n)],
           rpackets'[s] = rpackets[s] + n, UNCHANGED pkt_no,
           chan'[Peer(s)] = Tail(chan[Peer(s)])
    PROVE  Stored(s)'
<1>. DEFINE v == Peer(s)
            slot(m) == number(m) % NR_BUFS
<1>1. PICK r \in Nat :
         /\ r = rpackets[s]
         /\ frame_expected[s] = number(r) /\ too_far[s] = number(r + NR_BUFS)
  BY ArrivesData
<1>2. /\ n \in 0 .. NR_BUFS
      /\ n = NR_BUFS \/ ~arrived_with(s, f)[slot_after(s, n)]
  BY RunLength
<1>3. NR_BUFS \in Nat /\ 0 < NR_BUFS /\ n \in Nat /\ n <= NR_BUFS /\ n \in 0 .. MAX_SEQ
  BY <1>2, Sizes
<1>4. /\ \A i \in 0 .. NR_BUFS : slot_after(s, i) = slot(r + i)
      /\ \A m \in Nat : slot(m) \in Slot /\ slot(m + NR_BUFS) = slot(m)
  <2>1. \A i \in 0 .. NR_BUFS : slot_after(s, i) = slot(r + i)
    BY <1>1, SlotAfter
  <2>2. \A m \in Nat : slot(m) \in Slot /\ slot(m + NR_BUFS) = slot(m)
    BY NumberSlot, SlotRound
  <2>. QED
    BY <2>1, <2>2
<1>. HIDE DEF slot
<1>5. /\ \A i \in Slot : arrived'[s][i] <=>
            /\ arrived_with(s, f)[i]
            /\ \A k \in 0 .. n - 1 : i # slot_after(s, k)
      /\ in_buf'[s] = in_buf_with(s, f)
      /\ too_far'[s] = plus(too_far[s], n)
  BY Given DEF ReceiverTypes
<1>6. ASSUME NEW i \in 0 .. n - 1 PROVE ~arrived'[s][slot(r + i)]
  <2>1. i \in 0 .. NR_BUFS /\ r + i \in Nat
    BY <1>3
  <2>. QED
    BY <1>4, <1>5, <2>1
<1>7. too_far'[s] = number((r + n) + NR_BUFS)
  <2>1. PICK c \in Nat : c = r + NR_BUFS
    BY <1>3
  <2>2. c + n = (r + n) + NR_BUFS
    BY <1>3, <2>1
  <2>. QED
    BY <1>1, <1>3, <1>5, <2>1, <2>2, PlusNumber
<1>8. ~arrived'[s][slot(r + n)]
  <2>1. CASE n = NR_BUFS
    <3>1. 0 \in 0 .. n - 1 /\ r + 0 = r
      BY <1>3, <2>1
    <3>. QED
      BY <1>4, <1>6, <2>1, <3>1
  <2>2. CASE n # NR_BUFS
    <3>1. slot(r + n) \in Slot
      BY <1>3, <1>4
    <3>. QED
      BY <1>2, <1>4, <1>5, <2>2, <3>1
  <2>. QED
    BY <2>1, <2>2
<1>9. ASSUME NEW m \in r + n .. (r + n) + NR_BUFS - 1, arrived'[s][slot(m)]
      PROVE  /\ in_buf'[s][slot(m)] = m + 1 /\ m < pkt_no[v]
             /\ NoneOlder(Tail(chan[v]), m + 1)
  <2>1. m \in r .. r + NR_BUFS - 1
    <3>1. SUFFICES ASSUME m >= r + NR_BUFS PROVE FALSE
      BY <1>3
    <3>2. PICK i \in 0 .. n - 1 : i = m - NR_BUFS - r
      BY <1>3, <3>1
    <3>3. r + i \in Nat /\ (r + i) + NR_BUFS = m
      BY <1>3, <3>2
    <3>. QED
      BY <1>4, <1>6, <1>9, <3>3
  <2>2. m \in Nat
    BY <2>1
  <2>3. arrived_with(s, f)[slot(m)]
    BY <1>4, <1>5, <1>9, <2>2
  <2>. QED
    BY <1>1, <1>5, <2>1, <2>3, StoredWith DEF slot
<1>. HIDE DEF v
<1>10. /\ rpackets'[s] = r + n /\ pkt_no'[v] = pkt_no[v] /\ chan'[v] = Tail(chan[v])
  BY <1>1 DEF v
<1>. QED
  BY <1>7, <1>8, <1>9, <1>10 DEF Stored, slot, v

LEMMA StepDataReceived ==
    ASSUME IInv, NEW s \in Station, DataReceived(s)
    PROVE  IInv' /\ Receives(s)
<1>. DEFINE v == Peer(s)
            f == Arriving(s)
            n == run_length(s, f)
            nak == f.seq # frame_expected[s] /\ no_nak[s]
            c == control_frame(s, "NAK")
            g == IF nak THEN <<c>> ELSE <<>>
            ch == recv_frame(s)
<1>1. /\ v \in Station /\ v # s /\ Peer(v) = s
  BY Peers
<1>2. /\ Windows /\ WindowTypes /\ FlagTypes /\ ReceiverTypes
  BY Given
<1>3. /\ frame_arrived(s) /\ f.kind = "DATA"
      /\ put_frame(s, ch, g)
      /\ put_run(s, f, n)
      /\ arrived' = [arrived EXCEPT ![s] =
              [i \in Slot |-> /\ arrived_with(s, f)[i]
                              /\ \A k \in 0 .. n - 1 : i # slot_after(s, k)]]
      /\ in_buf' = [in_buf EXCEPT ![s] = in_buf_with(s, f)]
      /\ frame_expected' = [frame_expected EXCEPT ![s] = plus(@, n)]
      /\ too_far' = [too_far EXCEPT ![s] = plus(@, n)]
      /\ no_nak' = [no_nak EXCEPT ![s] = n > 0 \/ (@ /\ ~nak)]
      /\ set_ack_timer(s, owes_ack(n, nak))
      /\ process_ack(s, f.ack, timer[s])
      /\ UNCHANGED <<pkt_no, out_buf, next_frame_to_send>>
      /\ loop_end(s, room(nbuffered'[s]))
  BY DEF DataReceived
<1>4. Sendable(g, s)
  <2>1. c \in Frame /\ c.kind = "NAK" /\ c.ack = plus(rpackets[s], MAX_SEQ)
    BY <1>2, BuiltFrames
  <2>. HIDE DEF c
  <2>2. Sendable(<<c>>, s) /\ Sendable(<<>>, s)
    BY <2>1, SendableFrames
  <2>. QED
    BY <2>2
<1>5. ReceiverTypes'
  <2>1. arrived_with(s, f) \in [Slot -> BOOLEAN] /\ in_buf_with(s, f) \in [Slot -> Nat]
    BY <1>3, StoredTypes
  <2>2. plus(too_far[s], n) \in SeqNr
    <3>1. too_far[s] \in SeqNr /\ n \in 0 .. NR_BUFS
      BY <1>2, RunLength DEF ReceiverTypes
    <3>. HIDE DEF n
    <3>2. PICK t \in Nat : t = too_far[s] + n
      BY <3>1, Sizes DEF SeqNr
    <3>. QED
      BY <3>2, NumberType DEF plus, number
  <2>. HIDE DEF n, nak, f
  <2>. QED
    BY <1>2, <1>3, <2>1, <2>2 DEF ReceiverTypes, set_ack_timer, owes_ack
<1>6. /\ ch \in [Station -> Seq(Frame)]
      /\ ch[s] = chan[s] /\ ch[v] = Tail(chan[v])
  BY <1>3, Arrives
<1>. HIDE DEF g, ch, nak
<1>7. /\ chan' \in [Station -> Seq(Frame)]
      /\ chan'[s] = chan[s] \o g /\ chan'[v] = Tail(chan[v])
      /\ inform_phl_ready' \in [Station -> BOOLEAN]
      /\ phl_ready' \in [Station -> BOOLEAN]
  <2>1. g \in Seq(Frame)
    BY <1>4 DEF Sendable
  <2>2. put_frame(s, ch, g)
    BY <1>3
  <2>3. /\ chan' \in [Station -> Seq(Frame)]
        /\ chan'[s] = ch[s] \o g /\ chan'[v] = ch[v]
        /\ inform_phl_ready' \in [Station -> BOOLEAN]
        /\ phl_ready' \in [Station -> BOOLEAN]
    BY <1>2, <1>6, <2>1, <2>2, PutFrame
  <2>. QED
    BY <1>6, <2>3
<1>8. PICK x \in Acknowledged(s) .. rpackets[v] :
         /\ f.ack = plus(x, MAX_SEQ)
         /\ AcksInOrder(Tail(chan[v]), Acking, x, rpackets[v])
  BY <1>3, Arrives
<1>9. /\ n \in 0 .. NR_BUFS
      /\ rpackets[s] + n <= pkt_no[v]
      /\ rpackets' = [rpackets EXCEPT ![s] = @ + n] /\ aborted' = {}
      /\ DataInOrder(Tail(chan[v]), pkt_no[v], rpackets[s] + n)
  BY <1>3, RunTaken
<1>10. PICK k \in 0 .. MAX_SEQ : k = n /\ k \in Nat
  BY <1>9, Sizes
<1>11. /\ Windows'
       /\ Acknowledged(s)' = x /\ Acknowledged(v)' = Acknowledged(v)
       /\ rpackets'[s] = rpackets[s] + n
       /\ rpackets'[v] = rpackets[v]
  <2>. HIDE DEF n, f
  <2>. QED
    BY <1>2, <1>3, <1>7, <1>8, <1>9, <1>10, ReceiveTurn
<1>12. InTransit(s)' /\ InTransit(v)'
  <2>. HIDE DEF n, f
  <2>. QED
    BY <1>3, <1>4, <1>7, <1>8, <1>9, <1>10, <1>11, Exchanged
<1>13. Stored(s)'
  BY <1>3, <1>7, <1>11, StoredAfterRun
<1>14. Stored(v)'
  <2>1. /\ too_far'[v] = too_far[v] /\ arrived'[v] = arrived[v]
        /\ in_buf'[v] = in_buf[v]
    BY <1>1, <1>2, <1>3 DEF ReceiverTypes
  <2>. QED
    BY <1>3, <1>4, <1>7, <1>11, <2>1, StoredAfterSending
<1>15. Receives(s)
  <2>1. rpackets'[s] \in rpackets[s] .. pkt_no[v]
    <3>1. PICK r \in Nat, p \in Nat : r = rpackets[s] /\ p = pkt_no[v]
      BY <1>3, ArrivesData
    <3>2. r + k \in r .. p
      BY <1>9, <1>10, <3>1
    <3>. QED
      BY <1>10, <1>11, <3>1, <3>2
  <2>2. aborted' = aborted
    BY <1>9, Given
  <2>. QED
    BY <1>3, <1>8, <1>11, <2>1, <2>2 DEF Receives
<1>. QED
  BY <1>5, <1>7, <1>9, <1>11, <1>12, <1>13, <1>14, <1>15, Kept

LEMMA StepIInv ==
    ASSUME IInv, [Next]_vars
    PROVE  /\ IInv'
           /\ LeavesLink \/ \E s \in Station : Sends(s) \/ Receives(s)
<1>1. CASE Next
  <2>1. PICK s \in Station :
           \/ NetworkLayerReady(s)
           \/ PhysicalLayerReady(s)
           \/ DataReceived(s)
           \/ AckReceived(s)
           \/ NakReceived(s)
           \/ BadFrameReceived(s)
           \/ AckTimeout(s)
           \/ DataTimeout(s)
           \/ FrameLost(s) /\ UNCHANGED <<windowVars, ack_timer, receiverVars>>
    BY <1>1 DEF Next
  <2>2. CASE NetworkLayerReady(s)
    BY <2>2, StepNetworkLayerReady
  <2>3. CASE DataReceived(s)
    BY <2>3, StepDataReceived
  <2>4. CASE AckReceived(s)
    BY <2>4, StepAckReceived
  <2>5. CASE NakReceived(s)
    BY <2>5, StepNakReceived
  <2>6. CASE AckTimeout(s)
    BY <2>6, StepAckTimeout
  <2>7. CASE DataTimeout(s)
    BY <2>7, StepDataTimeout
  <2>8. CASE \/ PhysicalLayerReady(s) \/ BadFrameReceived(s)
             \/ FrameLost(s) /\ UNCHANGED <<windowVars, ack_timer, receiverVars>>
    BY <2>8, StepQuiet
  <2>. QED
    BY <2>1, <2>2, <2>3, <2>4, <2>5, <2>6, <2>7, <2>8
<1>2. CASE UNCHANGED vars
  <2>1. UNCHANGED <<pkt_no, rpackets, aborted>>
        /\ \A u \in Station : Acknowledged(u)' = Acknowledged(u)
    BY <1>2 DEF vars, Acknowledged
  <2>2. /\ UNCHANGED windowVars /\ UNCHANGED network_layer_active
        /\ UNCHANGED <<ack_timer, arrived, in_buf, too_far, no_nak>>
        /\ UNCHANGED <<chan, inform_phl_ready, phl_ready, timer>>
    BY <1>2 DEF vars, windowVars
  <2>3. /\ aborted = {} /\ Windows /\ FlagTypes /\ ReceiverTypes
        /\ chan \in [Station -> Seq(Frame)] /\ A \in Station
        /\ \A u \in Station : InTransit(u) /\ Stored(u)
    BY Given DEF Station
  <2>4. Windows'
    BY <2>1, <2>2, <2>3, QuietTurn DEF FlagTypes
  <2>5. InTransit(A)' /\ InTransit(Peer(A))'
    BY <2>1, <2>2, <2>3, Peers DEF InTransit
  <2>6. Stored(A)' /\ Stored(Peer(A))'
    BY <2>1, <2>2, <2>3, Peers DEF Stored
  <2>7. ReceiverTypes'
    BY <2>2, <2>3 DEF ReceiverTypes
  <2>8. IInv'
    BY <2>1, <2>2, <2>3, <2>4, <2>5, <2>6, <2>7, Kept DEF FlagTypes
  <2>. QED
    BY <2>1, <2>8 DEF LeavesLink
<1>. QED
  BY <1>1, <1>2

(***************************************************************************)
(* The theorems.                                                           *)
(***************************************************************************)

\* selective_repeat.c keeps its inductive invariant: numbers are counts of
\* packets modulo MAX_SEQ + 1, in the windows, in every frame under way and
\* in the slots where packets wait.
THEOREM SelectiveRepeatInvariant == Spec => []IInv
<1>1. IInv /\ [Next]_vars => IInv'
  BY StepIInv
<1>. QED
  BY <1>1, InitIInv, PTL DEF Spec

\* Nothing is freed or overwritten before the peer has it, whatever is lost
\* or damaged and however often the numbers come round.
THEOREM SelectiveRepeatWindow == Spec => []WindowAgrees
<1>1. IInv => WindowAgrees
  BY Parts, WindowsAgree DEF Windows
<1>. QED
  BY <1>1, SelectiveRepeatInvariant, PTL

\* Exactly the outstanding frames have a running timer.
THEOREM SelectiveRepeatTimers == Spec => []TimersMatchWindow
<1>1. IInv => TimersMatchWindow
  BY DEF IInv
<1>. QED
  BY <1>1, SelectiveRepeatInvariant, PTL

\* Every packet that waits out of order is the one its slot is kept for, and
\* none waits that could have been delivered.
THEOREM SelectiveRepeatReceiveWindow == Spec => []ReceiveWindowOK
<1>1. ASSUME IInv PROVE ReceiveWindowOK
  <2>1. ASSUME NEW s \in Station
        PROVE  /\ too_far[s] = plus(frame_expected[s], NR_BUFS)
               /\ ~arrived[s][frame_expected[s] % NR_BUFS]
               /\ \A i \in 0 .. NR_BUFS - 1 : arrived[s][slot_after(s, i)] =>
                     in_buf[s][slot_after(s, i)] = rpackets[s] + i + 1
    <3>1. Stored(s) /\ WindowTypes /\ WindowIs(Peer(s)) /\ Peer(s) \in Station
          /\ Peer(Peer(s)) = s
      BY <1>1, Given, Peers
    <3>2. PICK r \in Nat : r = rpackets[s] /\ frame_expected[s] = number(r)
      BY <3>1 DEF WindowTypes, WindowIs
    <3>3. NR_BUFS \in Nat /\ NR_BUFS \in 0 .. MAX_SEQ
      BY Sizes
    <3>4. plus(number(r), NR_BUFS) = number(r + NR_BUFS)
      BY <3>3, PlusNumber
    <3>5. ASSUME NEW i \in 0 .. NR_BUFS - 1, arrived[s][slot_after(s, i)]
          PROVE  in_buf[s][slot_after(s, i)] = r + i + 1
      <4>1. i \in 0 .. NR_BUFS /\ r + i \in r .. r + NR_BUFS - 1
        BY <3>3
      <4>2. slot_after(s, i) = number(r + i) % NR_BUFS
        BY <3>2, <4>1, SlotAfter
      <4>. QED
        BY <3>1, <3>2, <3>5, <4>1, <4>2 DEF Stored
    <3>. QED
      BY <3>1, <3>2, <3>4, <3>5 DEF Stored
  <2>2. TypeOK
    BY <1>1 DEF IInv
  <2>. QED
    BY <2>1, <2>2 DEF ReceiveWindowOK
<1>. QED
  BY <1>1, SelectiveRepeatInvariant, PTL

\* put_packet never gets a packet out of its sequence.
THEOREM SelectiveRepeatNeverAborts == Spec => []NobodyAborts
<1>1. IInv => NobodyAborts
  BY DEF IInv
<1>. QED
  BY <1>1, SelectiveRepeatInvariant, PTL

\* Every run of selective_repeat.c is a run of the reliable link.
THEOREM SelectiveRepeatRefines == Spec => ImplementsReliableLink
<1>1. Init => Link!Init
  BY LinkInitially DEF Init
<1>2. IInv /\ [Next]_vars => [Link!Next]_(Link!vars)
  BY StepIInv, LinkTurn, Parts
<1>. QED
  BY <1>1, <1>2, SelectiveRepeatInvariant, PTL
     DEF Spec, ImplementsReliableLink, Link!Spec
=============================================================================
