------------------------- MODULE GoBackNPiggyProofs -------------------------
(***************************************************************************)
(* Proofs about GoBackNPiggy for any MAX_SEQ and NR_BUFS that WindowSizes  *)
(* allows, any amount of traffic and any MaxInFlight.                      *)
(***************************************************************************)
EXTENDS GoBackNPiggy, SlidingWindowProofs

(***************************************************************************)
(* The frames of one direction: data from u, acknowledgements to u, which  *)
(* all frames of the peer carry.                                           *)
(***************************************************************************)
Acking == {"DATA", "ACK"}

InTransit(u) ==
    /\ DataInOrder(chan[u], pkt_no[u], rpackets[Peer(u)])
    /\ AcksInOrder(chan[Peer(u)], Acking, Acknowledged(u), rpackets[Peer(u)])

LEMMA Parts ==
    IInv <=> /\ TypeOK /\ NobodyAborts /\ Windows
             /\ \A u \in Station : InTransit(u)
<1>1. TypeOK => WindowTypes /\ FlagTypes
  BY DEF TypeOK, LinkTypeOK, WindowTypes, FlagTypes
<1>2. FramesInTransit(Acking) <=> \A u \in Station : InTransit(u)
  BY DEF FramesInTransit, InTransit
<1>. QED
  BY <1>1, <1>2, WindowsAre DEF IInv, Acking

LEMMA PartsNext ==
    (IInv <=> /\ TypeOK /\ NobodyAborts /\ Windows
              /\ \A u \in Station : InTransit(u))'
BY Parts, PTL

\* What a step has to show.
LEMMA Kept ==
    ASSUME Windows', chan' \in [Station -> Seq(Frame)], aborted' = {},
           inform_phl_ready' \in [Station -> BOOLEAN],
           phl_ready' \in [Station -> BOOLEAN],
           ack_timer' \in [Station -> BOOLEAN],
           NEW s \in Station, InTransit(s)', InTransit(Peer(s))'
    PROVE  IInv'
<1>1. TypeOK'
  BY DEF TypeOK, LinkTypeOK, Windows, WindowTypes, FlagTypes
<1>2. NobodyAborts'
  BY DEF NobodyAborts
<1>3. \A u \in Station : InTransit(u)'
  BY Peers
<1>. QED
  BY <1>1, <1>2, <1>3, PartsNext

LEMMA BuiltFrames ==
    ASSUME Windows, NEW s \in Station
    PROVE  /\ \A q \in SeqNr, p \in Nat :
                 /\ data_frame(s, q, p) \in Frame
                 /\ data_frame(s, q, p).kind = "DATA"
                 /\ data_frame(s, q, p).seq = q /\ data_frame(s, q, p).pkt = p
                 /\ data_frame(s, q, p).ack = plus(rpackets[s], MAX_SEQ)
           /\ ack_frame(s) \in Frame
           /\ ack_frame(s).kind = "ACK"
           /\ ack_frame(s).ack = plus(rpackets[s], MAX_SEQ)
BY LastAcked DEF data_frame, ack_frame, Frame

LEMMA BuiltData ==
    ASSUME Windows, NEW s \in Station,
           NEW q \in SeqNr, NEW p \in Nat, NEW f, f = data_frame(s, q, p)
    PROVE  /\ f \in Frame /\ f.ack = plus(rpackets[s], MAX_SEQ)
           /\ f.seq = q /\ f.pkt = p
BY BuiltFrames

LEMMA InitIInv == Init => IInv
<1>. SUFFICES ASSUME Init PROVE IInv
  OBVIOUS
<1>1. Windows
  BY WindowsInit DEF Init
<1>2. TypeOK /\ NobodyAborts
  <2>1. <<>> \in Seq(Frame)
    OBVIOUS
  <2>. QED
    BY <1>1, <2>1 DEF Init, LinkInit, TypeOK, LinkTypeOK, Windows, WindowTypes,
                      FlagTypes, NobodyAborts
<1>3. ASSUME NEW u \in Station PROVE InTransit(u)
  <2>1. chan[u] = <<>> /\ chan[Peer(u)] = <<>>
    BY Peers DEF Init, LinkInit
  <2>. QED
    BY <2>1, NothingInTransit DEF InTransit
<1>. QED
  BY <1>1, <1>2, <1>3, Parts

\* What s sends acknowledges what s has had.
LEMMA AcksSent ==
    ASSUME IInv, NEW s \in Station, NEW g \in Seq(Frame),
           \A i \in 1 .. Len(g) : g[i].ack = plus(rpackets[s], MAX_SEQ),
           chan'[s] = chan[s] \o g, chan'[Peer(s)] = chan[Peer(s)],
           pkt_no'[Peer(s)] = pkt_no[Peer(s)], UNCHANGED rpackets,
           Acknowledged(Peer(s))' = Acknowledged(Peer(s))
    PROVE  InTransit(Peer(s))'
<1>. DEFINE v == Peer(s)
<1>1. /\ v \in Station /\ v # s /\ Peer(v) = s
  BY Peers
<1>2. /\ WindowTypes /\ WindowIs(v) /\ InTransit(v) /\ chan \in [Station -> Seq(Frame)]
  BY <1>1, Parts DEF TypeOK, LinkTypeOK, Windows
<1>3. /\ Acknowledged(v) \in Nat /\ rpackets[s] \in Nat
      /\ Acknowledged(v) <= rpackets[s]
      /\ AcksInOrder(chan[s], Acking, Acknowledged(v), rpackets[s])
      /\ chan[s] \in Seq(Frame)
  BY <1>1, <1>2, CountsAre DEF WindowIs, InTransit
<1>4. AcksInOrder(chan[s] \o g, Acking, Acknowledged(v), rpackets[s])
  BY <1>3, AcksPut
<1>. QED
  BY <1>1, <1>2, <1>4 DEF InTransit

LEMMA StepNetworkLayerReady ==
    ASSUME IInv, NEW s \in Station, NetworkLayerReady(s)
    PROVE  IInv' /\ Sends(s)
<1>. DEFINE v == Peer(s)
            f == data_frame(s, next_frame_to_send[s], pkt_no[s] + 1)
<1>1. /\ v \in Station /\ v # s /\ Peer(v) = s
  BY Peers
<1>2. /\ TypeOK /\ aborted = {} /\ Windows /\ WindowTypes /\ FlagTypes
      /\ InTransit(s) /\ WindowIs(s)
      /\ chan \in [Station -> Seq(Frame)]
  BY <1>1, Parts DEF NobodyAborts, TypeOK, LinkTypeOK, Windows
<1>3. /\ pkt_no[s] \in Nat /\ next_frame_to_send[s] \in SeqNr
      /\ next_frame_to_send[s] = number(pkt_no[s])
      /\ pkt_no[s] + 1 \in Nat
      /\ rpackets[v] \in Nat /\ rpackets[v] <= pkt_no[s]
  <2>1. /\ pkt_no[s] \in Nat /\ rpackets[v] \in Nat
    BY <1>2, CountsAre
  <2>2. /\ next_frame_to_send[s] \in SeqNr
        /\ next_frame_to_send[s] = number(pkt_no[s]) /\ rpackets[v] <= pkt_no[s]
    BY <1>2 DEF WindowTypes, WindowTypeOK, WindowIs
  <2>. QED
    BY <2>1, <2>2
<1>4. /\ f \in Frame /\ f.kind = "DATA"
      /\ f.seq = next_frame_to_send[s] /\ f.pkt = pkt_no[s] + 1
      /\ f.ack = plus(rpackets[s], MAX_SEQ)
  BY <1>2, <1>3, BuiltFrames
<1>. HIDE DEF f
<1>5. /\ put_frame(s, chan, <<f>>)
      /\ UNCHANGED <<rpackets, aborted, ack_expected, frame_expected>>
      /\ ack_timer' \in [Station -> BOOLEAN]
  BY <1>2 DEF NetworkLayerReady, f, stop_ack_timer, TypeOK
<1>6. <<f>> \in Seq(Frame) /\ \A i \in 1 .. Len(<<f>>) : <<f>>[i] = f
  BY <1>4, OneFrame
<1>7. /\ chan' \in [Station -> Seq(Frame)]
      /\ chan'[s] = chan[s] \o <<f>> /\ chan'[v] = chan[v]
      /\ inform_phl_ready' \in [Station -> BOOLEAN]
      /\ phl_ready' \in [Station -> BOOLEAN]
  BY <1>2, <1>5, <1>6, PutFrame
<1>8. /\ Windows'
      /\ pkt_no'[s] = pkt_no[s] + 1 /\ pkt_no'[v] = pkt_no[v]
      /\ \A u \in Station : Acknowledged(u)' = Acknowledged(u)
      /\ room(nbuffered[s])
  BY <1>2, <1>7, SendTurn DEF NetworkLayerReady
<1>9. InTransit(s)'
  <2>1. DataInOrder(chan[s] \o <<f>>, pkt_no[s] + 1, rpackets[v])
    BY <1>2, <1>3, <1>4, NewDataPut DEF InTransit
  <2>2. DataInOrder(chan'[s], pkt_no'[s], rpackets'[v])
    BY <1>5, <1>7, <1>8, <2>1
  <2>. QED
    BY <1>2, <1>5, <1>7, <1>8, <2>2 DEF InTransit
<1>10. InTransit(v)'
  <2>1. \A i \in 1 .. Len(<<f>>) : <<f>>[i].ack = plus(rpackets[s], MAX_SEQ)
    BY <1>4, <1>6
  <2>. QED
    BY <1>1, <1>5, <1>6, <1>7, <1>8, <2>1, AcksSent
<1>11. Sends(s)
  BY <1>5, <1>8 DEF Sends, NetworkLayerReady, take_packet, get_packet
<1>. QED
  BY <1>2, <1>5, <1>7, <1>8, <1>9, <1>10, <1>11, Kept

\* The frame at the head of the peer's channel is taken off it, and nothing
\* else that InTransit speaks of changes.
LEMMA FrameGone ==
    ASSUME IInv, NEW s \in Station, frame_arrived(s), chan' = recv_frame(s),
           UNCHANGED <<pkt_no, rpackets>>,
           \A u \in Station : Acknowledged(u)' = Acknowledged(u)
    PROVE  chan' \in [Station -> Seq(Frame)] /\ InTransit(s)' /\ InTransit(Peer(s))'
<1>. DEFINE v == Peer(s)
<1>1. /\ v \in Station /\ v # s /\ Peer(v) = s
  BY Peers
<1>2. /\ Windows /\ WindowTypes /\ InTransit(s) /\ InTransit(v) /\ WindowIs(s)
      /\ chan \in [Station -> Seq(Frame)]
  BY <1>1, Parts DEF TypeOK, LinkTypeOK, Windows
<1>3. /\ chan' \in [Station -> Seq(Frame)]
      /\ chan'[v] = Tail(chan[v]) /\ chan'[s] = chan[s]
      /\ chan[v] \in Seq(Frame) /\ chan[v] # <<>>
  BY <1>2, RecvFrame
<1>4. /\ Acknowledged(s) \in Nat /\ rpackets[v] \in Nat
      /\ rpackets[v] - Acknowledged(s) <= MAX_SEQ
  BY <1>2, CountsAre
<1>5. AcksInOrder(Tail(chan[v]), Acking, Acknowledged(s), rpackets[v])
  BY <1>2, <1>3, <1>4, AcksTaken DEF InTransit
<1>6. DataInOrder(Tail(chan[v]), pkt_no[v], rpackets[s])
  BY <1>1, <1>2, <1>3, DataTaken DEF InTransit
<1>7. InTransit(s)'
  BY <1>1, <1>2, <1>3, <1>5 DEF InTransit
<1>8. InTransit(v)'
  BY <1>1, <1>2, <1>3, <1>6 DEF InTransit
<1>. QED
  BY <1>3, <1>7, <1>8

LEMMA StepQuiet ==
    ASSUME IInv, NEW s \in Station,
           \/ PhysicalLayerReady(s) \/ BadFrameReceived(s)
           \/ FrameLost(s) /\ UNCHANGED <<windowVars, ack_timer>>
    PROVE  IInv' /\ LeavesLink
<1>1. /\ TypeOK /\ aborted = {} /\ Windows
      /\ \A u \in Station : InTransit(u)
      /\ Peer(s) \in Station
  BY Parts, Peers DEF NobodyAborts
<1>2. /\ UNCHANGED <<timer, pkt_no, rpackets, aborted>>
      /\ UNCHANGED windowVars
      /\ loop_end(s, room(nbuffered[s])) \/ UNCHANGED network_layer_active
      /\ inform_phl_ready' \in [Station -> BOOLEAN]
      /\ phl_ready' \in [Station -> BOOLEAN]
      /\ ack_timer' \in [Station -> BOOLEAN]
  BY <1>1 DEF PhysicalLayerReady, BadFrameReceived, FrameLost,
              TypeOK, LinkTypeOK
<1>3. /\ Windows'
      /\ \A u \in Station : Acknowledged(u)' = Acknowledged(u)
  BY <1>1, <1>2, QuietTurn DEF windowVars
<1>4. chan' \in [Station -> Seq(Frame)] /\ InTransit(s)' /\ InTransit(Peer(s))'
  <2>1. CASE PhysicalLayerReady(s)
    BY <1>1, <1>2, <1>3, <2>1 DEF PhysicalLayerReady, InTransit, TypeOK, LinkTypeOK
  <2>2. CASE ~PhysicalLayerReady(s)
    <3>1. frame_arrived(s) /\ chan' = recv_frame(s)
      BY <2>2 DEF BadFrameReceived, FrameLost
    <3>. QED
      BY <1>2, <1>3, <3>1, FrameGone
  <2>. QED
    BY <2>1, <2>2
<1>. QED
  BY <1>1, <1>2, <1>3, <1>4, Kept DEF LeavesLink

\* Frames that s sends for packets of its window, or with no data at all.
LEMMA StepSent ==
    ASSUME IInv, NEW s \in Station, NEW g \in Seq(Frame), put_frame(s, chan, g),
           \A i \in 1 .. Len(g) :
              /\ g[i].ack = plus(rpackets[s], MAX_SEQ)
              /\ g[i].kind = "DATA" =>
                    /\ g[i].pkt \in 1 .. pkt_no[s]
                    /\ g[i].seq = number(g[i].pkt - 1)
                    /\ pkt_no[s] < g[i].pkt + NR_BUFS,
           ack_timer' \in [Station -> BOOLEAN],
           UNCHANGED <<timer, pkt_no, rpackets, aborted, windowVars>>,
           loop_end(s, room(nbuffered[s]))
    PROVE  IInv' /\ LeavesLink
<1>. DEFINE v == Peer(s)
<1>1. /\ v \in Station /\ v # s /\ Peer(v) = s
  BY Peers
<1>2. /\ aborted = {} /\ Windows /\ WindowTypes /\ FlagTypes
      /\ InTransit(s) /\ WindowIs(s) /\ chan \in [Station -> Seq(Frame)]
  BY Parts DEF NobodyAborts, TypeOK, LinkTypeOK, Windows
<1>3. /\ chan' \in [Station -> Seq(Frame)]
      /\ chan'[s] = chan[s] \o g /\ chan'[v] = chan[v]
      /\ inform_phl_ready' \in [Station -> BOOLEAN]
      /\ phl_ready' \in [Station -> BOOLEAN]
  BY <1>2, PutFrame
<1>4. /\ Windows'
      /\ \A u \in Station : Acknowledged(u)' = Acknowledged(u)
  BY <1>2, <1>3, QuietTurn DEF windowVars
<1>5. InTransit(s)'
  <2>1. PICK p \in Nat, r \in Nat :
           /\ p = pkt_no[s] /\ r = rpackets[v] /\ r <= p /\ p <= p
           /\ DataInOrder(chan[s], p, r) /\ chan[s] \in Seq(Frame)
    BY <1>2, CountsAre DEF WindowIs, InTransit
  <2>2. DataInOrder(chan[s] \o g, p, r)
    BY <2>1, DataPut
  <2>. QED
    BY <1>2, <1>3, <1>4, <2>1, <2>2 DEF InTransit
<1>6. InTransit(v)'
  BY <1>1, <1>3, <1>4, AcksSent
<1>. QED
  BY <1>2, <1>3, <1>4, <1>5, <1>6, Kept DEF LeavesLink

LEMMA StepAckTimeout ==
    ASSUME IInv, NEW s \in Station, AckTimeout(s)
    PROVE  IInv' /\ LeavesLink
<1>. DEFINE f == ack_frame(s)
            g == <<f>>
<1>1. Windows /\ TypeOK
  BY Parts
<1>2. f \in Frame /\ f.kind = "ACK" /\ f.ack = plus(rpackets[s], MAX_SEQ)
  BY <1>1, BuiltFrames
<1>3. /\ put_frame(s, chan, g) /\ ack_timer' \in [Station -> BOOLEAN]
      /\ UNCHANGED <<timer, pkt_no, rpackets, aborted, windowVars>>
      /\ loop_end(s, room(nbuffered[s]))
  BY <1>1 DEF AckTimeout, stop_ack_timer, TypeOK
<1>. HIDE DEF f
<1>4. g \in Seq(Frame) /\ \A i \in 1 .. Len(g) : g[i] = f
  BY <1>2, OneFrame
<1>. HIDE DEF g
<1>5. \A i \in 1 .. Len(g) : /\ g[i].ack = plus(rpackets[s], MAX_SEQ)
                             /\ g[i].kind # "DATA"
  BY <1>2, <1>4
<1>. QED
  BY <1>3, <1>4, <1>5, StepSent

LEMMA StepDataTimeout ==
    ASSUME IInv, NEW s \in Station, DataTimeout(s)
    PROVE  IInv' /\ LeavesLink
<1>. DEFINE w == window_of(s)
            g == [i \in DOMAIN w |-> data_frame(s, w[i], out_buf[s][w[i] % NR_BUFS])]
<1>1. /\ Windows /\ TypeOK /\ WindowTypes /\ WindowIs(s) /\ TimersAre(s)
      /\ timer \in [Station -> SUBSET SeqNr]
  BY Parts DEF Windows, WindowTypes
<1>2. /\ put_frame(s, chan, g)
      /\ UNCHANGED <<pkt_no, rpackets, aborted, windowVars>>
      /\ loop_end(s, room(nbuffered[s]))
      /\ ack_timer' \in [Station -> BOOLEAN]
  BY <1>1 DEF DataTimeout, windowVars, TypeOK
<1>3. PICK nr \in timer[s] :
         timer' = [timer EXCEPT ![s] = (@ \ {nr}) \cup {w[i] : i \in DOMAIN w}]
  BY DEF DataTimeout, timer_expired
<1>4. PICK n \in Nat, a \in Nat, p \in Nat :
         n = nbuffered[s] /\ a = Acknowledged(s) /\ p = pkt_no[s]
  BY <1>1, CountsAre
<1>5. /\ DOMAIN w = 1 .. n
      /\ \A i \in 1 .. n :
            /\ w[i] = number((a + i) - 1) /\ w[i] \in SeqNr
            /\ out_buf[s][w[i] % NR_BUFS] = a + i
            /\ a + i \in 1 .. p /\ p < (a + i) + NR_BUFS
      /\ {w[i] : i \in DOMAIN w} = timer[s]
  BY <1>1, <1>4, WindowResent
<1>6. UNCHANGED timer
  BY <1>1, <1>3, <1>5
<1>. HIDE DEF w
<1>7. ASSUME NEW i \in 1 .. n
      PROVE  /\ g[i] \in Frame /\ g[i].pkt \in 1 .. p
             /\ g[i].ack = plus(rpackets[s], MAX_SEQ)
             /\ g[i].seq = number(g[i].pkt - 1) /\ p < g[i].pkt + NR_BUFS
  <2>1. /\ w[i] = number((a + i) - 1) /\ w[i] \in SeqNr
        /\ out_buf[s][w[i] % NR_BUFS] = a + i /\ a + i \in 1 .. p
        /\ p < (a + i) + NR_BUFS /\ a + i \in Nat
    BY <1>4, <1>5
  <2>2. g[i] = data_frame(s, w[i], a + i)
    BY <1>5, <2>1
  <2>3. /\ g[i] \in Frame /\ g[i].ack = plus(rpackets[s], MAX_SEQ)
        /\ g[i].seq = w[i] /\ g[i].pkt = a + i
    BY <1>1, <2>1, <2>2, BuiltData
  <2>. QED
    BY <2>1, <2>3
<1>8. DOMAIN g = 1 .. n
  BY <1>5
<1>9. g = [i \in 1 .. n |-> g[i]]
  BY <1>8
<1>. HIDE DEF g
<1>10. g \in [1 .. n -> Frame]
  BY <1>7, <1>9
<1>11. g \in Seq(Frame) /\ Len(g) = n
  BY <1>4, <1>10
<1>. QED
  BY <1>2, <1>4, <1>6, <1>7, <1>11, StepSent

\* The acknowledgement of a frame is taken first, then its packet.
LEMMA StepFrameReceived ==
    ASSUME IInv, NEW s \in Station, FrameReceived(s)
    PROVE  IInv' /\ Receives(s)
<1>. DEFINE v == Peer(s)
            f == Arriving(s)
            r == rpackets[s]
<1>1. /\ v \in Station /\ v # s /\ Peer(v) = s
  BY Peers
<1>2. /\ aborted = {} /\ Windows /\ WindowTypes /\ FlagTypes
      /\ InTransit(s) /\ InTransit(v) /\ WindowIs(s) /\ WindowIs(v)
      /\ chan \in [Station -> Seq(Frame)] /\ ack_timer \in [Station -> BOOLEAN]
  BY <1>1, Parts DEF NobodyAborts, TypeOK, LinkTypeOK, Windows
<1>3. /\ frame_arrived(s)
      /\ process_ack(s, f.ack, timer[s]) /\ accept_data(s, f)
      /\ chan' = recv_frame(s)
      /\ UNCHANGED <<inform_phl_ready, phl_ready, pkt_no, out_buf,
                     next_frame_to_send>>
      /\ loop_end(s, room(nbuffered'[s]))
  BY DEF FrameReceived
<1>4. /\ chan' \in [Station -> Seq(Frame)]
      /\ chan'[v] = Tail(chan[v]) /\ chan'[s] = chan[s]
      /\ chan[v] \in Seq(Frame) /\ chan[v] # <<>> /\ f = Head(chan[v])
      /\ f \in Frame
  BY <1>2, <1>3, RecvFrame
<1>5. /\ Acknowledged(s) \in Nat /\ rpackets[v] \in Nat
      /\ rpackets[v] - Acknowledged(s) <= MAX_SEQ
      /\ Acknowledged(v) \in Nat /\ r \in Nat /\ Acknowledged(v) <= r
      /\ pkt_no[v] \in Nat
  <2>1. /\ Acknowledged(s) \in Nat /\ rpackets[v] \in Nat
        /\ rpackets[v] - Acknowledged(s) <= MAX_SEQ
    BY <1>2, CountsAre
  <2>2. Acknowledged(v) \in Nat /\ r \in Nat /\ pkt_no[v] \in Nat
    BY <1>1, <1>2, CountsAre
  <2>3. Acknowledged(v) <= r
    BY <1>1, <1>2 DEF WindowIs
  <2>. QED
    BY <2>1, <2>2, <2>3
<1>6. PICK x \in Acknowledged(s) .. rpackets[v] :
         /\ f.ack = plus(x, MAX_SEQ)
         /\ AcksInOrder(Tail(chan[v]), Acking, x, rpackets[v])
  <2>1. f.kind \in Acking
    BY <1>4 DEF Frame, Acking
  <2>. QED
    BY <1>2, <1>4, <1>5, <2>1, AcksTaken DEF InTransit
<1>7. /\ DataInOrder(Tail(chan[v]), pkt_no[v], r)
      /\ f.kind = "DATA" =>
            /\ f.pkt \in 1 .. pkt_no[v] /\ f.seq = number(f.pkt - 1)
            /\ r < f.pkt + NR_BUFS
            /\ \A j \in 1 .. Len(Tail(chan[v])) : Tail(chan[v])[j].kind = "DATA" =>
                  f.pkt < Tail(chan[v])[j].pkt + NR_BUFS
  BY <1>1, <1>2, <1>4, DataTaken DEF InTransit
<1>8. PICK k \in 0 .. MAX_SEQ :
         /\ r + k <= pkt_no[v] /\ aborted' = {}
         /\ rpackets' = [rpackets EXCEPT ![s] = @ + k]
         /\ frame_expected' = [frame_expected EXCEPT ![s] = plus(@, k)]
         /\ DataInOrder(Tail(chan[v]), pkt_no[v], r + k)
         /\ ack_timer' \in [Station -> BOOLEAN]
  <2>1. CASE f.kind = "DATA" /\ f.seq = frame_expected[s]
    <3>1. f.pkt = r + 1
      BY <1>1, <1>2, <1>7, <2>1, ExpectedPacket
    <3>2. /\ 1 \in 0 .. MAX_SEQ /\ r + 1 <= pkt_no[v]
          /\ DataInOrder(Tail(chan[v]), pkt_no[v], r + 1)
      <4>1. 1 \in 0 .. MAX_SEQ
        BY Sizes
      <4>2. r + 1 <= pkt_no[v]
        BY <1>7, <2>1, <3>1
      <4>3. \A j \in 1 .. Len(Tail(chan[v])) : Tail(chan[v])[j].kind = "DATA" =>
               r + 1 < Tail(chan[v])[j].pkt + NR_BUFS
        BY <1>7, <2>1, <3>1
      <4>4. DataInOrder(Tail(chan[v]), pkt_no[v], r + 1)
        BY <1>7, <4>3, DataHad
      <4>. QED
        BY <4>1, <4>2, <4>4
    <3>3. /\ rpackets' = [rpackets EXCEPT ![s] = @ + 1] /\ aborted' = {}
          /\ frame_expected' = [frame_expected EXCEPT ![s] = plus(@, 1)]
          /\ ack_timer' \in [Station -> BOOLEAN]
      BY <1>2, <1>3, <2>1, <3>1 DEF accept_data, put_packet, inc
    <3>. QED
      BY <3>2, <3>3
  <2>2. CASE ~(f.kind = "DATA" /\ f.seq = frame_expected[s])
    <3>1. UNCHANGED <<rpackets, aborted, frame_expected, ack_timer>>
      BY <1>3, <2>2 DEF accept_data
    <3>2. /\ 0 \in 0 .. MAX_SEQ /\ r + 0 = r /\ r + 0 <= pkt_no[v]
          /\ rpackets = [rpackets EXCEPT ![s] = @ + 0]
          /\ frame_expected = [frame_expected EXCEPT ![s] = plus(@, 0)]
      BY <1>2, NoneTaken
    <3>. QED
      BY <1>2, <1>7, <3>1, <3>2
  <2>. QED
    BY <2>1, <2>2
<1>. HIDE DEF f
<1>9. /\ Windows'
      /\ Acknowledged(s)' = x /\ Acknowledged(v)' = Acknowledged(v)
      /\ rpackets'[s] = r + k /\ rpackets'[v] = rpackets[v]
  BY <1>2, <1>3, <1>6, <1>8, ReceiveTurn DEF FlagTypes
<1>10. InTransit(s)'
  BY <1>2, <1>3, <1>4, <1>6, <1>9 DEF InTransit
<1>11. InTransit(v)'
  <2>1. r + k \in Nat /\ r <= r + k
    BY <1>5, Sizes
  <2>2. AcksInOrder(chan[s], Acking, Acknowledged(v), r + k)
    BY <1>1, <1>2, <1>5, <2>1, AcksHad DEF InTransit
  <2>. QED
    BY <1>1, <1>3, <1>4, <1>8, <1>9, <2>2 DEF InTransit
<1>12. Receives(s)
  <2>1. r + k \in r .. pkt_no[v]
    BY <1>5, <1>8, Sizes
  <2>. QED
    BY <1>2, <1>3, <1>6, <1>8, <1>9, <2>1 DEF Receives
<1>. QED
  BY <1>2, <1>3, <1>4, <1>8, <1>9, <1>10, <1>11, <1>12, Kept DEF FlagTypes

LEMMA StepIInv ==
    ASSUME IInv, [Next]_vars
    PROVE  /\ IInv'
           /\ LeavesLink \/ \E s \in Station : Sends(s) \/ Receives(s)
<1>1. CASE Next
  <2>1. PICK s \in Station : \/ NetworkLayerReady(s)
                             \/ PhysicalLayerReady(s)
                             \/ FrameReceived(s)
                             \/ BadFrameReceived(s)
                             \/ AckTimeout(s)
                             \/ DataTimeout(s)
                             \/ FrameLost(s) /\ UNCHANGED <<windowVars, ack_timer>>
    BY <1>1 DEF Next
  <2>2. CASE NetworkLayerReady(s)
    BY <2>2, StepNetworkLayerReady
  <2>3. CASE FrameReceived(s)
    BY <2>3, StepFrameReceived
  <2>4. CASE AckTimeout(s)
    BY <2>4, StepAckTimeout
  <2>5. CASE DataTimeout(s)
    BY <2>5, StepDataTimeout
  <2>6. CASE \/ PhysicalLayerReady(s) \/ BadFrameReceived(s)
             \/ FrameLost(s) /\ UNCHANGED <<windowVars, ack_timer>>
    BY <2>6, StepQuiet
  <2>. QED
    BY <2>1, <2>2, <2>3, <2>4, <2>5, <2>6
<1>2. CASE UNCHANGED vars
  <2>1. UNCHANGED <<pkt_no, rpackets, aborted>>
        /\ \A u \in Station : Acknowledged(u)' = Acknowledged(u)
    BY <1>2 DEF vars, Acknowledged
  <2>2. UNCHANGED windowVars /\ UNCHANGED network_layer_active
    BY <1>2 DEF vars, windowVars
  <2>3. /\ TypeOK /\ aborted = {} /\ Windows /\ A \in Station
        /\ \A u \in Station : InTransit(u)
    BY Parts DEF NobodyAborts, Station
  <2>4. Windows'
    BY <1>2, <2>2, <2>3, QuietTurn DEF vars, TypeOK, LinkTypeOK
  <2>5. InTransit(A)' /\ InTransit(Peer(A))'
    BY <1>2, <2>1, <2>3, Peers DEF vars, InTransit
  <2>6. IInv'
    BY <1>2, <2>3, <2>4, <2>5, Kept DEF vars, TypeOK, LinkTypeOK
  <2>. QED
    BY <2>1, <2>6 DEF LeavesLink
<1>. QED
  BY <1>1, <1>2

(***************************************************************************)
(* The theorems.                                                           *)
(***************************************************************************)

\* go_back_n_piggypacking.c keeps its inductive invariant, the same as that
\* of go_back_n.c except that data frames acknowledge as well.
THEOREM PiggyInvariant == Spec => []IInv
<1>1. IInv /\ [Next]_vars => IInv'
  BY StepIInv
<1>. QED
  BY <1>1, InitIInv, PTL DEF Spec

\* Nothing is freed or overwritten before the peer has it, whatever is lost
\* or damaged and however often the numbers come round.
THEOREM PiggyWindow == Spec => []WindowOK
<1>1. IInv => WindowOK
  BY Parts, WindowsAgree DEF WindowOK, Windows
<1>. QED
  BY <1>1, PiggyInvariant, PTL

\* Exactly the outstanding frames have a running timer.
THEOREM PiggyTimers == Spec => []TimersMatchWindow
<1>1. IInv => TimersMatchWindow
  BY DEF IInv
<1>. QED
  BY <1>1, PiggyInvariant, PTL

\* put_packet never gets a packet out of its sequence.
THEOREM PiggyNeverAborts == Spec => []NobodyAborts
<1>1. IInv => NobodyAborts
  BY DEF IInv
<1>. QED
  BY <1>1, PiggyInvariant, PTL

\* Every run of go_back_n_piggypacking.c is a run of the reliable link.
THEOREM PiggyRefines == Spec => ImplementsReliableLink
<1>1. Init => Link!Init
  BY LinkInitially DEF Init
<1>2. IInv /\ [Next]_vars => [Link!Next]_(Link!vars)
  BY StepIInv, LinkTurn, Parts
<1>. QED
  BY <1>1, <1>2, PiggyInvariant, PTL
     DEF Spec, ImplementsReliableLink, Link!Spec
=============================================================================
