---------------------------- MODULE GoBackNProofs ----------------------------
(***************************************************************************)
(* Proofs about GoBackN for any MAX_SEQ and NR_BUFS that WindowSizes       *)
(* allows, any amount of traffic and any MaxInFlight.                      *)
(***************************************************************************)
EXTENDS GoBackN, SlidingWindowProofs

(***************************************************************************)
(* The frames of one direction: data from u, acknowledgements to u.        *)
(***************************************************************************)
InTransit(u) ==
    /\ DataInOrder(chan[u], pkt_no[u], rpackets[Peer(u)])
    /\ AcksInOrder(chan[Peer(u)], {"ACK"}, Acknowledged(u), rpackets[Peer(u)])

LEMMA Parts ==
    IInv <=> /\ TypeOK /\ NobodyAborts /\ Windows
             /\ \A u \in Station : InTransit(u)
<1>1. TypeOK => WindowTypes /\ FlagTypes
  BY DEF TypeOK, LinkTypeOK, WindowTypes, FlagTypes
<1>2. FramesInTransit({"ACK"}) <=> \A u \in Station : InTransit(u)
  BY DEF FramesInTransit, InTransit
<1>. QED
  BY <1>1, <1>2, WindowsAre DEF IInv

LEMMA PartsNext ==
    (IInv <=> /\ TypeOK /\ NobodyAborts /\ Windows
              /\ \A u \in Station : InTransit(u))'
BY Parts, PTL

\* What a step has to show.
LEMMA Kept ==
    ASSUME Windows', chan' \in [Station -> Seq(Frame)], aborted' = {},
           inform_phl_ready' \in [Station -> BOOLEAN],
           phl_ready' \in [Station -> BOOLEAN],
           NEW s \in Station, InTransit(s)', InTransit(Peer(s))'
    PROVE  IInv'
<1>1. TypeOK'
  BY DEF TypeOK, LinkTypeOK, Windows, WindowTypes, FlagTypes
<1>2. NobodyAborts'
  BY DEF NobodyAborts
<1>3. \A u \in Station : InTransit(u)'
  BY Peers
<1>. QED
  BY <1>1, <1>2, <1>3, PartsNext

LEMMA BuiltFrames ==
    /\ \A q \in SeqNr, p \in Nat :
          /\ data_frame(q, p) \in Frame
          /\ data_frame(q, p).kind = "DATA"
          /\ data_frame(q, p).seq = q /\ data_frame(q, p).pkt = p
    /\ \A q \in SeqNr : /\ ack_frame(q) \in Frame
                        /\ ack_frame(q).kind = "ACK" /\ ack_frame(q).ack = q
BY DEF data_frame, ack_frame, Frame

LEMMA BuiltData ==
    ASSUME NEW q \in SeqNr, NEW p \in Nat, NEW f, f = data_frame(q, p)
    PROVE  f \in Frame /\ f.kind = "DATA" /\ f.seq = q /\ f.pkt = p
BY BuiltFrames

LEMMA InitIInv == Init => IInv
<1>. SUFFICES ASSUME Init PROVE IInv
  OBVIOUS
<1>1. Windows
  BY WindowsInit DEF Init
<1>2. TypeOK /\ NobodyAborts
  <2>1. <<>> \in Seq(Frame)
    OBVIOUS
  <2>. QED
    BY <1>1, <2>1 DEF Init, LinkInit, TypeOK, LinkTypeOK, Windows, WindowTypes,
                      FlagTypes, NobodyAborts
<1>3. ASSUME NEW u \in Station PROVE InTransit(u)
  <2>1. chan[u] = <<>> /\ chan[Peer(u)] = <<>>
    BY Peers DEF Init, LinkInit
  <2>. QED
    BY <2>1, NothingInTransit DEF InTransit
<1>. QED
  BY <1>1, <1>2, <1>3, Parts

LEMMA StepNetworkLayerReady ==
    ASSUME IInv, NEW s \in Station, NetworkLayerReady(s)
    PROVE  IInv' /\ Sends(s)
<1>. DEFINE v == Peer(s)
            f == data_frame(next_frame_to_send[s], pkt_no[s] + 1)
<1>1. /\ v \in Station /\ v # s /\ Peer(v) = s
  BY Peers
<1>2. /\ TypeOK /\ aborted = {} /\ Windows /\ WindowTypes /\ FlagTypes
      /\ InTransit(s) /\ InTransit(v) /\ WindowIs(s)
      /\ chan \in [Station -> Seq(Frame)]
  BY <1>1, Parts DEF NobodyAborts, TypeOK, LinkTypeOK, Windows
<1>3. /\ pkt_no[s] \in Nat /\ next_frame_to_send[s] \in SeqNr
      /\ next_frame_to_send[s] = number(pkt_no[s])
      /\ pkt_no[s] + 1 \in Nat
      /\ rpackets[v] \in Nat /\ rpackets[v] <= pkt_no[s]
  BY <1>2, CountsAre DEF WindowTypes, WindowTypeOK, WindowIs
<1>4. /\ f \in Frame /\ f.kind = "DATA"
      /\ f.seq = next_frame_to_send[s] /\ f.pkt = pkt_no[s] + 1
  BY <1>3, BuiltFrames
<1>. HIDE DEF f
<1>5. /\ put_frame(s, chan, <<f>>)
      /\ UNCHANGED <<rpackets, aborted, ack_expected, frame_expected>>
  BY DEF NetworkLayerReady, f
<1>6. <<f>> \in Seq(Frame) /\ Len(<<f>>) = 1 /\ \A i \in 1 .. Len(<<f>>) : <<f>>[i] = f
  BY <1>4, OneFrame
<1>7. /\ chan' \in [Station -> Seq(Frame)]
      /\ chan'[s] = chan[s] \o <<f>> /\ chan'[v] = chan[v]
      /\ inform_phl_ready' \in [Station -> BOOLEAN]
      /\ phl_ready' \in [Station -> BOOLEAN]
  BY <1>2, <1>5, <1>6, PutFrame
<1>8. /\ Windows'
      /\ pkt_no'[s] = pkt_no[s] + 1 /\ pkt_no'[v] = pkt_no[v]
      /\ \A u \in Station : Acknowledged(u)' = Acknowledged(u)
      /\ room(nbuffered[s])
  BY <1>2, <1>7, SendTurn DEF NetworkLayerReady
<1>9. InTransit(s)'
  <2>1. DataInOrder(chan[s] \o <<f>>, pkt_no[s] + 1, rpackets[v])
    BY <1>2, <1>3, <1>4, NewDataPut DEF InTransit
  <2>2. DataInOrder(chan'[s], pkt_no'[s], rpackets'[v])
    BY <1>5, <1>7, <1>8, <2>1
  <2>. QED
    BY <1>2, <1>5, <1>7, <1>8, <2>2 DEF InTransit
<1>10. InTransit(v)'
  <2>1. /\ Acknowledged(v) \in Nat /\ rpackets[s] \in Nat
        /\ Acknowledged(v) <= rpackets[s]
    BY <1>1, <1>2, CountsAre DEF Windows, WindowIs
  <2>2. AcksInOrder(chan[s], {"ACK"}, Acknowledged(v), rpackets[s])
    BY <1>1, <1>2 DEF InTransit
  <2>3. \A i \in 1 .. Len(<<f>>) : <<f>>[i].kind \notin {"ACK"}
    BY <1>4, <1>6
  <2>4. AcksInOrder(chan[s] \o <<f>>, {"ACK"}, Acknowledged(v), rpackets[s])
    BY <1>2, <1>6, <2>1, <2>2, <2>3, AcksPut
  <2>5. DataInOrder(chan'[v], pkt_no'[v], rpackets'[s])
    BY <1>1, <1>2, <1>5, <1>7, <1>8 DEF InTransit
  <2>. QED
    BY <1>1, <1>5, <1>7, <1>8, <2>4, <2>5 DEF InTransit
<1>11. Sends(s)
  BY <1>5, <1>8 DEF Sends, NetworkLayerReady, take_packet, get_packet
<1>. QED
  BY <1>2, <1>5, <1>7, <1>8, <1>9, <1>10, <1>11, Kept

\* The frame at the head of the peer's channel is taken off it, and nothing
\* else that InTransit speaks of changes.
LEMMA FrameGone ==
    ASSUME IInv, NEW s \in Station, frame_arrived(s), chan' = recv_frame(s),
           UNCHANGED <<pkt_no, rpackets>>,
           \A u \in Station : Acknowledged(u)' = Acknowledged(u)
    PROVE  chan' \in [Station -> Seq(Frame)] /\ InTransit(s)' /\ InTransit(Peer(s))'
<1>. DEFINE v == Peer(s)
<1>1. /\ v \in Station /\ v # s /\ Peer(v) = s
  BY Peers
<1>2. /\ Windows /\ WindowTypes /\ InTransit(s) /\ InTransit(v) /\ WindowIs(s)
      /\ chan \in [Station -> Seq(Frame)]
  BY <1>1, Parts DEF TypeOK, LinkTypeOK, Windows
<1>3. /\ chan' \in [Station -> Seq(Frame)]
      /\ chan'[v] = Tail(chan[v]) /\ chan'[s] = chan[s]
      /\ chan[v] \in Seq(Frame) /\ chan[v] # <<>>
  BY <1>2, RecvFrame
<1>4. /\ Acknowledged(s) \in Nat /\ rpackets[v] \in Nat
      /\ rpackets[v] - Acknowledged(s) <= MAX_SEQ
  BY <1>2, CountsAre
<1>5. AcksInOrder(Tail(chan[v]), {"ACK"}, Acknowledged(s), rpackets[v])
  BY <1>2, <1>3, <1>4, AcksTaken DEF InTransit
<1>6. DataInOrder(Tail(chan[v]), pkt_no[v], rpackets[s])
  BY <1>1, <1>2, <1>3, DataTaken DEF InTransit
<1>7. InTransit(s)'
  BY <1>1, <1>2, <1>3, <1>5 DEF InTransit
<1>8. InTransit(v)'
  BY <1>1, <1>2, <1>3, <1>6 DEF InTransit
<1>. QED
  BY <1>3, <1>7, <1>8

LEMMA StepQuiet ==
    ASSUME IInv, NEW s \in Station,
           \/ PhysicalLayerReady(s) \/ DataIgnored(s) \/ BadFrameReceived(s)
           \/ FrameLost(s) /\ UNCHANGED windowVars
    PROVE  IInv' /\ LeavesLink
<1>1. /\ TypeOK /\ aborted = {} /\ Windows
      /\ \A u \in Station : InTransit(u)
      /\ Peer(s) \in Station
  BY Parts, Peers DEF NobodyAborts
<1>2. /\ UNCHANGED <<timer, pkt_no, rpackets, aborted>>
      /\ UNCHANGED windowVars
      /\ loop_end(s, room(nbuffered[s])) \/ UNCHANGED network_layer_active
      /\ inform_phl_ready' \in [Station -> BOOLEAN]
      /\ phl_ready' \in [Station -> BOOLEAN]
  BY <1>1 DEF PhysicalLayerReady, DataIgnored, BadFrameReceived, FrameLost,
              TypeOK, LinkTypeOK
<1>3. /\ Windows'
      /\ \A u \in Station : Acknowledged(u)' = Acknowledged(u)
  BY <1>1, <1>2, QuietTurn DEF windowVars
<1>4. chan' \in [Station -> Seq(Frame)] /\ InTransit(s)' /\ InTransit(Peer(s))'
  <2>1. CASE PhysicalLayerReady(s)
    BY <1>1, <1>2, <1>3, <2>1 DEF PhysicalLayerReady, InTransit, TypeOK, LinkTypeOK
  <2>2. CASE ~PhysicalLayerReady(s)
    <3>1. frame_arrived(s) /\ chan' = recv_frame(s)
      BY <2>2 DEF DataIgnored, BadFrameReceived, FrameLost
    <3>. QED
      BY <1>2, <1>3, <3>1, FrameGone
  <2>. QED
    BY <2>1, <2>2
<1>. QED
  BY <1>1, <1>2, <1>3, <1>4, Kept DEF LeavesLink

LEMMA StepAckReceived ==
    ASSUME IInv, NEW s \in Station, AckReceived(s)
    PROVE  IInv' /\ Receives(s)
<1>. DEFINE v == Peer(s)
            ack == Arriving(s).ack
<1>1. /\ v \in Station /\ v # s /\ Peer(v) = s
  BY Peers
<1>2. /\ aborted = {} /\ Windows /\ WindowTypes /\ FlagTypes
      /\ InTransit(s) /\ InTransit(v) /\ WindowIs(s) /\ WindowIs(v)
      /\ chan \in [Station -> Seq(Frame)]
  BY <1>1, Parts DEF NobodyAborts, TypeOK, LinkTypeOK, Windows
<1>3. /\ frame_arrived(s) /\ Arriving(s).kind = "ACK"
      /\ process_ack(s, ack, timer[s])
      /\ chan' = recv_frame(s)
      /\ UNCHANGED <<inform_phl_ready, phl_ready, pkt_no, rpackets, aborted,
                     out_buf, next_frame_to_send, frame_expected>>
      /\ loop_end(s, room(nbuffered'[s]))
  BY DEF AckReceived
<1>4. /\ chan' \in [Station -> Seq(Frame)]
      /\ chan'[v] = Tail(chan[v]) /\ chan'[s] = chan[s]
      /\ chan[v] \in Seq(Frame) /\ chan[v] # <<>> /\ Arriving(s) = Head(chan[v])
  BY <1>2, <1>3, RecvFrame
<1>5. /\ Acknowledged(s) \in Nat /\ rpackets[v] \in Nat
      /\ rpackets[v] - Acknowledged(s) <= MAX_SEQ
      /\ rpackets[s] \in Nat /\ rpackets[s] <= pkt_no[v]
  BY <1>1, <1>2, CountsAre DEF WindowIs
<1>6. PICK x \in Acknowledged(s) .. rpackets[v] :
         /\ ack = plus(x, MAX_SEQ)
         /\ AcksInOrder(Tail(chan[v]), {"ACK"}, x, rpackets[v])
  BY <1>2, <1>3, <1>4, <1>5, AcksTaken DEF InTransit
<1>7. /\ Windows'
      /\ Acknowledged(s)' = x /\ Acknowledged(v)' = Acknowledged(v)
  <2>1. PICK k \in 0 .. MAX_SEQ :
           /\ rpackets[s] + k <= pkt_no[v]
           /\ rpackets' = [rpackets EXCEPT ![s] = @ + k]
           /\ frame_expected' = [frame_expected EXCEPT ![s] = plus(@, k)]
    BY <1>2, <1>3, NoneTaken
  <2>. QED
    BY <1>2, <1>3, <1>6, <2>1, ReceiveTurn DEF FlagTypes
<1>8. InTransit(s)'
  BY <1>2, <1>3, <1>4, <1>6, <1>7 DEF InTransit
<1>9. InTransit(v)'
  <2>1. DataInOrder(Tail(chan[v]), pkt_no[v], rpackets[s])
    BY <1>1, <1>2, <1>4, DataTaken DEF InTransit
  <2>. QED
    BY <1>1, <1>2, <1>3, <1>4, <1>7, <2>1 DEF InTransit
<1>10. Receives(s)
  <2>1. rpackets[s] \in rpackets[s] .. pkt_no[v]
    BY <1>1, <1>2, <1>5, CountsAre
  <2>. QED
    BY <1>3, <1>6, <1>7, <2>1 DEF Receives
<1>. QED
  BY <1>2, <1>3, <1>4, <1>7, <1>8, <1>9, <1>10, Kept DEF FlagTypes

LEMMA StepDataAccepted ==
    ASSUME IInv, NEW s \in Station, DataAccepted(s)
    PROVE  IInv' /\ Receives(s)
<1>. DEFINE v == Peer(s)
            f == Arriving(s)
            r == rpackets[s]
            g == <<ack_frame(f.seq)>>
<1>1. /\ v \in Station /\ v # s /\ Peer(v) = s
      /\ \A u \in Station : u = s \/ u = v
  BY Peers
<1>2. /\ aborted = {} /\ Windows /\ WindowTypes /\ FlagTypes
      /\ InTransit(s) /\ InTransit(v) /\ WindowIs(s) /\ WindowIs(v)
      /\ TimersAre(s) /\ TimersAre(v)
      /\ chan \in [Station -> Seq(Frame)]
      /\ rpackets \in [Station -> Nat] /\ frame_expected \in [Station -> SeqNr]
  BY <1>1, Parts DEF NobodyAborts, TypeOK, LinkTypeOK, Windows, WindowTypes,
                     WindowTypeOK
<1>3. /\ frame_arrived(s) /\ f.kind = "DATA" /\ f.seq = frame_expected[s]
      /\ put_packet(s, f.pkt)
      /\ put_frame(s, recv_frame(s), g)
      /\ frame_expected' = [frame_expected EXCEPT ![s] = plus(@, 1)]
      /\ UNCHANGED <<timer, pkt_no, out_buf, ack_expected,
                     next_frame_to_send, nbuffered>>
      /\ loop_end(s, room(nbuffered'[s]))
  BY DEF DataAccepted, inc
<1>4. /\ recv_frame(s) \in [Station -> Seq(Frame)]
      /\ recv_frame(s)[v] = Tail(chan[v]) /\ recv_frame(s)[s] = chan[s]
      /\ chan[v] \in Seq(Frame) /\ chan[v] # <<>> /\ f = Head(chan[v])
  BY <1>2, <1>3, RecvFrame
<1>5. /\ f.pkt \in 1 .. pkt_no[v] /\ f.seq = number(f.pkt - 1)
      /\ r < f.pkt + NR_BUFS
      /\ DataInOrder(Tail(chan[v]), pkt_no[v], r)
      /\ \A j \in 1 .. Len(Tail(chan[v])) : Tail(chan[v])[j].kind = "DATA" =>
            f.pkt < Tail(chan[v])[j].pkt + NR_BUFS
  BY <1>1, <1>2, <1>3, <1>4, DataTaken DEF InTransit
<1>6. f.pkt = r + 1
  BY <1>1, <1>2, <1>3, <1>5, ExpectedPacket
<1>7. r \in Nat /\ r + 1 <= pkt_no[v] /\ frame_expected[s] = number(r)
  BY <1>1, <1>2, <1>5, <1>6 DEF WindowTypes, WindowIs
<1>8. rpackets' = [rpackets EXCEPT ![s] = @ + 1] /\ aborted' = {}
  BY <1>2, <1>3, <1>6 DEF put_packet
<1>9. f.seq = plus(r + 1, MAX_SEQ) /\ f.seq \in SeqNr
  <2>1. r + 1 \in Nat /\ r + 1 > 0 /\ (r + 1) - 1 = r
    BY <1>7
  <2>. QED
    BY <1>3, <1>7, <2>1, AckNumber, NumberType
<1>10. /\ ack_frame(f.seq) \in Frame
       /\ ack_frame(f.seq).kind = "ACK" /\ ack_frame(f.seq).ack = f.seq
  BY <1>9, BuiltFrames
<1>11. /\ g \in Seq(Frame)
       /\ \A i \in 1 .. Len(g) : g[i].kind = "ACK" /\ g[i].ack = f.seq
  BY <1>10, OneFrame
<1>. HIDE DEF g, f
<1>12. /\ chan' \in [Station -> Seq(Frame)]
       /\ chan'[s] = chan[s] \o g /\ chan'[v] = Tail(chan[v])
       /\ inform_phl_ready' \in [Station -> BOOLEAN]
       /\ phl_ready' \in [Station -> BOOLEAN]
  <2>. DEFINE ch == recv_frame(s)
  <2>1. ch \in [Station -> Seq(Frame)] /\ put_frame(s, ch, g)
    BY <1>3, <1>4
  <2>2. ch[s] = chan[s] /\ ch[v] = Tail(chan[v])
    BY <1>4
  <2>. HIDE DEF ch
  <2>3. /\ chan' \in [Station -> Seq(Frame)]
        /\ chan'[s] = ch[s] \o g /\ chan'[v] = ch[v]
        /\ inform_phl_ready' \in [Station -> BOOLEAN]
        /\ phl_ready' \in [Station -> BOOLEAN]
    BY <1>2, <1>11, <2>1, PutFrame
  <2>. QED
    BY <2>2, <2>3
<1>13. /\ rpackets'[s] = r + 1 /\ rpackets'[v] = rpackets[v]
       /\ frame_expected'[s] = plus(frame_expected[s], 1)
       /\ frame_expected'[v] = frame_expected[v]
  BY <1>1, <1>2, <1>3, <1>8
<1>14. WindowIs(s)' /\ TimersAre(s)' /\ Acknowledged(s)' = Acknowledged(s)
  BY <1>2, <1>3, <1>13, WindowSame
<1>15. /\ WindowIs(v)' /\ TimersAre(v)' /\ Acknowledged(v)' = Acknowledged(v)
       /\ rpackets'[s] \in Nat /\ frame_expected'[s] \in SeqNr
  <2>. HIDE DEF v
  <2>1. 1 \in 0 .. MAX_SEQ
    BY Sizes
  <2>2. /\ rpackets[Peer(v)] + 1 <= pkt_no[v]
        /\ rpackets'[Peer(v)] = rpackets[Peer(v)] + 1
        /\ frame_expected'[Peer(v)] = plus(frame_expected[Peer(v)], 1)
    BY <1>1, <1>7, <1>13 DEF v
  <2>3. /\ WindowIs(v)' /\ TimersAre(v)' /\ Acknowledged(v)' = Acknowledged(v)
        /\ rpackets'[Peer(v)] \in Nat /\ frame_expected'[Peer(v)] \in SeqNr
    BY <1>1, <1>2, <1>3, <2>1, <2>2, TookIn
  <2>. QED
    BY <1>1, <2>3
<1>16. Windows'
  <2>1. /\ network_layer_active' \in [Station -> BOOLEAN]
        /\ \A u \in Station : OpenIfActive(u)'
    BY <1>2, <1>3, <1>12, LoopEnd DEF Windows
  <2>2. rpackets' \in [Station -> Nat] /\ frame_expected' \in [Station -> SeqNr]
    BY <1>2, <1>3, <1>8, <1>13, <1>15
  <2>3. WindowTypes'
    BY <1>2, <1>3, <2>2 DEF WindowTypes, WindowTypeOK
  <2>. QED
    BY <1>1, <1>12, <1>14, <1>15, <2>1, <2>3 DEF Windows, FlagTypes
<1>17. InTransit(v)'
  <2>1. /\ Acknowledged(v) \in Nat /\ Acknowledged(v) <= r
        /\ r + 1 \in Nat /\ r <= r + 1 /\ Acknowledged(v) <= r + 1
    <3>1. Acknowledged(v) \in Nat /\ Acknowledged(v) <= r
      BY <1>1, <1>2, CountsAre DEF WindowIs
    <3>. QED
      BY <1>7, <3>1
  <2>2. AcksInOrder(chan[s], {"ACK"}, Acknowledged(v), r + 1)
    BY <1>1, <1>2, <1>7, <2>1, AcksHad DEF InTransit
  <2>3. AcksInOrder(chan[s] \o g, {"ACK"}, Acknowledged(v), r + 1)
    BY <1>2, <1>9, <1>11, <2>1, <2>2, AcksPut
  <2>4. DataInOrder(Tail(chan[v]), pkt_no[v], r + 1)
    BY <1>5, <1>6, DataHad
  <2>. QED
    BY <1>1, <1>3, <1>12, <1>13, <1>15, <2>3, <2>4 DEF InTransit
<1>18. InTransit(s)'
  <2>1. /\ Acknowledged(s) \in Nat /\ rpackets[v] \in Nat /\ pkt_no[s] \in Nat
        /\ rpackets[v] - Acknowledged(s) <= MAX_SEQ /\ rpackets[v] <= pkt_no[s]
        /\ pkt_no[s] <= pkt_no[s]
    BY <1>2, CountsAre DEF WindowIs
  <2>2. AcksInOrder(Tail(chan[v]), {"ACK"}, Acknowledged(s), rpackets[v])
    BY <1>2, <1>4, <2>1, AcksTaken DEF InTransit
  <2>3. \A i \in 1 .. Len(g) : g[i].kind # "DATA"
    BY <1>11
  <2>4. DataInOrder(chan[s] \o g, pkt_no[s], rpackets[v])
    BY <1>2, <1>11, <2>1, <2>3, DataPut DEF InTransit
  <2>. QED
    BY <1>3, <1>12, <1>13, <1>14, <2>2, <2>4 DEF InTransit
<1>19. Receives(s)
  <2>1. /\ pkt_no[v] \in Nat /\ Acknowledged(s) \in Nat /\ rpackets[v] \in Nat
        /\ Acknowledged(s) <= rpackets[v]
    BY <1>1, <1>2, CountsAre DEF WindowIs
  <2>2. r + 1 \in r .. pkt_no[v] /\ Acknowledged(s) \in Acknowledged(s) .. rpackets[v]
    BY <1>7, <2>1
  <2>. QED
    BY <1>2, <1>3, <1>8, <1>13, <1>14, <1>15, <2>2 DEF Receives
<1>. QED
  BY <1>2, <1>8, <1>12, <1>16, <1>17, <1>18, <1>19, Kept

LEMMA StepDataTimeout ==
    ASSUME IInv, NEW s \in Station, DataTimeout(s)
    PROVE  IInv' /\ LeavesLink
<1>. DEFINE v == Peer(s)
            w == window_of(s)
            g == [i \in DOMAIN w |-> data_frame(w[i], out_buf[s][w[i] % NR_BUFS])]
<1>1. /\ v \in Station /\ v # s /\ Peer(v) = s
  BY Peers
<1>2. /\ aborted = {} /\ Windows /\ WindowTypes /\ FlagTypes
      /\ InTransit(s) /\ InTransit(v) /\ WindowIs(s) /\ WindowIs(v)
      /\ TimersAre(s) /\ timer \in [Station -> SUBSET SeqNr]
      /\ chan \in [Station -> Seq(Frame)]
  BY <1>1, Parts DEF NobodyAborts, TypeOK, LinkTypeOK, Windows
<1>3. /\ put_frame(s, chan, g)
      /\ UNCHANGED <<pkt_no, rpackets, aborted, windowVars>>
      /\ loop_end(s, room(nbuffered'[s]))
  BY DEF DataTimeout, windowVars
<1>4. PICK nr \in timer[s] :
         timer' = [timer EXCEPT ![s] = (@ \ {nr}) \cup {w[i] : i \in DOMAIN w}]
  BY DEF DataTimeout, timer_expired
<1>5. PICK n \in Nat, a \in Nat, p \in Nat, r \in Nat :
         /\ n = nbuffered[s] /\ a = Acknowledged(s)
         /\ p = pkt_no[s] /\ r = rpackets[v] /\ r <= p
         /\ a <= r
  BY <1>2, CountsAre DEF WindowIs
<1>6. /\ DOMAIN w = 1 .. n
      /\ \A i \in 1 .. n :
            /\ w[i] = number((a + i) - 1) /\ w[i] \in SeqNr
            /\ out_buf[s][w[i] % NR_BUFS] = a + i
            /\ a + i \in 1 .. p /\ p < (a + i) + NR_BUFS
      /\ {w[i] : i \in DOMAIN w} = timer[s]
  BY <1>2, <1>5, WindowResent
<1>7. UNCHANGED timer
  BY <1>2, <1>4, <1>6
<1>. HIDE DEF w
<1>8. /\ g \in Seq(Frame)
      /\ \A i \in 1 .. Len(g) :
            /\ g[i].kind = "DATA" /\ g[i].pkt \in 1 .. p
            /\ g[i].seq = number(g[i].pkt - 1) /\ p < g[i].pkt + NR_BUFS
  <2>1. ASSUME NEW i \in 1 .. n
        PROVE  /\ g[i] \in Frame /\ g[i].kind = "DATA" /\ g[i].pkt \in 1 .. p
               /\ g[i].seq = number(g[i].pkt - 1) /\ p < g[i].pkt + NR_BUFS
    <3>1. /\ w[i] = number((a + i) - 1) /\ w[i] \in SeqNr
          /\ out_buf[s][w[i] % NR_BUFS] = a + i /\ a + i \in 1 .. p
          /\ p < (a + i) + NR_BUFS
      BY <1>6, Zenon
    <3>4. a + i \in Nat
      BY <1>5
    <3>2. g[i] = data_frame(w[i], a + i)
      BY <1>6, <3>1
    <3>3. /\ g[i] \in Frame /\ g[i].kind = "DATA"
          /\ g[i].seq = w[i] /\ g[i].pkt = a + i
      BY <3>1, <3>2, <3>4, BuiltData
    <3>. QED
      BY <3>1, <3>3
  <2>2. DOMAIN g = 1 .. n
    BY <1>6
  <2>. HIDE DEF g
  <2>3. g = [i \in 1 .. n |-> g[i]]
    BY <2>2 DEF g
  <2>4. g \in [1 .. n -> Frame]
    BY <2>1, <2>3
  <2>5. g \in Seq(Frame) /\ Len(g) = n
    BY <1>5, <2>4
  <2>. QED
    BY <2>1, <2>5
<1>. HIDE DEF g
<1>9. /\ chan' \in [Station -> Seq(Frame)]
      /\ chan'[s] = chan[s] \o g /\ chan'[v] = chan[v]
      /\ inform_phl_ready' \in [Station -> BOOLEAN]
      /\ phl_ready' \in [Station -> BOOLEAN]
  BY <1>2, <1>3, <1>8, PutFrame
<1>10. /\ Windows'
       /\ \A u \in Station : Acknowledged(u)' = Acknowledged(u)
  BY <1>2, <1>3, <1>7, <1>9, QuietTurn DEF windowVars
<1>11. InTransit(s)'
  <2>1. /\ DataInOrder(chan[s], p, r)
        /\ chan[s] \in Seq(Frame) /\ r <= p /\ p <= p
    BY <1>2, <1>5 DEF InTransit
  <2>2. DataInOrder(chan[s] \o g, p, r)
    BY <1>8, <2>1, DataPut
  <2>. QED
    BY <1>2, <1>3, <1>5, <1>9, <1>10, <2>2 DEF InTransit
<1>12. InTransit(v)'
  <2>1. /\ Acknowledged(v) \in Nat /\ rpackets[s] \in Nat
        /\ Acknowledged(v) <= rpackets[s]
    BY <1>1, <1>2, CountsAre DEF WindowIs
  <2>2. \A i \in 1 .. Len(g) : g[i].kind \notin {"ACK"}
    BY <1>8
  <2>3. AcksInOrder(chan[s] \o g, {"ACK"}, Acknowledged(v), rpackets[s])
    BY <1>1, <1>2, <1>8, <2>1, <2>2, AcksPut DEF InTransit
  <2>. QED
    BY <1>1, <1>2, <1>3, <1>9, <1>10, <2>3 DEF InTransit
<1>. QED
  BY <1>2, <1>3, <1>9, <1>10, <1>11, <1>12, Kept DEF LeavesLink

LEMMA StepIInv ==
    ASSUME IInv, [Next]_vars
    PROVE  /\ IInv'
           /\ LeavesLink \/ \E s \in Station : Sends(s) \/ Receives(s)
<1>1. CASE Next
  <2>1. PICK s \in Station : \/ NetworkLayerReady(s)
                             \/ PhysicalLayerReady(s)
                             \/ AckReceived(s)
                             \/ DataAccepted(s)
                             \/ DataIgnored(s)
                             \/ BadFrameReceived(s)
                             \/ DataTimeout(s)
                             \/ FrameLost(s) /\ UNCHANGED windowVars
    BY <1>1 DEF Next
  <2>2. CASE NetworkLayerReady(s)
    BY <2>2, StepNetworkLayerReady
  <2>3. CASE AckReceived(s)
    BY <2>3, StepAckReceived
  <2>4. CASE DataAccepted(s)
    BY <2>4, StepDataAccepted
  <2>5. CASE DataTimeout(s)
    BY <2>5, StepDataTimeout
  <2>6. CASE \/ PhysicalLayerReady(s) \/ DataIgnored(s) \/ BadFrameReceived(s)
             \/ FrameLost(s) /\ UNCHANGED windowVars
    BY <2>6, StepQuiet
  <2>. QED
    BY <2>1, <2>2, <2>3, <2>4, <2>5, <2>6
<1>2. CASE UNCHANGED vars
  <2>1. UNCHANGED <<pkt_no, rpackets, aborted>>
        /\ \A u \in Station : Acknowledged(u)' = Acknowledged(u)
    BY <1>2 DEF vars, Acknowledged
  <2>2. UNCHANGED windowVars /\ UNCHANGED network_layer_active
    BY <1>2 DEF vars, windowVars
  <2>3. /\ TypeOK /\ aborted = {} /\ Windows /\ A \in Station
        /\ \A u \in Station : InTransit(u)
    BY Parts DEF NobodyAborts, Station
  <2>4. Windows'
    BY <1>2, <2>2, <2>3, QuietTurn DEF vars, TypeOK, LinkTypeOK
  <2>5. InTransit(A)' /\ InTransit(Peer(A))'
    BY <1>2, <2>1, <2>3, Peers DEF vars, InTransit
  <2>6. IInv'
    BY <1>2, <2>3, <2>4, <2>5, Kept DEF vars, TypeOK, LinkTypeOK
  <2>. QED
    BY <2>1, <2>6 DEF LeavesLink
<1>. QED
  BY <1>1, <1>2

(***************************************************************************)
(* The theorems.                                                           *)
(***************************************************************************)

\* go_back_n.c keeps its inductive invariant: numbers are counts of packets
\* modulo MAX_SEQ + 1, in the windows and in every frame under way.
THEOREM GoBackNInvariant == Spec => []IInv
<1>1. IInv /\ [Next]_vars => IInv'
  BY StepIInv
<1>. QED
  BY <1>1, InitIInv, PTL DEF Spec

\* Nothing is freed or overwritten before the peer has it, whatever is lost
\* or damaged and however often the numbers come round.
THEOREM GoBackNWindow == Spec => []WindowOK
<1>1. IInv => WindowOK
  BY Parts, WindowsAgree DEF WindowOK, Windows
<1>. QED
  BY <1>1, GoBackNInvariant, PTL

\* Exactly the outstanding frames have a running timer.
THEOREM GoBackNTimers == Spec => []TimersMatchWindow
<1>1. IInv => TimersMatchWindow
  BY DEF IInv
<1>. QED
  BY <1>1, GoBackNInvariant, PTL

\* put_packet never gets a packet out of its sequence.
THEOREM GoBackNNeverAborts == Spec => []NobodyAborts
<1>1. IInv => NobodyAborts
  BY DEF IInv
<1>. QED
  BY <1>1, GoBackNInvariant, PTL

\* Every run of go_back_n.c is a run of the reliable link: a FIFO in each
\* direction that loses, repeats and reorders nothing.
THEOREM GoBackNRefines == Spec => ImplementsReliableLink
<1>1. Init => Link!Init
  BY LinkInitially DEF Init
<1>2. IInv /\ [Next]_vars => [Link!Next]_(Link!vars)
  BY StepIInv, LinkTurn, Parts
<1>. QED
  BY <1>1, <1>2, GoBackNInvariant, PTL
     DEF Spec, ImplementsReliableLink, Link!Spec
=============================================================================
