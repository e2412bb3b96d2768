--------------------------- MODULE StopAndWaitProofs ---------------------------
(***************************************************************************)
(* Proofs about StopAndWait, for any amount of traffic and any number of   *)
(* frames in flight.                                                       *)
(***************************************************************************)
EXTENDS StopAndWait, TLAPS

(***************************************************************************)
(* Stations, frames and channels.                                          *)
(***************************************************************************)

\* There are two stations, each the peer of the other.
LEMMA Peers ==
    \A s \in Station : /\ Peer(s) \in Station
                       /\ Peer(s) # s
                       /\ Peer(Peer(s)) = s
                       /\ \A u \in Station : u = s \/ u = Peer(s)
BY StationsDiffer DEF Station, Peer

\* What the fields of a frame are.
LEMMA Frames ==
    \A f \in Frame : /\ f.ack \in Bit
                     /\ f.kind \in {"DATA", "ACK"}
                     /\ f.kind = "DATA" => f.seq \in Bit /\ f.pkt \in Nat
BY DEF Frame, DataFrame, AckFrame

\* Reception takes the head off the peer's channel.
LEMMA Received ==
    ASSUME NEW s \in Station, chan \in [Station -> Seq(Frame)],
           chan[Peer(s)] # <<>>
    PROVE  /\ recv_frame(s) \in [Station -> Seq(Frame)]
           /\ recv_frame(s)[s] = chan[s]
           /\ recv_frame(s)[Peer(s)] = Tail(chan[Peer(s)])
           /\ Arriving(s) = Head(chan[Peer(s)])
           /\ Arriving(s) \in Frame
<1>1. Peer(s) \in Station /\ Peer(s) # s
  BY Peers
<1>2. chan[Peer(s)] \in Seq(Frame)
  BY <1>1
<1>3. /\ Tail(chan[Peer(s)]) \in Seq(Frame)
      /\ Head(chan[Peer(s)]) \in Frame
  BY <1>2
<1>. QED
  BY <1>1, <1>3 DEF recv_frame, Arriving

\* Handing one frame to the physical layer appends it to the own channel.
LEMMA PutOne ==
    ASSUME NEW s \in Station, NEW ch \in [Station -> Seq(Frame)],
           NEW f \in Frame, put_frame(s, ch, <<f>>)
    PROVE  /\ chan' \in [Station -> Seq(Frame)]
           /\ chan'[s] = ch[s] \o <<f>>
           /\ chan'[Peer(s)] = ch[Peer(s)]
<1>1. Peer(s) \in Station /\ Peer(s) # s
  BY Peers
<1>2. ch[s] \o <<f>> \in Seq(Frame)
  OBVIOUS
<1>3. chan' = [ch EXCEPT ![s] = ch[s] \o <<f>>]
  BY DEF put_frame
<1>. QED
  BY <1>1, <1>2, <1>3

\* A handler that sends nothing leaves the channels as reception left them.
LEMMA PutNone ==
    ASSUME NEW s \in Station, NEW ch \in [Station -> Seq(Frame)],
           put_frame(s, ch, <<>>)
    PROVE  chan' = ch
<1>1. ch[s] \o <<>> = ch[s]
  OBVIOUS
<1>2. chan' = [ch EXCEPT ![s] = ch[s] \o <<>>]
  BY DEF put_frame
<1>. QED
  BY <1>1, <1>2

(***************************************************************************)
(* Type correctness.                                                       *)
(***************************************************************************)

\* The types, variable by variable; the channels apart from the rest, since
\* arithmetic and sequences do not go well together in one obligation.
LEMMA ChannelType ==
    ASSUME TypeOK
    PROVE  chan \in [Station -> Seq(Frame)]
BY DEF TypeOK, LinkTypeOK

LEMMA Types ==
    ASSUME TypeOK
    PROVE  /\ inform_phl_ready \in [Station -> BOOLEAN]
           /\ phl_ready \in [Station -> BOOLEAN]
           /\ network_layer_active \in [Station -> BOOLEAN]
           /\ timer \in [Station -> SUBSET Bit]
           /\ pkt_no \in [Station -> Nat]
           /\ rpackets \in [Station -> Nat]
           /\ aborted \in SUBSET Station
           /\ frame_nr \in [Station -> Bit]
           /\ buffer \in [Station -> Nat]
           /\ nbuffered \in [Station -> 0 .. 255]
           /\ frame_expected \in [Station -> Bit]
BY DEF TypeOK, LinkTypeOK

\* The frames a station builds are frames.
LEMMA BuiltFrames ==
    ASSUME TypeOK, NEW s \in Station
    PROVE  /\ \A packet \in Nat : data_frame(s, packet) \in Frame
           /\ \A e \in Bit : ack_frame(e) \in Frame
BY DEF TypeOK, data_frame, ack_frame, Frame, DataFrame, AckFrame, Bit

\* The flags of put_frame and loop_end stay Boolean.
LEMMA FlagTypes ==
    ASSUME TypeOK, NEW s \in Station, NEW ch, NEW frames,
           put_frame(s, ch, frames)
    PROVE  /\ inform_phl_ready' \in [Station -> BOOLEAN]
           /\ phl_ready' \in [Station -> BOOLEAN]
BY DEF TypeOK, LinkTypeOK, put_frame

LEMMA LoopEndType ==
    ASSUME TypeOK, phl_ready' \in [Station -> BOOLEAN],
           NEW s \in Station, NEW free, loop_end(s, free)
    PROVE  network_layer_active' \in [Station -> BOOLEAN]
BY DEF TypeOK, LinkTypeOK, loop_end

LEMMA InitTypeOK == Init => TypeOK
BY DEF Init, LinkInit, TypeOK, LinkTypeOK, Bit, Station

\* Every action of a station keeps the types.
LEMMA NextTypeOK == TypeOK /\ [Next]_vars => TypeOK'
<1> SUFFICES ASSUME TypeOK, [Next]_vars PROVE TypeOK'
  OBVIOUS
<1>1. ASSUME NEW s \in Station, NetworkLayerReady(s) PROVE TypeOK'
  <2>1. data_frame(s, pkt_no[s] + 1) \in Frame
    <3>1. pkt_no[s] + 1 \in Nat
      BY DEF TypeOK, LinkTypeOK
    <3>. QED
      BY <3>1, BuiltFrames
  <2>2. put_frame(s, chan, <<data_frame(s, pkt_no[s] + 1)>>)
    BY <1>1 DEF NetworkLayerReady, send_data_frame
  <2>3. chan' \in [Station -> Seq(Frame)]
    BY <2>1, <2>2, PutOne DEF TypeOK, LinkTypeOK
  <2>4. /\ inform_phl_ready' \in [Station -> BOOLEAN]
        /\ phl_ready' \in [Station -> BOOLEAN]
    BY <2>2, FlagTypes
  <2>5. network_layer_active' \in [Station -> BOOLEAN]
    <3>1. loop_end(s, nbuffered'[s] < 1)
      BY <1>1 DEF NetworkLayerReady
    <3>. QED
      BY <2>4, <3>1, LoopEndType
  <2>6. /\ timer' \in [Station -> SUBSET Bit]
        /\ pkt_no' \in [Station -> Nat]
        /\ buffer' \in [Station -> Nat]
        /\ nbuffered' \in [Station -> 0 .. 255]
    <3>1. timer' \in [Station -> SUBSET Bit]
      <4>1. frame_nr[s] \in Bit
        BY DEF TypeOK
      <4>2. timer' = [timer EXCEPT ![s] = @ \cup {frame_nr[s]}]
        BY <1>1 DEF NetworkLayerReady, send_data_frame
      <4>. QED
        BY <4>1, <4>2 DEF TypeOK, LinkTypeOK
    <3>2. pkt_no' \in [Station -> Nat] /\ buffer' \in [Station -> Nat]
      BY <1>1 DEF TypeOK, LinkTypeOK, NetworkLayerReady, get_packet
    <3>3. nbuffered' \in [Station -> 0 .. 255]
      BY <1>1 DEF TypeOK, NetworkLayerReady
    <3>. QED
      BY <3>1, <3>2, <3>3
  <2>. QED
    BY <1>1, <2>3, <2>4, <2>5, <2>6 DEF TypeOK, LinkTypeOK, NetworkLayerReady
<1>2. ASSUME NEW s \in Station, PhysicalLayerReady(s) PROVE TypeOK'
  <2>1. phl_ready' \in [Station -> BOOLEAN]
    BY <1>2 DEF TypeOK, LinkTypeOK, PhysicalLayerReady
  <2>2. network_layer_active' \in [Station -> BOOLEAN]
    <3>1. loop_end(s, nbuffered[s] < 1)
      BY <1>2 DEF PhysicalLayerReady
    <3>. QED
      BY <2>1, <3>1, LoopEndType
  <2>. QED
    BY <1>2, <2>1, <2>2 DEF TypeOK, LinkTypeOK, PhysicalLayerReady, sawVars
<1>3. ASSUME NEW s \in Station, FrameReceived(s) PROVE TypeOK'
  <2> DEFINE f == Arriving(s)
             answer == IF f.kind = "DATA"
                       THEN <<ack_frame(frame_expected'[s])>> ELSE <<>>
  <2>1. /\ recv_frame(s) \in [Station -> Seq(Frame)]
        /\ f \in Frame
    BY <1>3, Received DEF TypeOK, LinkTypeOK, FrameReceived, frame_arrived
  <2>2. /\ rpackets' \in [Station -> Nat]
        /\ aborted' \in SUBSET Station
        /\ frame_expected' \in [Station -> Bit]
    <3>1. accept_data(s, f)
      BY <1>3 DEF FrameReceived
    <3>2. 1 - frame_expected[s] \in Bit
      BY DEF TypeOK, Bit
    <3>3. f.kind = "DATA" => f.pkt \in Nat
      BY <2>1, Frames
    <3>4. rpackets' \in [Station -> Nat]
      BY <3>1, <3>3 DEF TypeOK, LinkTypeOK, accept_data, put_packet
    <3>5. aborted' \in SUBSET Station
      BY <3>1 DEF TypeOK, LinkTypeOK, accept_data, put_packet
    <3>6. frame_expected' \in [Station -> Bit]
      BY <3>1, <3>2 DEF TypeOK, accept_data
    <3>. QED
      BY <3>4, <3>5, <3>6
  <2>3. put_frame(s, recv_frame(s), answer)
    BY <1>3 DEF FrameReceived
  <2>4. chan' \in [Station -> Seq(Frame)]
    <3>1. CASE f.kind = "DATA"
      <4>1. ack_frame(frame_expected'[s]) \in Frame
        BY <2>2, BuiltFrames
      <4>2. put_frame(s, recv_frame(s), <<ack_frame(frame_expected'[s])>>)
        BY <2>3, <3>1
      <4>. QED
        BY <2>1, <4>1, <4>2, PutOne
    <3>2. CASE f.kind # "DATA"
      <4>1. put_frame(s, recv_frame(s), <<>>)
        BY <2>3, <3>2
      <4>. QED
        BY <2>1, <4>1, PutNone
    <3>. QED
      BY <3>1, <3>2
  <2>5. /\ inform_phl_ready' \in [Station -> BOOLEAN]
        /\ phl_ready' \in [Station -> BOOLEAN]
    BY <2>3, FlagTypes
  <2>6. /\ timer' \in [Station -> SUBSET Bit]
        /\ nbuffered' \in [Station -> 0 .. 255]
        /\ frame_nr' \in [Station -> Bit]
    <3>1. accept_ack(s, f)
      BY <1>3 DEF FrameReceived
    <3>2. 1 - frame_nr[s] \in Bit
      BY DEF TypeOK, Bit
    <3>3. timer' \in [Station -> SUBSET Bit]
      <4>0. timer \in [Station -> SUBSET Bit]
        BY DEF TypeOK, LinkTypeOK
      <4>1. timer[s] \ {frame_nr[s]} \in SUBSET Bit
        BY <4>0
      <4>. QED
        BY <3>1, <4>0, <4>1 DEF accept_ack
    <3>4. nbuffered' \in [Station -> 0 .. 255]
      <4>1. (nbuffered[s] + 255) % 256 \in 0 .. 255
        BY DEF TypeOK
      <4>. QED
        BY <3>1, <4>1 DEF TypeOK, accept_ack
    <3>5. frame_nr' \in [Station -> Bit]
      BY <3>1, <3>2 DEF TypeOK, accept_ack
    <3>. QED
      BY <3>3, <3>4, <3>5
  <2>7. network_layer_active' \in [Station -> BOOLEAN]
    <3>1. loop_end(s, nbuffered'[s] < 1)
      BY <1>3 DEF FrameReceived
    <3>. QED
      BY <2>5, <3>1, LoopEndType
  <2>. QED
    BY <1>3, <2>2, <2>4, <2>5, <2>6, <2>7 DEF TypeOK, LinkTypeOK, FrameReceived
<1>4. ASSUME NEW s \in Station, BadFrameReceived(s) PROVE TypeOK'
  <2>1. chan' \in [Station -> Seq(Frame)]
    BY <1>4, Received DEF TypeOK, LinkTypeOK, BadFrameReceived, frame_arrived
  <2>2. network_layer_active' \in [Station -> BOOLEAN]
    <3>1. loop_end(s, nbuffered[s] < 1) /\ phl_ready' = phl_ready
      BY <1>4 DEF BadFrameReceived
    <3>. QED
      BY <3>1, LoopEndType DEF TypeOK, LinkTypeOK
  <2>. QED
    BY <1>4, <2>1, <2>2 DEF TypeOK, LinkTypeOK, BadFrameReceived, sawVars
<1>5. ASSUME NEW s \in Station, DataTimeout(s) PROVE TypeOK'
  <2>1. data_frame(s, buffer[s]) \in Frame
    <3>1. buffer[s] \in Nat
      BY DEF TypeOK
    <3>. QED
      BY <3>1, BuiltFrames
  <2>2. put_frame(s, chan, <<data_frame(s, buffer[s])>>)
    BY <1>5 DEF DataTimeout
  <2>3. chan' \in [Station -> Seq(Frame)]
    BY <2>1, <2>2, PutOne DEF TypeOK, LinkTypeOK
  <2>4. /\ inform_phl_ready' \in [Station -> BOOLEAN]
        /\ phl_ready' \in [Station -> BOOLEAN]
    BY <2>2, FlagTypes
  <2>5. network_layer_active' \in [Station -> BOOLEAN]
    <3>1. loop_end(s, nbuffered[s] < 1)
      BY <1>5 DEF DataTimeout
    <3>. QED
      BY <2>4, <3>1, LoopEndType
  <2>6. timer' \in [Station -> SUBSET Bit]
    BY <1>5 DEF TypeOK, LinkTypeOK, DataTimeout
  <2>. QED
    BY <1>5, <2>3, <2>4, <2>5, <2>6 DEF TypeOK, LinkTypeOK, DataTimeout, sawVars
<1>6. ASSUME NEW s \in Station, FrameLost(s), UNCHANGED sawVars PROVE TypeOK'
  <2>1. chan' \in [Station -> Seq(Frame)]
    BY <1>6, Received DEF TypeOK, LinkTypeOK, FrameLost, frame_arrived
  <2>. QED
    BY <1>6, <2>1 DEF TypeOK, LinkTypeOK, FrameLost, sawVars
<1>7. CASE UNCHANGED vars
  BY <1>7 DEF TypeOK, LinkTypeOK, vars
<1>. QED
  BY <1>1, <1>2, <1>3, <1>4, <1>5, <1>6, <1>7 DEF Next

\* The variables of both stations keep their types for ever.
THEOREM TypeCorrect == Spec => []TypeOK
<1>. QED
  BY InitTypeOK, NextTypeOK, PTL DEF Spec

(***************************************************************************)
(* What sending, losing and receiving frames does to the frames behind     *)
(* them.                                                                   *)
(***************************************************************************)

\* Parities alternate.
LEMMA Parity == \A n \in Int : n % 2 \in {0, 1} /\ (n + 1) % 2 = 1 - (n % 2)
OBVIOUS

\* The entries of a sequence with one frame added, and without its head.
LEMMA Appended ==
    ASSUME NEW c \in Seq(Frame), NEW f \in Frame
    PROVE  /\ Len(c) \in Nat
           /\ Len(c \o <<f>>) = Len(c) + 1
           /\ \A i \in 1 .. Len(c) : (c \o <<f>>)[i] = c[i]
           /\ (c \o <<f>>)[Len(c) + 1] = f
OBVIOUS

LEMMA Shifted ==
    ASSUME NEW c \in Seq(Frame), c # <<>>
    PROVE  /\ Len(c) \in Nat \ {0}
           /\ Len(Tail(c)) = Len(c) - 1
           /\ \A i \in 1 .. Len(Tail(c)) : Tail(c)[i] = c[i + 1]
           /\ Head(c) = c[1]
           /\ \A i \in 1 .. Len(c) : c[i] \in Frame
OBVIOUS

\* A frame leaves the channel: what is behind it stays as good as it was.
LEMMA DataTail ==
    ASSUME NEW c \in Seq(Frame), NEW r \in Nat, NEW n \in Nat, c # <<>>,
           DataOK(c, r, n)
    PROVE  DataOK(Tail(c), r, n)
BY Shifted DEF DataOK

LEMMA AcksTail ==
    ASSUME NEW c \in Seq(Frame), NEW nr, NEW r, NEW a, c # <<>>,
           AcksOK(c, nr, r, a)
    PROVE  AcksOK(Tail(c), nr, r, a)
BY Shifted DEF AcksOK

\* A data frame with the last packet, or an ACK frame, joins the queue.
LEMMA DataAppend ==
    ASSUME NEW c \in Seq(Frame), NEW f \in Frame,
           NEW r \in Nat, NEW n \in Nat, r <= n, DataOK(c, r, n),
           f.kind = "DATA" => /\ 1 <= n
                              /\ f.pkt = n
                              /\ f.seq = (n - 1) % 2
    PROVE  DataOK(c \o <<f>>, r, n)
BY Appended DEF DataOK

\* One more packet is sent.
LEMMA DataMore ==
    ASSUME NEW c \in Seq(Frame), NEW r \in Nat, NEW n \in Nat,
           DataOK(c, r, n)
    PROVE  DataOK(c, r, n + 1)
<1>1. \A i \in 1 .. Len(c) : c[i] \in Frame
  OBVIOUS
<1>2. \A i \in 1 .. Len(c) : c[i].kind = "DATA" => c[i].pkt \in Nat
  BY <1>1, Frames
<1>. QED
  BY <1>2 DEF DataOK

\* A data frame with the expected parity carries the next packet, and the
\* data frames behind it are not older.
LEMMA DataDelivered ==
    ASSUME NEW c \in Seq(Frame), NEW r \in Nat, NEW n \in Nat, c # <<>>,
           n <= r + 1, DataOK(c, r, n),
           Head(c).kind = "DATA", Head(c).seq = r % 2
    PROVE  Head(c).pkt = r + 1 /\ DataOK(Tail(c), r + 1, n)
<1>1. /\ 1 \in 1 .. Len(c) /\ Head(c) = c[1]
      /\ \A i \in 1 .. Len(c) : c[i] \in Frame
  BY Shifted
<1>2. \A i \in 1 .. Len(c) : c[i].kind = "DATA" => c[i].pkt \in Nat
  BY <1>1, Frames
<1>3. Head(c).pkt \in {r, r + 1} /\ Head(c).seq = (Head(c).pkt - 1) % 2
  BY <1>1, <1>2 DEF DataOK
<1>4. Head(c).pkt = r + 1
  BY <1>3
<1>. QED
  BY <1>1, <1>2, <1>4, Shifted DEF DataOK

\* An acknowledgement that says what the peer has joins the queue.
LEMMA AcksAppend ==
    ASSUME NEW c \in Seq(Frame), NEW f \in Frame,
           NEW a \in Nat, NEW r \in {a, a + 1}, AcksOK(c, a % 2, r, a),
           f.ack = 1 - (r % 2)
    PROVE  AcksOK(c \o <<f>>, a % 2, r, a)
<1>1. a % 2 \in {0, 1} /\ (a + 1) % 2 = 1 - (a % 2)
  BY Parity
<1>2. CASE r = a
  <2>1. r # a + 1 /\ f.ack # a % 2
    BY <1>1, <1>2
  <2>. QED
    BY <2>1, Appended DEF AcksOK
<1>3. CASE r = a + 1
  <2>1. f.ack = a % 2
    BY <1>1, <1>3
  <2>. QED
    BY <1>3, <2>1, Appended DEF AcksOK
<1>. QED
  BY <1>2, <1>3

\* The peer gets the outstanding packet: until then nothing acknowledged it.
LEMMA AcksDelivered ==
    ASSUME NEW c \in Seq(Frame), NEW nr, NEW a \in Nat, AcksOK(c, nr, a, a)
    PROVE  AcksOK(c, nr, a + 1, a)
BY DEF AcksOK

\* The awaited acknowledgement arrives: the peer has the packet, and no
\* frame behind it carries the next number.
LEMMA AcksFlip ==
    ASSUME NEW c \in Seq(Frame), NEW r \in Nat, NEW a \in Nat, c # <<>>,
           AcksOK(c, a % 2, r, a), Head(c).ack = a % 2
    PROVE  r = a + 1 /\ AcksOK(Tail(c), 1 - (a % 2), r, a + 1)
<1>1. 1 \in 1 .. Len(c) /\ Head(c) = c[1]
  BY Shifted
<1>2. r = a + 1 /\ \A j \in 1 .. Len(c) : c[j].ack = a % 2
  BY <1>1 DEF AcksOK
<1>3. a % 2 # 1 - (a % 2)
  BY Parity
<1>. QED
  BY <1>2, <1>3, Shifted DEF AcksOK

(***************************************************************************)
(* The inductive invariant.                                                *)
(***************************************************************************)

\* What the invariant says of the counters of one direction, from s to its
\* peer.
LEMMA Counters ==
    ASSUME IInv, NEW s \in Station
    PROVE  /\ pkt_no[s] \in Nat
           /\ rpackets[Peer(s)] \in Nat
           /\ nbuffered[s] \in {0, 1}
           /\ Acknowledged(s) \in Nat
           /\ Acknowledged(s) = pkt_no[s] - nbuffered[s]
           /\ rpackets[Peer(s)] \in {Acknowledged(s), Acknowledged(s) + 1}
           /\ rpackets[Peer(s)] <= pkt_no[s]
           /\ frame_nr[s] = Acknowledged(s) % 2
           /\ frame_expected[s] = rpackets[s] % 2
<1>1. Peer(s) \in Station
  BY Peers
<1>2. /\ pkt_no[s] \in Nat /\ rpackets[Peer(s)] \in Nat
      /\ nbuffered[s] \in 0 .. 255
  BY <1>1, Types DEF IInv
<1>3. /\ nbuffered[s] <= 1
      /\ 0 <= Acknowledged(s)
      /\ Acknowledged(s) <= rpackets[Peer(s)]
      /\ rpackets[Peer(s)] <= pkt_no[s]
  BY DEF IInv, AckedImpliesDelivered
<1>4. Acknowledged(s) = pkt_no[s] - nbuffered[s]
  BY DEF Acknowledged
<1>5. nbuffered[s] \in {0, 1}
  BY <1>2, <1>3
<1>6. Acknowledged(s) \in Nat
  BY <1>2, <1>3, <1>4, <1>5
<1>7. rpackets[Peer(s)] \in {Acknowledged(s), Acknowledged(s) + 1}
  BY <1>2, <1>3, <1>4, <1>5, <1>6
<1>. QED
  BY <1>2, <1>3, <1>4, <1>5, <1>6, <1>7 DEF IInv, NumbersAreParities

\* What it says of the frames on their way in that direction, and of the
\* acknowledgements on their way back.
LEMMA InFlight ==
    ASSUME IInv, NEW s \in Station
    PROVE  /\ chan[s] \in Seq(Frame)
           /\ DataOK(chan[s], rpackets[Peer(s)], pkt_no[s])
           /\ AcksOK(chan[Peer(s)], frame_nr[s], rpackets[Peer(s)],
                     Acknowledged(s))
BY ChannelType DEF IInv, DataInFlight, AcksInFlight

\* The initial state satisfies the invariant.
LEMMA InitIInv == Init => IInv
<1> SUFFICES ASSUME Init PROVE IInv
  OBVIOUS
<1>1. TypeOK
  BY InitTypeOK
<1>2. \A s \in Station :
         /\ timer[s] = {}
         /\ network_layer_active[s] = FALSE
         /\ pkt_no[s] = 0 /\ rpackets[s] = 0 /\ rpackets[Peer(s)] = 0
         /\ frame_nr[s] = 0 /\ nbuffered[s] = 0 /\ frame_expected[s] = 0
  BY Peers DEF Init, LinkInit
<1>3. \A s \in Station : Acknowledged(s) = 0
  BY <1>2 DEF Acknowledged
<1>4. NeverAborts
  BY DEF Init, LinkInit, NeverAborts
<1>5. AckedImpliesDelivered
  BY <1>2, <1>3 DEF AckedImpliesDelivered
<1>6. TimerIffOutstanding
  BY <1>2 DEF TimerIffOutstanding
<1>7. NetworkLayerHasRoom
  BY <1>2 DEF NetworkLayerHasRoom
<1>8. NumbersAreParities
  BY <1>2, <1>3 DEF NumbersAreParities
<1>9. DataInFlight /\ AcksInFlight
  <2>1. \A s \in Station : chan[s] = <<>> /\ chan[Peer(s)] = <<>>
    BY Peers DEF Init, LinkInit
  <2>. QED
    BY <2>1 DEF DataInFlight, AcksInFlight, DataOK, AcksOK
<1>10. FlowControl
  BY DEF Init, LinkInit, FlowControl
<1>. QED
  BY <1>1, <1>4, <1>5, <1>6, <1>7, <1>8, <1>9, <1>10 DEF IInv

\* The statement at the end of the loop enables the network layer only while
\* the buffer is free.
LEMMA LoopEndHasRoom ==
    ASSUME IInv, TypeOK', NEW s \in Station, loop_end(s, nbuffered'[s] < 1),
           nbuffered'[Peer(s)] = nbuffered[Peer(s)]
    PROVE  NetworkLayerHasRoom'
<1>1. /\ Peer(s) \in Station /\ Peer(s) # s
      /\ \A u \in Station : u = s \/ u = Peer(s)
  BY Peers
<1>2. network_layer_active' =
        [network_layer_active EXCEPT ![s] = nbuffered'[s] < 1 /\ phl_ready'[s]]
  BY DEF loop_end
<1>3. network_layer_active \in [Station -> BOOLEAN]
  BY Types DEF IInv
<1>4. nbuffered'[s] \in 0 .. 255
  BY DEF TypeOK
<1>5. network_layer_active'[s] => nbuffered'[s] = 0
  <2>1. network_layer_active'[s] => nbuffered'[s] < 1
    BY <1>2, <1>3
  <2>. QED
    BY <1>4, <2>1
<1>6. network_layer_active'[Peer(s)] = network_layer_active[Peer(s)]
  BY <1>1, <1>2, <1>3
<1>. QED
  BY <1>1, <1>5, <1>6 DEF IInv, NetworkLayerHasRoom

\* ... and it does enable it then, so that flow control goes on, as long as
\* the handler forgot PHYSICAL_LAYER_READY only with a new one owed.
LEMMA LoopEndFlows ==
    ASSUME IInv, TypeOK', NEW s \in Station, loop_end(s, nbuffered'[s] < 1),
           inform_phl_ready'[s] \/ phl_ready'[s],
           inform_phl_ready'[Peer(s)] = inform_phl_ready[Peer(s)],
           phl_ready'[Peer(s)] = phl_ready[Peer(s)],
           nbuffered'[Peer(s)] = nbuffered[Peer(s)]
    PROVE  FlowControl'
<1>1. /\ Peer(s) \in Station /\ Peer(s) # s
      /\ \A u \in Station : u = s \/ u = Peer(s)
  BY Peers
<1>2. network_layer_active' =
        [network_layer_active EXCEPT ![s] = nbuffered'[s] < 1 /\ phl_ready'[s]]
  BY DEF loop_end
<1>3. network_layer_active \in [Station -> BOOLEAN]
  BY Types DEF IInv
<1>4. nbuffered'[s] = 0 => nbuffered'[s] < 1
  OBVIOUS
<1>5. phl_ready'[s] /\ nbuffered'[s] = 0 => network_layer_active'[s]
  BY <1>2, <1>3, <1>4
<1>6. network_layer_active'[Peer(s)] = network_layer_active[Peer(s)]
  BY <1>1, <1>2, <1>3
<1>. QED
  BY <1>1, <1>5, <1>6 DEF IInv, FlowControl

\* put_frame forgets PHYSICAL_LAYER_READY only when it has the library owe a
\* new one, and leaves the flags of the peer alone.
LEMMA PutFrameFlows ==
    ASSUME IInv, NEW s \in Station, NEW ch, NEW frames,
           put_frame(s, ch, frames)
    PROVE  /\ inform_phl_ready'[s] \/ phl_ready'[s]
           /\ inform_phl_ready'[Peer(s)] = inform_phl_ready[Peer(s)]
           /\ phl_ready'[Peer(s)] = phl_ready[Peer(s)]
<1>1. Peer(s) \in Station /\ Peer(s) # s
  BY Peers
<1>2. /\ inform_phl_ready \in [Station -> BOOLEAN]
      /\ phl_ready \in [Station -> BOOLEAN]
  BY Types DEF IInv
<1>3. /\ inform_phl_ready' = [inform_phl_ready EXCEPT ![s] =
                                 inform_phl_ready[s] \/ frames # <<>>]
      /\ phl_ready' = [phl_ready EXCEPT ![s] =
                          phl_ready[s] /\ frames = <<>>]
  BY DEF put_frame
<1>4. inform_phl_ready[s] \/ phl_ready[s]
  BY DEF IInv, FlowControl
<1>5. /\ inform_phl_ready'[s] = (inform_phl_ready[s] \/ frames # <<>>)
      /\ phl_ready'[s] = (phl_ready[s] /\ frames = <<>>)
  BY <1>2, <1>3
<1>. QED
  BY <1>1, <1>2, <1>3, <1>4, <1>5

\* A step that changes no counter keeps what the invariant says of counters.
LEMMA SameCounters ==
    ASSUME IInv, UNCHANGED <<pkt_no, rpackets, aborted, frame_nr, buffer,
                             nbuffered, frame_expected>>
    PROVE  /\ NeverAborts' /\ AckedImpliesDelivered' /\ NumbersAreParities'
           /\ \A u \in Station : Acknowledged(u)' = Acknowledged(u)
<1>1. \A u \in Station : Acknowledged(u)' = Acknowledged(u)
  BY DEF Acknowledged
<1>2. NeverAborts'
  BY DEF IInv, NeverAborts
<1>3. AckedImpliesDelivered'
  BY <1>1 DEF IInv, AckedImpliesDelivered
<1>4. NumbersAreParities'
  BY <1>1 DEF IInv, NumbersAreParities
<1>. QED
  BY <1>1, <1>2, <1>3, <1>4

\* A frame that s sends now acknowledges what s has had, and may join the
\* acknowledgements on their way to the peer.
LEMMA AnswerAppended ==
    ASSUME IInv, NEW s \in Station, NEW f \in Frame,
           f.ack = 1 - frame_expected[s]
    PROVE  AcksOK(chan[s] \o <<f>>, frame_nr[Peer(s)], rpackets[s],
                  Acknowledged(Peer(s)))
<1>1. Peer(s) \in Station /\ Peer(Peer(s)) = s
  BY Peers
<1>2. f.ack = 1 - (rpackets[s] % 2)
  <2>1. frame_expected[s] = rpackets[s] % 2
    BY Counters
  <2>2. rpackets[s] \in Nat
    BY Types DEF IInv
  <2>. QED
    BY <2>1, <2>2
<1>3. /\ Acknowledged(Peer(s)) \in Nat
      /\ rpackets[s] \in {Acknowledged(Peer(s)), Acknowledged(Peer(s)) + 1}
      /\ frame_nr[Peer(s)] = Acknowledged(Peer(s)) % 2
  BY <1>1, Counters
<1>4. chan[s] \in Seq(Frame)
  BY InFlight
<1>5. AcksOK(chan[s], Acknowledged(Peer(s)) % 2, rpackets[s],
             Acknowledged(Peer(s)))
  BY <1>1, <1>3, InFlight
<1>6. AcksOK(chan[s] \o <<f>>, Acknowledged(Peer(s)) % 2, rpackets[s],
             Acknowledged(Peer(s)))
  BY <1>2, <1>3, <1>4, <1>5, AcksAppend
<1>. QED
  BY <1>3, <1>6

\* A packet is taken only into a free buffer, and its frame joins the queue
\* behind frames with older packets.
LEMMA StepNetworkLayerReady ==
    ASSUME IInv, TypeOK', NEW s \in Station, NetworkLayerReady(s)
    PROVE  IInv'
<1> DEFINE f == data_frame(s, pkt_no[s] + 1)
<1>0. TypeOK
  BY DEF IInv
<1>1. /\ Peer(s) \in Station /\ Peer(s) # s /\ Peer(Peer(s)) = s
      /\ \A u \in Station : u = s \/ u = Peer(s)
  BY Peers
<1>2. nbuffered[s] = 0
  BY DEF IInv, NetworkLayerHasRoom, NetworkLayerReady, network_layer_ready
<1>3. /\ pkt_no' = [pkt_no EXCEPT ![s] = pkt_no[s] + 1]
      /\ buffer' = [buffer EXCEPT ![s] = pkt_no[s] + 1]
      /\ nbuffered' = [nbuffered EXCEPT ![s] = (nbuffered[s] + 1) % 256]
      /\ timer' = [timer EXCEPT ![s] = timer[s] \cup {frame_nr[s]}]
      /\ UNCHANGED <<rpackets, aborted, frame_nr, frame_expected>>
      /\ put_frame(s, chan, <<f>>)
      /\ loop_end(s, nbuffered'[s] < 1)
  BY DEF NetworkLayerReady, get_packet, send_data_frame
<1>4. /\ pkt_no'[s] = pkt_no[s] + 1 /\ pkt_no'[Peer(s)] = pkt_no[Peer(s)]
      /\ nbuffered'[s] = 1 /\ nbuffered'[Peer(s)] = nbuffered[Peer(s)]
      /\ buffer'[s] = pkt_no[s] + 1 /\ buffer'[Peer(s)] = buffer[Peer(s)]
      /\ timer'[s] = timer[s] \cup {frame_nr[s]}
      /\ timer'[Peer(s)] = timer[Peer(s)]
  BY <1>0, <1>1, <1>2, <1>3, Types
<1>5. /\ f \in Frame /\ f.kind = "DATA" /\ f.pkt = pkt_no[s] + 1
      /\ f.seq = frame_nr[s] /\ f.ack = 1 - frame_expected[s]
  <2>1. pkt_no[s] + 1 \in Nat
    BY <1>0, Types
  <2>. QED
    BY <1>0, <2>1, BuiltFrames DEF data_frame
<1> HIDE DEF f
<1>6. chan'[s] = chan[s] \o <<f>> /\ chan'[Peer(s)] = chan[Peer(s)]
  BY <1>0, <1>3, <1>5, PutOne, ChannelType
<1>7. /\ Acknowledged(s)' = Acknowledged(s)
      /\ Acknowledged(Peer(s))' = Acknowledged(Peer(s))
  <2>1. pkt_no[s] + 1 - 1 = pkt_no[s] - 0
    BY <1>0, Types
  <2>2. Acknowledged(s)' = pkt_no'[s] - nbuffered'[s]
    BY DEF Acknowledged
  <2>3. Acknowledged(Peer(s))' = pkt_no'[Peer(s)] - nbuffered'[Peer(s)]
    BY DEF Acknowledged
  <2>4. Acknowledged(s)' = Acknowledged(s)
    <3>1. Acknowledged(s) = pkt_no[s] - 0
      BY <1>2 DEF Acknowledged
    <3>2. pkt_no'[s] = pkt_no[s] + 1 /\ nbuffered'[s] = 1
      BY <1>4
    <3>3. pkt_no[s] \in Nat
      BY <1>0, Types
    <3>. QED
      BY <2>2, <3>1, <3>2, <3>3
  <2>5. Acknowledged(Peer(s))' = Acknowledged(Peer(s))
    BY <1>4, <2>3 DEF Acknowledged
  <2>. QED
    BY <2>4, <2>5
<1>8. NeverAborts'
  BY <1>3 DEF IInv, NeverAborts
<1>9. AckedImpliesDelivered'
  <2>1. /\ nbuffered'[s] <= 1 /\ 0 <= Acknowledged(s)'
        /\ Acknowledged(s)' <= rpackets'[Peer(s)]
        /\ rpackets'[Peer(s)] <= pkt_no'[s]
    BY <1>3, <1>4, <1>7, Counters
  <2>2. /\ nbuffered'[Peer(s)] <= 1 /\ 0 <= Acknowledged(Peer(s))'
        /\ Acknowledged(Peer(s))' <= rpackets'[s]
        /\ rpackets'[s] <= pkt_no'[Peer(s)]
    BY <1>1, <1>3, <1>4, <1>7, Counters
  <2>3. \A u \in Station :
           /\ nbuffered'[u] <= 1 /\ 0 <= Acknowledged(u)'
           /\ Acknowledged(u)' <= rpackets'[Peer(u)]
           /\ rpackets'[Peer(u)] <= pkt_no'[u]
    BY <1>1, <2>1, <2>2
  <2>. QED
    BY <2>3 DEF AckedImpliesDelivered
<1>10. TimerIffOutstanding'
  BY <1>1, <1>2, <1>3, <1>4 DEF IInv, TimerIffOutstanding
<1>11. NetworkLayerHasRoom'
  BY <1>3, <1>4, LoopEndHasRoom
<1>12. NumbersAreParities'
  BY <1>1, <1>3, <1>4, <1>7 DEF IInv, NumbersAreParities
<1>13. DataInFlight'
  <2>1. DataOK(chan'[s], rpackets'[Peer(s)], pkt_no'[s])
    <3>1. DataOK(chan[s], rpackets[Peer(s)], pkt_no[s] + 1)
      BY Counters, InFlight, DataMore
    <3>2. /\ rpackets[Peer(s)] \in Nat /\ pkt_no[s] \in Nat
          /\ pkt_no[s] + 1 \in Nat /\ 1 <= pkt_no[s] + 1
          /\ rpackets[Peer(s)] <= pkt_no[s] + 1
      BY Counters
    <3>3. f.seq = (pkt_no[s] + 1 - 1) % 2
      <4>1. /\ frame_nr[s] = Acknowledged(s) % 2
            /\ Acknowledged(s) = pkt_no[s] - nbuffered[s]
            /\ pkt_no[s] \in Nat
        BY Counters
      <4>. QED
        BY <1>2, <1>5, <4>1
    <3>4. DataOK(chan[s] \o <<f>>, rpackets[Peer(s)], pkt_no[s] + 1)
      <4> DEFINE n == pkt_no[s] + 1
      <4>1. /\ n \in Nat /\ 1 <= n /\ rpackets[Peer(s)] <= n
            /\ rpackets[Peer(s)] \in Nat
        BY <3>2
      <4>2. f \in Frame /\ f.pkt = n /\ f.seq = (n - 1) % 2
        BY <1>5, <3>2, <3>3
      <4>3. DataOK(chan[s], rpackets[Peer(s)], n) /\ chan[s] \in Seq(Frame)
        BY <3>1, InFlight
      <4> HIDE DEF n
      <4>4. DataOK(chan[s] \o <<f>>, rpackets[Peer(s)], n)
        BY <4>1, <4>2, <4>3, DataAppend
      <4>. QED
        BY <4>4 DEF n
    <3>. QED
      BY <1>3, <1>4, <1>6, <3>4
  <2>2. DataOK(chan'[Peer(s)], rpackets'[s], pkt_no'[Peer(s)])
    BY <1>1, <1>3, <1>4, <1>6, InFlight
  <2>. QED
    BY <1>1, <2>1, <2>2 DEF DataInFlight
<1>14. AcksInFlight'
  <2>1. AcksOK(chan'[Peer(s)], frame_nr'[s], rpackets'[Peer(s)],
               Acknowledged(s)')
    BY <1>3, <1>6, <1>7, InFlight
  <2>2. AcksOK(chan'[s], frame_nr'[Peer(s)], rpackets'[s],
               Acknowledged(Peer(s))')
    <3>1. AcksOK(chan[s] \o <<f>>, frame_nr[Peer(s)], rpackets[s],
                 Acknowledged(Peer(s)))
      BY <1>5, AnswerAppended
    <3>. QED
      BY <1>1, <1>3, <1>6, <1>7, <3>1
  <2>. QED
    BY <1>1, <2>1, <2>2 DEF AcksInFlight
<1>15. FlowControl'
  BY <1>3, <1>4, PutFrameFlows, LoopEndFlows
<1>. QED
  BY <1>8, <1>9, <1>10, <1>11, <1>12, <1>13, <1>14, <1>15 DEF IInv

\* PHYSICAL_LAYER_READY touches flags only.
LEMMA StepPhysicalLayerReady ==
    ASSUME IInv, TypeOK', NEW s \in Station, PhysicalLayerReady(s)
    PROVE  IInv'
<1>1. /\ UNCHANGED <<chan, timer, pkt_no, rpackets, aborted, frame_nr, buffer,
                     nbuffered, frame_expected>>
      /\ loop_end(s, nbuffered'[s] < 1)
  BY DEF PhysicalLayerReady, sawVars
<1>2. /\ NeverAborts' /\ AckedImpliesDelivered' /\ NumbersAreParities'
      /\ \A u \in Station : Acknowledged(u)' = Acknowledged(u)
  BY <1>1, SameCounters
<1>3. NetworkLayerHasRoom'
  BY <1>1, LoopEndHasRoom
<1>4. TimerIffOutstanding'
  BY <1>1 DEF IInv, TimerIffOutstanding
<1>5. DataInFlight'
  BY <1>1 DEF IInv, DataInFlight
<1>6. AcksInFlight'
  BY <1>1, <1>2 DEF IInv, AcksInFlight
<1>7. FlowControl'
  <2>1. Peer(s) \in Station /\ Peer(s) # s
    BY Peers
  <2>2. /\ phl_ready'[s]
        /\ phl_ready'[Peer(s)] = phl_ready[Peer(s)]
        /\ inform_phl_ready'[Peer(s)] = inform_phl_ready[Peer(s)]
    BY <2>1, Types DEF IInv, PhysicalLayerReady
  <2>. QED
    BY <1>1, <2>2, LoopEndFlows
<1>. QED
  BY <1>2, <1>3, <1>4, <1>5, <1>6, <1>7 DEF IInv

\* A frame that is lost or damaged leaves the channel with the rest as it was.
LEMMA StepFrameGone ==
    ASSUME IInv, TypeOK', NEW s \in Station, frame_arrived(s),
           chan' = recv_frame(s),
           UNCHANGED <<timer, pkt_no, rpackets, aborted, frame_nr, buffer,
                       nbuffered, frame_expected>>,
           NetworkLayerHasRoom', FlowControl'
    PROVE  IInv'
<1>1. /\ Peer(s) \in Station /\ Peer(s) # s /\ Peer(Peer(s)) = s
      /\ \A u \in Station : u = s \/ u = Peer(s)
  BY Peers
<1>2. /\ chan'[s] = chan[s]
      /\ chan'[Peer(s)] = Tail(chan[Peer(s)])
      /\ chan[Peer(s)] # <<>>
  BY Received, ChannelType DEF IInv, frame_arrived
<1>3. /\ NeverAborts' /\ AckedImpliesDelivered' /\ NumbersAreParities'
      /\ \A u \in Station : Acknowledged(u)' = Acknowledged(u)
  BY SameCounters
<1>4. TimerIffOutstanding'
  BY DEF IInv, TimerIffOutstanding
<1>5. DataInFlight'
  <2>1. DataOK(chan'[s], rpackets'[Peer(s)], pkt_no'[s])
    BY <1>2, InFlight
  <2>2. DataOK(chan'[Peer(s)], rpackets'[s], pkt_no'[Peer(s)])
    <3>1. pkt_no[Peer(s)] \in Nat /\ rpackets[s] \in Nat
      BY <1>1, Types DEF IInv
    <3>2. /\ chan[Peer(s)] \in Seq(Frame)
          /\ DataOK(chan[Peer(s)], rpackets[s], pkt_no[Peer(s)])
      BY <1>1, InFlight
    <3>3. DataOK(Tail(chan[Peer(s)]), rpackets[s], pkt_no[Peer(s)])
      BY <1>2, <3>1, <3>2, DataTail
    <3>. QED
      BY <1>2, <3>3
  <2>. QED
    BY <1>1, <2>1, <2>2 DEF DataInFlight
<1>6. AcksInFlight'
  <2>1. AcksOK(chan'[Peer(s)], frame_nr'[s], rpackets'[Peer(s)],
               Acknowledged(s)')
    <3>1. /\ chan[Peer(s)] \in Seq(Frame)
          /\ AcksOK(chan[Peer(s)], frame_nr[s], rpackets[Peer(s)],
                    Acknowledged(s))
      BY <1>1, InFlight
    <3>2. AcksOK(Tail(chan[Peer(s)]), frame_nr[s], rpackets[Peer(s)],
                 Acknowledged(s))
      BY <1>2, <3>1, AcksTail
    <3>. QED
      BY <1>2, <1>3, <3>2
  <2>2. AcksOK(chan'[s], frame_nr'[Peer(s)], rpackets'[s],
               Acknowledged(Peer(s))')
    BY <1>1, <1>2, <1>3, InFlight
  <2>. QED
    BY <1>1, <2>1, <2>2 DEF AcksInFlight
<1>. QED
  BY <1>3, <1>4, <1>5, <1>6 DEF IInv

\* A timeout sends the outstanding packet once more, with the
\* acknowledgement as it is now.
LEMMA StepDataTimeout ==
    ASSUME IInv, TypeOK', NEW s \in Station, DataTimeout(s)
    PROVE  IInv'
<1> DEFINE f == data_frame(s, buffer[s])
<1>0. TypeOK
  BY DEF IInv
<1>1. /\ Peer(s) \in Station /\ Peer(s) # s /\ Peer(Peer(s)) = s
      /\ \A u \in Station : u = s \/ u = Peer(s)
  BY Peers
<1>2. /\ put_frame(s, chan, <<f>>)
      /\ loop_end(s, nbuffered'[s] < 1)
      /\ UNCHANGED <<pkt_no, rpackets, aborted, frame_nr, buffer, nbuffered,
                     frame_expected>>
  BY DEF DataTimeout, sawVars
<1>3. PICK nr \in Bit :
        /\ nr \in timer[s]
        /\ timer' = [timer EXCEPT ![s] = (timer[s] \ {nr}) \cup {frame_nr[s]}]
  BY DEF DataTimeout, timer_expired
<1>4. nbuffered[s] = 1 /\ timer[s] = {frame_nr[s]} /\ nr = frame_nr[s]
  BY <1>3 DEF IInv, TimerIffOutstanding
<1>5. timer' = timer
  <2>1. timer \in [Station -> SUBSET Bit]
    BY <1>0, Types
  <2>2. (timer[s] \ {nr}) \cup {frame_nr[s]} = timer[s]
    BY <1>4
  <2>. QED
    BY <1>3, <2>1, <2>2
<1>6. /\ f \in Frame /\ f.kind = "DATA" /\ f.pkt = pkt_no[s]
      /\ f.seq = frame_nr[s] /\ f.ack = 1 - frame_expected[s]
  <2>1. buffer[s] \in Nat /\ buffer[s] = pkt_no[s]
    BY <1>0, <1>4, Types DEF IInv, NumbersAreParities
  <2>. QED
    BY <1>0, <2>1, BuiltFrames DEF data_frame
<1> HIDE DEF f
<1>7. chan'[s] = chan[s] \o <<f>> /\ chan'[Peer(s)] = chan[Peer(s)]
  BY <1>0, <1>2, <1>6, PutOne, ChannelType
<1>8. /\ NeverAborts' /\ AckedImpliesDelivered' /\ NumbersAreParities'
      /\ \A u \in Station : Acknowledged(u)' = Acknowledged(u)
  BY <1>2, SameCounters
<1>9. NetworkLayerHasRoom'
  BY <1>2, LoopEndHasRoom
<1>10. TimerIffOutstanding'
  BY <1>2, <1>5 DEF IInv, TimerIffOutstanding
<1>11. DataInFlight'
  <2>1. DataOK(chan'[s], rpackets'[Peer(s)], pkt_no'[s])
    <3>1. /\ pkt_no[s] \in Nat /\ rpackets[Peer(s)] \in Nat
          /\ rpackets[Peer(s)] <= pkt_no[s]
          /\ Acknowledged(s) \in Nat
          /\ Acknowledged(s) = pkt_no[s] - 1
          /\ frame_nr[s] = Acknowledged(s) % 2
      BY <1>4, Counters
    <3>2. 1 <= pkt_no[s] /\ f.seq = (pkt_no[s] - 1) % 2
      BY <1>6, <3>1
    <3>3. chan[s] \in Seq(Frame) /\ DataOK(chan[s], rpackets[Peer(s)], pkt_no[s])
      BY InFlight
    <3>4. DataOK(chan[s] \o <<f>>, rpackets[Peer(s)], pkt_no[s])
      BY <1>6, <3>1, <3>2, <3>3, DataAppend
    <3>. QED
      BY <1>2, <1>7, <3>4
  <2>2. DataOK(chan'[Peer(s)], rpackets'[s], pkt_no'[Peer(s)])
    BY <1>1, <1>2, <1>7, InFlight
  <2>. QED
    BY <1>1, <2>1, <2>2 DEF DataInFlight
<1>12. AcksInFlight'
  <2>1. AcksOK(chan'[Peer(s)], frame_nr'[s], rpackets'[Peer(s)],
               Acknowledged(s)')
    BY <1>2, <1>7, <1>8, InFlight
  <2>2. AcksOK(chan'[s], frame_nr'[Peer(s)], rpackets'[s],
               Acknowledged(Peer(s))')
    <3>1. AcksOK(chan[s] \o <<f>>, frame_nr[Peer(s)], rpackets[s],
                 Acknowledged(Peer(s)))
      BY <1>6, AnswerAppended
    <3>. QED
      BY <1>1, <1>2, <1>7, <1>8, <3>1
  <2>. QED
    BY <1>1, <2>1, <2>2 DEF AcksInFlight
<1>13. FlowControl'
  BY <1>2, PutFrameFlows, LoopEndFlows
<1>. QED
  BY <1>8, <1>9, <1>10, <1>11, <1>12, <1>13 DEF IInv
\* A data frame goes up only if it carries the next packet: put_packet never
\* ends the process, and what is behind the frame is not older than it.
LEMMA DataAccepted ==
    ASSUME IInv, NEW s \in Station, frame_arrived(s),
           accept_data(s, Arriving(s))
    PROVE  /\ UNCHANGED aborted
           /\ rpackets'[Peer(s)] = rpackets[Peer(s)]
           /\ frame_expected'[Peer(s)] = frame_expected[Peer(s)]
           /\ rpackets'[s] \in Nat
           /\ rpackets[s] <= rpackets'[s]
           /\ rpackets'[s] <= pkt_no[Peer(s)]
           /\ frame_expected'[s] = rpackets'[s] % 2
           /\ DataOK(Tail(chan[Peer(s)]), rpackets'[s], pkt_no[Peer(s)])
           /\ rpackets'[s] \in {Acknowledged(Peer(s)), Acknowledged(Peer(s)) + 1}
           /\ AcksOK(chan[s], frame_nr[Peer(s)], rpackets'[s],
                     Acknowledged(Peer(s)))
<1> DEFINE p == Peer(s)
           c == chan[Peer(s)]
           f == Arriving(s)
           a == Acknowledged(Peer(s))
<1>1. p \in Station /\ p # s /\ Peer(p) = s
  BY Peers
<1>2. /\ pkt_no[p] \in Nat /\ rpackets[s] \in Nat
      /\ a \in Nat /\ rpackets[s] \in {a, a + 1}
      /\ rpackets[s] <= pkt_no[p] /\ pkt_no[p] <= a + 1
  <2>1. /\ pkt_no[p] \in Nat /\ rpackets[s] \in Nat /\ nbuffered[p] \in {0, 1}
        /\ a \in Nat /\ a = pkt_no[p] - nbuffered[p]
        /\ rpackets[s] \in {a, a + 1} /\ rpackets[s] <= pkt_no[p]
    BY <1>1, Counters
  <2>. HIDE DEF p, a
  <2>2. pkt_no[p] <= a + 1
    BY <2>1
  <2>. QED
    BY <2>1, <2>2
<1>3. frame_expected[s] = rpackets[s] % 2
  BY Counters
<1>4. /\ c \in Seq(Frame) /\ c # <<>> /\ f = Head(c)
      /\ DataOK(c, rpackets[s], pkt_no[p])
      /\ AcksOK(chan[s], frame_nr[p], rpackets[s], a)
      /\ chan[s] \in Seq(Frame)
  BY <1>1, InFlight DEF frame_arrived, Arriving
<1>5. /\ rpackets \in [Station -> Nat]
      /\ frame_expected \in [Station -> Bit]
  BY Types DEF IInv
<1>6. CASE f.kind = "DATA" /\ f.seq = frame_expected[s]
  <2>1. put_packet(s, f.pkt)
    BY <1>6 DEF accept_data
  <2>2. frame_expected' = [frame_expected EXCEPT ![s] = 1 - frame_expected[s]]
    BY <1>6 DEF accept_data
  <2>3. f.pkt = rpackets[s] + 1 /\ DataOK(Tail(c), rpackets[s] + 1, pkt_no[p])
    <3>1. Head(c).kind = "DATA" /\ Head(c).seq = rpackets[s] % 2
      BY <1>3, <1>4, <1>6
    <3>2. pkt_no[p] <= rpackets[s] + 1
      <4>. HIDE DEF p, a
      <4>. QED
        BY <1>2
    <3>. HIDE DEF p, c, f, a
    <3>. QED
      BY <1>2, <1>4, <3>1, <3>2, DataDelivered
  <2>4. /\ rpackets' = [rpackets EXCEPT ![s] = rpackets[s] + 1]
        /\ UNCHANGED aborted
    BY <2>1, <2>3 DEF put_packet
  <2>5. rpackets'[s] = rpackets[s] + 1 /\ rpackets'[p] = rpackets[p]
    BY <1>1, <1>5, <2>4
  <2>6. /\ frame_expected'[s] = 1 - frame_expected[s]
        /\ frame_expected'[p] = frame_expected[p]
    BY <1>1, <1>5, <2>2
  <2>7. rpackets[s] + 1 <= pkt_no[p] /\ rpackets[s] = a
    <3>1. \E i \in 1 .. Len(c) : c[i].kind = "DATA" /\ c[i].pkt = rpackets[s] + 1
      BY <1>4, <1>6, <2>3, Shifted
    <3>2. rpackets[s] + 1 <= pkt_no[p]
      BY <1>4, <3>1 DEF DataOK
    <3>. HIDE DEF p, c, f, a
    <3>. QED
      BY <1>2, <3>2
  <2>8. frame_expected'[s] = rpackets'[s] % 2
    BY <1>2, <1>3, <2>5, <2>6, Parity
  <2>9. AcksOK(chan[s], frame_nr[p], rpackets[s] + 1, a)
    <3>1. AcksOK(chan[s], frame_nr[p], a, a)
      BY <1>4, <2>7
    <3>2. AcksOK(chan[s], frame_nr[p], a + 1, a)
      BY <1>2, <1>4, <3>1, AcksDelivered
    <3>. QED
      BY <2>7, <3>2
  <2>10. /\ rpackets'[s] \in Nat /\ rpackets[s] <= rpackets'[s]
         /\ rpackets'[s] <= pkt_no[p] /\ rpackets'[s] \in {a, a + 1}
    <3>. HIDE DEF p, a
    <3>. QED
      BY <1>2, <2>5, <2>7
  <2>. QED
    BY <2>3, <2>4, <2>5, <2>6, <2>8, <2>9, <2>10
<1>7. CASE ~(f.kind = "DATA" /\ f.seq = frame_expected[s])
  <2>1. UNCHANGED <<rpackets, aborted, frame_expected>>
    BY <1>7 DEF accept_data
  <2>2. DataOK(Tail(c), rpackets[s], pkt_no[p])
    BY <1>2, <1>4, DataTail
  <2>3. rpackets[s] <= rpackets[s]
    BY <1>2
  <2>. QED
    BY <1>2, <1>3, <1>4, <2>1, <2>2, <2>3
<1>. QED
  BY <1>6, <1>7

\* An acknowledgement frees the buffer only if a packet is outstanding and
\* the peer has it, and none of those behind it can free the next one.
LEMMA AckAccepted ==
    ASSUME IInv, NEW s \in Station, frame_arrived(s),
           accept_ack(s, Arriving(s))
    PROVE  /\ nbuffered'[Peer(s)] = nbuffered[Peer(s)]
           /\ frame_nr'[Peer(s)] = frame_nr[Peer(s)]
           /\ timer'[Peer(s)] = timer[Peer(s)]
           /\ nbuffered'[s] \in {0, 1}
           /\ nbuffered'[s] = 1 => nbuffered[s] = 1
           /\ timer'[s] = IF nbuffered'[s] = 1 THEN {frame_nr'[s]} ELSE {}
           /\ 0 <= pkt_no[s] - nbuffered'[s]
           /\ pkt_no[s] - nbuffered'[s] <= rpackets[Peer(s)]
           /\ frame_nr'[s] = (pkt_no[s] - nbuffered'[s]) % 2
           /\ AcksOK(Tail(chan[Peer(s)]), frame_nr'[s], rpackets[Peer(s)],
                     pkt_no[s] - nbuffered'[s])
<1> DEFINE p == Peer(s)
           c == chan[Peer(s)]
           f == Arriving(s)
           a == Acknowledged(s)
<1>1. p \in Station /\ p # s
  BY Peers
<1>2. /\ pkt_no[s] \in Nat /\ rpackets[p] \in Nat /\ nbuffered[s] \in {0, 1}
      /\ a \in Nat /\ a = pkt_no[s] - nbuffered[s]
      /\ rpackets[p] \in {a, a + 1} /\ rpackets[p] <= pkt_no[s]
      /\ frame_nr[s] = a % 2
  BY Counters
<1>3. /\ c \in Seq(Frame) /\ c # <<>> /\ f = Head(c)
      /\ AcksOK(c, frame_nr[s], rpackets[p], a)
  BY <1>1, InFlight DEF frame_arrived, Arriving
<1>4. /\ timer \in [Station -> SUBSET Bit]
      /\ nbuffered \in [Station -> 0 .. 255]
      /\ frame_nr \in [Station -> Bit]
  BY Types DEF IInv
<1>5. timer[s] = IF nbuffered[s] = 1 THEN {frame_nr[s]} ELSE {}
  BY DEF IInv, TimerIffOutstanding
<1>6. CASE f.ack = frame_nr[s]
  <2>1. /\ timer' = [timer EXCEPT ![s] = timer[s] \ {frame_nr[s]}]
        /\ nbuffered' = [nbuffered EXCEPT ![s] = (nbuffered[s] + 255) % 256]
        /\ frame_nr' = [frame_nr EXCEPT ![s] = 1 - frame_nr[s]]
    BY <1>6 DEF accept_ack
  <2>2. rpackets[p] = a + 1 /\ AcksOK(Tail(c), 1 - (a % 2), rpackets[p], a + 1)
    <3>1. AcksOK(c, a % 2, rpackets[p], a) /\ Head(c).ack = a % 2
      BY <1>2, <1>3, <1>6
    <3>. HIDE DEF p, c, f, a
    <3>. QED
      BY <1>2, <1>3, <3>1, AcksFlip
  <2>3. nbuffered[s] = 1
    <3>. HIDE DEF p, a
    <3>. QED
      BY <1>2, <2>2
  <2>4. nbuffered'[s] = 0 /\ nbuffered'[p] = nbuffered[p]
    BY <1>1, <1>4, <2>1, <2>3
  <2>5. timer'[s] = {} /\ timer'[p] = timer[p]
    BY <1>1, <1>4, <1>5, <2>1
  <2>6. frame_nr'[s] = 1 - (a % 2) /\ frame_nr'[p] = frame_nr[p]
    BY <1>1, <1>2, <1>4, <2>1
  <2>7. pkt_no[s] - nbuffered'[s] = a + 1
    <3>. HIDE DEF p, a
    <3>. QED
      BY <1>2, <2>3, <2>4
  <2>8. 1 - (a % 2) = (a + 1) % 2 /\ 0 <= a + 1
    BY <1>2, Parity
  <2>9. a + 1 <= rpackets[p]
    <3>. HIDE DEF p, a
    <3>. QED
      BY <1>2, <2>2
  <2>. QED
    BY <2>2, <2>4, <2>5, <2>6, <2>7, <2>8, <2>9
<1>7. CASE f.ack # frame_nr[s]
  <2>1. UNCHANGED <<timer, nbuffered, frame_nr>>
    BY <1>7 DEF accept_ack
  <2>2. AcksOK(Tail(c), frame_nr[s], rpackets[p], a)
    BY <1>3, AcksTail
  <2>3. 0 <= a /\ a <= rpackets[p]
    <3>. HIDE DEF p, a
    <3>. QED
      BY <1>2
  <2>. QED
    BY <1>2, <1>5, <2>1, <2>2, <2>3
<1>. QED
  BY <1>6, <1>7

\* A frame received is judged twice, as data and as an acknowledgement, and a
\* data frame is answered with what the station has had by then.
LEMMA StepFrameReceived ==
    ASSUME IInv, TypeOK', NEW s \in Station, FrameReceived(s)
    PROVE  IInv'
<1> DEFINE p == Peer(s)
           c == chan[Peer(s)]
           reply == ack_frame(frame_expected'[s])
<1>0. TypeOK
  BY DEF IInv
<1>1. /\ p \in Station /\ p # s /\ Peer(p) = s
      /\ \A u \in Station : u = s \/ u = p
  BY Peers
<1>2. /\ frame_arrived(s)
      /\ accept_data(s, Arriving(s))
      /\ accept_ack(s, Arriving(s))
      /\ UNCHANGED <<pkt_no, buffer>>
      /\ loop_end(s, nbuffered'[s] < 1)
  BY DEF FrameReceived
<1>3. /\ UNCHANGED aborted
      /\ rpackets'[p] = rpackets[p]
      /\ frame_expected'[p] = frame_expected[p]
      /\ rpackets'[s] \in Nat
      /\ rpackets[s] <= rpackets'[s]
      /\ rpackets'[s] <= pkt_no[p]
      /\ frame_expected'[s] = rpackets'[s] % 2
      /\ DataOK(Tail(c), rpackets'[s], pkt_no[p])
      /\ rpackets'[s] \in {Acknowledged(p), Acknowledged(p) + 1}
      /\ AcksOK(chan[s], frame_nr[p], rpackets'[s], Acknowledged(p))
  BY <1>2, DataAccepted
<1>4. /\ nbuffered'[p] = nbuffered[p]
      /\ frame_nr'[p] = frame_nr[p]
      /\ timer'[p] = timer[p]
      /\ nbuffered'[s] \in {0, 1}
      /\ nbuffered'[s] = 1 => nbuffered[s] = 1
      /\ timer'[s] = IF nbuffered'[s] = 1 THEN {frame_nr'[s]} ELSE {}
      /\ 0 <= pkt_no[s] - nbuffered'[s]
      /\ pkt_no[s] - nbuffered'[s] <= rpackets[p]
      /\ frame_nr'[s] = (pkt_no[s] - nbuffered'[s]) % 2
      /\ AcksOK(Tail(c), frame_nr'[s], rpackets[p], pkt_no[s] - nbuffered'[s])
  BY <1>2, AckAccepted
<1>5. /\ Acknowledged(s)' = pkt_no[s] - nbuffered'[s]
      /\ Acknowledged(p)' = Acknowledged(p)
  <2>1. Acknowledged(s)' = pkt_no'[s] - nbuffered'[s]
    BY DEF Acknowledged
  <2>2. Acknowledged(p)' = pkt_no'[p] - nbuffered'[p]
    BY DEF Acknowledged
  <2>. QED
    BY <1>2, <1>4, <2>1, <2>2 DEF Acknowledged
<1>6. NeverAborts'
  BY <1>3 DEF IInv, NeverAborts
<1>7. AckedImpliesDelivered'
  <2>1. /\ nbuffered'[s] <= 1 /\ 0 <= Acknowledged(s)'
        /\ Acknowledged(s)' <= rpackets'[p]
        /\ rpackets'[p] <= pkt_no'[s]
    BY <1>2, <1>3, <1>4, <1>5, Counters
  <2>2. /\ nbuffered'[p] <= 1 /\ 0 <= Acknowledged(p)'
        /\ Acknowledged(p)' <= rpackets'[s]
        /\ rpackets'[s] <= pkt_no'[p]
    <3>1. /\ nbuffered[p] \in {0, 1} /\ Acknowledged(p) \in Nat
          /\ rpackets[s] \in {Acknowledged(p), Acknowledged(p) + 1}
      BY <1>1, Counters
    <3>2. Acknowledged(p) <= rpackets'[s]
      <4>. HIDE DEF p
      <4>. QED
        BY <1>3, <3>1
    <3>. QED
      BY <1>2, <1>3, <1>4, <1>5, <3>1, <3>2
  <2>. QED
    BY <1>1, <2>1, <2>2 DEF AckedImpliesDelivered
<1>8. TimerIffOutstanding'
  <2>1. timer'[s] = IF nbuffered'[s] = 1 THEN {frame_nr'[s]} ELSE {}
    BY <1>4
  <2>2. timer'[p] = IF nbuffered'[p] = 1 THEN {frame_nr'[p]} ELSE {}
    BY <1>1, <1>4 DEF IInv, TimerIffOutstanding
  <2>. QED
    BY <1>1, <2>1, <2>2 DEF TimerIffOutstanding
<1>9. NetworkLayerHasRoom'
  BY <1>2, <1>4, LoopEndHasRoom
<1>10. NumbersAreParities'
  <2>1. /\ frame_nr'[s] = Acknowledged(s)' % 2
        /\ frame_expected'[s] = rpackets'[s] % 2
        /\ nbuffered'[s] = 1 => buffer'[s] = pkt_no'[s]
    BY <1>2, <1>3, <1>4, <1>5 DEF IInv, NumbersAreParities
  <2>2. /\ frame_nr'[p] = Acknowledged(p)' % 2
        /\ frame_expected'[p] = rpackets'[p] % 2
        /\ nbuffered'[p] = 1 => buffer'[p] = pkt_no'[p]
    BY <1>1, <1>2, <1>3, <1>4, <1>5 DEF IInv, NumbersAreParities
  <2>. QED
    BY <1>1, <2>1, <2>2 DEF NumbersAreParities
<1>11. /\ chan'[p] = Tail(c)
       /\ \/ chan'[s] = chan[s]
          \/ chan'[s] = chan[s] \o <<reply>>
  <2>1. /\ recv_frame(s) \in [Station -> Seq(Frame)]
        /\ recv_frame(s)[s] = chan[s]
        /\ recv_frame(s)[p] = Tail(c)
    BY <1>0, <1>2, Received, ChannelType DEF frame_arrived
  <2>2. reply \in Frame
    <3>1. frame_expected'[s] \in Bit
      BY DEF TypeOK
    <3>. QED
      BY <1>0, <3>1, BuiltFrames
  <2>3. CASE Arriving(s).kind = "DATA"
    <3>1. put_frame(s, recv_frame(s), <<reply>>)
      BY <2>3 DEF FrameReceived
    <3>. QED
      BY <2>1, <2>2, <3>1, PutOne
  <2>4. CASE Arriving(s).kind # "DATA"
    <3>1. put_frame(s, recv_frame(s), <<>>)
      BY <2>4 DEF FrameReceived
    <3>. QED
      BY <2>1, <3>1, PutNone
  <2>. QED
    BY <2>3, <2>4
<1>12. /\ reply \in Frame /\ reply.kind = "ACK"
       /\ reply.ack = 1 - (rpackets'[s] % 2)
  <2>1. frame_expected'[s] \in Bit
    BY DEF TypeOK
  <2>2. reply \in Frame
    BY <1>0, <2>1, BuiltFrames
  <2>. QED
    BY <1>3, <2>2 DEF ack_frame
<1>. HIDE DEF reply
<1>13. DataInFlight'
  <2>1. DataOK(chan'[s], rpackets'[p], pkt_no'[s])
    <3>1. /\ chan[s] \in Seq(Frame) /\ rpackets[p] \in Nat /\ pkt_no[s] \in Nat
          /\ rpackets[p] <= pkt_no[s]
          /\ DataOK(chan[s], rpackets[p], pkt_no[s])
      BY Counters, InFlight
    <3>2. DataOK(chan[s] \o <<reply>>, rpackets[p], pkt_no[s])
      BY <1>12, <3>1, DataAppend
    <3>. QED
      BY <1>2, <1>3, <1>11, <3>1, <3>2
  <2>2. DataOK(chan'[p], rpackets'[s], pkt_no'[p])
    BY <1>2, <1>3, <1>11
  <2>. QED
    BY <1>1, <2>1, <2>2 DEF DataInFlight
<1>14. AcksInFlight'
  <2>1. AcksOK(chan'[p], frame_nr'[s], rpackets'[p], Acknowledged(s)')
    BY <1>3, <1>4, <1>5, <1>11
  <2>2. AcksOK(chan'[s], frame_nr'[p], rpackets'[s], Acknowledged(p)')
    <3>1. /\ Acknowledged(p) \in Nat /\ frame_nr[p] = Acknowledged(p) % 2
          /\ chan[s] \in Seq(Frame)
      BY <1>1, Counters, InFlight
    <3>2. AcksOK(chan[s], Acknowledged(p) % 2, rpackets'[s], Acknowledged(p))
      BY <1>3, <3>1
    <3>3. AcksOK(chan[s] \o <<reply>>, Acknowledged(p) % 2, rpackets'[s],
                 Acknowledged(p))
      BY <1>3, <1>12, <3>1, <3>2, AcksAppend
    <3>. QED
      BY <1>4, <1>5, <1>11, <3>1, <3>2, <3>3
  <2>. QED
    BY <1>1, <2>1, <2>2 DEF AcksInFlight
<1>15. FlowControl'
  <2>1. PICK frames : put_frame(s, recv_frame(s), frames)
    BY DEF FrameReceived
  <2>. QED
    BY <1>2, <1>4, <2>1, PutFrameFlows, LoopEndFlows
<1>. QED
  BY <1>6, <1>7, <1>8, <1>9, <1>10, <1>13, <1>14, <1>15 DEF IInv

\* Every step of either station, and every loss, keeps the invariant.
LEMMA NextIInv == IInv /\ [Next]_vars => IInv'
<1> SUFFICES ASSUME IInv, [Next]_vars PROVE IInv'
  OBVIOUS
<1>1. TypeOK'
  BY NextTypeOK DEF IInv
<1>2. ASSUME NEW s \in Station, NetworkLayerReady(s) PROVE IInv'
  BY <1>1, <1>2, StepNetworkLayerReady
<1>3. ASSUME NEW s \in Station, PhysicalLayerReady(s) PROVE IInv'
  BY <1>1, <1>3, StepPhysicalLayerReady
<1>4. ASSUME NEW s \in Station, FrameReceived(s) PROVE IInv'
  BY <1>1, <1>4, StepFrameReceived
<1>5. ASSUME NEW s \in Station, BadFrameReceived(s) PROVE IInv'
  <2>1. /\ frame_arrived(s) /\ chan' = recv_frame(s)
        /\ UNCHANGED <<timer, pkt_no, rpackets, aborted, frame_nr, buffer,
                       nbuffered, frame_expected>>
        /\ loop_end(s, nbuffered'[s] < 1)
        /\ UNCHANGED <<inform_phl_ready, phl_ready>>
    BY <1>5 DEF BadFrameReceived, sawVars
  <2>2. NetworkLayerHasRoom'
    BY <1>1, <2>1, LoopEndHasRoom
  <2>3. FlowControl'
    <3>1. inform_phl_ready[s] \/ phl_ready[s]
      BY DEF IInv, FlowControl
    <3>. QED
      BY <1>1, <2>1, <3>1, LoopEndFlows
  <2>. QED
    BY <1>1, <2>1, <2>2, <2>3, StepFrameGone
<1>6. ASSUME NEW s \in Station, FrameLost(s), UNCHANGED sawVars PROVE IInv'
  <2>1. /\ frame_arrived(s) /\ chan' = recv_frame(s)
        /\ UNCHANGED <<timer, pkt_no, rpackets, aborted, frame_nr, buffer,
                       nbuffered, frame_expected>>
        /\ UNCHANGED <<inform_phl_ready, phl_ready, network_layer_active>>
    BY <1>6 DEF FrameLost, sawVars
  <2>2. NetworkLayerHasRoom' /\ FlowControl'
    BY <2>1 DEF IInv, NetworkLayerHasRoom, FlowControl
  <2>. QED
    BY <1>1, <2>1, <2>2, StepFrameGone
<1>7. CASE UNCHANGED vars
  <2>1. UNCHANGED <<chan, inform_phl_ready, phl_ready, timer,
                    network_layer_active, pkt_no, rpackets, aborted, frame_nr,
                    buffer, nbuffered, frame_expected>>
    BY <1>7 DEF vars
  <2>2. /\ NeverAborts' /\ AckedImpliesDelivered' /\ NumbersAreParities'
        /\ \A u \in Station : Acknowledged(u)' = Acknowledged(u)
    BY <2>1, SameCounters
  <2>3. TimerIffOutstanding' /\ NetworkLayerHasRoom'
    BY <2>1 DEF IInv, TimerIffOutstanding, NetworkLayerHasRoom
  <2>4. DataInFlight' /\ AcksInFlight'
    BY <2>1, <2>2 DEF IInv, DataInFlight, AcksInFlight
  <2>5. FlowControl'
    BY <2>1 DEF IInv, FlowControl
  <2>. QED
    BY <1>1, <2>2, <2>3, <2>4, <2>5 DEF IInv
<1>8. ASSUME NEW s \in Station, DataTimeout(s) PROVE IInv'
  BY <1>1, <1>8, StepDataTimeout
<1>. QED
  BY <1>2, <1>3, <1>4, <1>5, <1>6, <1>7, <1>8 DEF Next

(***************************************************************************)
(* What follows for every run.                                             *)
(***************************************************************************)

\* The invariant holds for ever: it is inductive.
THEOREM Invariance == Spec => []IInv
<1>. QED
  BY InitIInv, NextIInv, PTL DEF Spec

\* put_packet never meets a packet other than the next one: neither station
\* ever aborts, whatever is lost, damaged or sent twice.
THEOREM InOrderDelivery == Spec => []NeverAborts
<1>1. IInv => NeverAborts
  BY DEF IInv
<1>. QED
  BY <1>1, Invariance, PTL

\* No packet is forgotten before the peer's network layer has had it.
THEOREM NothingForgotten == Spec => []AckedImpliesDelivered
<1>1. IInv => AckedImpliesDelivered
  BY DEF IInv
<1>. QED
  BY <1>1, Invariance, PTL

\* A timer runs exactly while its frame is outstanding, under the number
\* that frame was sent with.
THEOREM TimersCorrect == Spec => []TimerIffOutstanding
<1>1. IInv => TimerIffOutstanding
  BY DEF IInv
<1>. QED
  BY <1>1, Invariance, PTL

\* A station with packets left always waits for something: the network
\* layer, an owed PHYSICAL_LAYER_READY or a running timer.
THEOREM AlwaysWoken == Spec => []NeverStuck
<1>1. IInv => NeverStuck
  <2>1. SUFFICES ASSUME IInv, NEW s \in Station,
                        ~network_layer_active[s], ~inform_phl_ready[s]
                 PROVE  timer[s] # {}
    BY DEF NeverStuck
  <2>2. nbuffered[s] # 0
    BY <2>1 DEF IInv, FlowControl
  <2>3. nbuffered[s] = 1
    BY <2>1, <2>2, Counters
  <2>. QED
    BY <2>1, <2>3 DEF IInv, TimerIffOutstanding
<1>. QED
  BY <1>1, Invariance, PTL

(***************************************************************************)
(* The protocol implements the reliable link.                              *)
(***************************************************************************)

\* Nothing has been sent, delivered or acknowledged at first.
LEMMA LinkInitially == Init => Link!Init
<1>1. ASSUME Init PROVE \A s \in Station : /\ rpackets[Peer(s)] = 0
                                           /\ Acknowledged(s) = 0
  BY <1>1, Peers DEF Init, LinkInit, Acknowledged
<1>. QED
  BY <1>1 DEF Init, LinkInit, Link!Init

\* Taking a packet is Send, receiving a frame is Receive of the direction
\* that it came from, and all other steps are invisible.
LEMMA LinkStep == IInv /\ IInv' /\ [Next]_vars => [Link!Next]_(Link!vars)
<1> SUFFICES ASSUME IInv, IInv', [Next]_vars PROVE [Link!Next]_(Link!vars)
  OBVIOUS
<1>0. UNCHANGED (aborted # {})
  BY DEF IInv, NeverAborts
<1>1. ASSUME UNCHANGED <<pkt_no, rpackets, nbuffered>>
      PROVE  UNCHANGED Link!vars
  BY <1>0, <1>1 DEF Link!vars, Acknowledged
<1>2. ASSUME NEW s \in Station, NetworkLayerReady(s) PROVE Link!Send(s)
  <2>1. nbuffered[s] = 0
    BY <1>2 DEF IInv, NetworkLayerHasRoom, NetworkLayerReady,
                network_layer_ready
  <2>2. /\ pkt_no' = [pkt_no EXCEPT ![s] = pkt_no[s] + 1]
        /\ nbuffered' = [nbuffered EXCEPT ![s] = (nbuffered[s] + 1) % 256]
        /\ UNCHANGED rpackets
    BY <1>2 DEF NetworkLayerReady, get_packet
  <2>3. pkt_no \in [Station -> Nat] /\ nbuffered \in [Station -> 0 .. 255]
    BY Types DEF IInv
  <2>4. \A u \in Station : Acknowledged(u)' = Acknowledged(u)
    <3>1. TAKE u \in Station
    <3>2. CASE u = s
      <4>1. /\ pkt_no'[s] = pkt_no[s] + 1 /\ nbuffered'[s] = 1
            /\ pkt_no[s] \in Nat
        BY <2>1, <2>2, <2>3
      <4>. QED
        BY <2>1, <3>2, <4>1 DEF Acknowledged
    <3>3. CASE u # s
      BY <2>2, <2>3, <3>3 DEF Acknowledged
    <3>. QED
      BY <3>2, <3>3
  <2>5. pkt_no[s] - Acknowledged(s) < 1
    <3>1. pkt_no[s] \in Nat
      BY <2>3
    <3>. QED
      BY <2>1, <3>1 DEF Acknowledged
  <2>. QED
    BY <1>0, <2>2, <2>4, <2>5 DEF Link!Send
<1>3. ASSUME NEW s \in Station, FrameReceived(s)
      PROVE  Link!Receive(Peer(s), s)
  <2> DEFINE p == Peer(s)
  <2>1. /\ p \in Station /\ p # s /\ Peer(p) = s
        /\ \A u \in Station : u = s \/ u = p
    BY Peers
  <2>2. /\ frame_arrived(s) /\ UNCHANGED pkt_no
        /\ accept_data(s, Arriving(s)) /\ accept_ack(s, Arriving(s))
    BY <1>3 DEF FrameReceived
  <2>3. /\ rpackets'[p] = rpackets[p] /\ rpackets'[s] \in Nat
        /\ rpackets[s] <= rpackets'[s] /\ rpackets'[s] <= pkt_no[p]
    BY <2>2, DataAccepted
  <2>4. /\ nbuffered'[p] = nbuffered[p]
        /\ nbuffered'[s] \in {0, 1}
        /\ nbuffered'[s] = 1 => nbuffered[s] = 1
    BY <2>2, AckAccepted
  <2>5. /\ pkt_no[s] \in Nat /\ rpackets[p] \in Nat /\ nbuffered[s] \in {0, 1}
        /\ Acknowledged(s) \in Nat /\ Acknowledged(s) = pkt_no[s] - nbuffered[s]
        /\ pkt_no[s] - nbuffered'[s] <= rpackets[p]
    BY <2>2, AckAccepted, Counters
  <2>6. rpackets[s] \in Nat /\ pkt_no[p] \in Nat
    BY <2>1, Counters
  <2>7. rpackets'[s] \in rpackets[s] .. pkt_no[p]
    <3>. HIDE DEF p
    <3>. QED
      BY <2>3, <2>6
  <2>8. /\ Acknowledged(s)' = pkt_no[s] - nbuffered'[s]
        /\ Acknowledged(p)' = Acknowledged(p)
    <3>1. Acknowledged(s)' = pkt_no'[s] - nbuffered'[s]
      BY DEF Acknowledged
    <3>2. Acknowledged(p)' = pkt_no'[p] - nbuffered'[p]
      BY DEF Acknowledged
    <3>. QED
      BY <2>2, <2>4, <3>1, <3>2 DEF Acknowledged
  <2>9. Acknowledged(s)' \in Acknowledged(s) .. rpackets[p]
    <3>1. pkt_no[s] - nbuffered'[s] \in pkt_no[s] - nbuffered[s] .. rpackets[p]
      <4>. HIDE DEF p
      <4>. QED
        BY <2>4, <2>5
    <3>. QED
      BY <2>5, <2>8, <3>1
  <2>10. [u \in Station |-> rpackets'[Peer(u)]] =
         [[u \in Station |-> rpackets[Peer(u)]] EXCEPT ![p] = rpackets'[s]]
    BY <2>1, <2>3
  <2>11. [u \in Station |-> Acknowledged(u)'] =
         [[u \in Station |-> Acknowledged(u)] EXCEPT ![s] = Acknowledged(s)']
    BY <2>1, <2>8
  <2>12. /\ rpackets'[s] \in
               [u \in Station |-> rpackets[Peer(u)]][p] .. pkt_no[p]
         /\ Acknowledged(s)' \in
               [u \in Station |-> Acknowledged(u)][s] ..
               [u \in Station |-> rpackets[Peer(u)]][s]
    <3>1. /\ [u \in Station |-> rpackets[Peer(u)]][p] = rpackets[s]
          /\ [u \in Station |-> Acknowledged(u)][s] = Acknowledged(s)
          /\ [u \in Station |-> rpackets[Peer(u)]][s] = rpackets[p]
      BY <2>1
    <3>. QED
      BY <2>7, <2>9, <3>1
  <2>. QED
    BY <1>0, <2>2, <2>10, <2>11, <2>12, Zenon DEF Link!Receive
<1>4. CASE Next
  <2>1. PICK s \in Station : \/ NetworkLayerReady(s)
                             \/ PhysicalLayerReady(s)
                             \/ FrameReceived(s)
                             \/ BadFrameReceived(s)
                             \/ DataTimeout(s)
                             \/ FrameLost(s) /\ UNCHANGED sawVars
    BY <1>4 DEF Next
  <2>2. CASE NetworkLayerReady(s)
    BY <1>2, <2>2 DEF Link!Next
  <2>3. CASE FrameReceived(s)
    <3>1. Peer(s) \in Station /\ s \in Station \ {Peer(s)}
      BY Peers
    <3>2. Link!Receive(Peer(s), s)
      BY <1>3, <2>3
    <3>. QED
      BY <3>1, <3>2 DEF Link!Next
  <2>4. CASE \/ PhysicalLayerReady(s) \/ BadFrameReceived(s) \/ DataTimeout(s)
             \/ FrameLost(s) /\ UNCHANGED sawVars
    <3>1. UNCHANGED <<pkt_no, rpackets, nbuffered>>
      BY <2>4 DEF PhysicalLayerReady, BadFrameReceived, DataTimeout,
                  FrameLost, sawVars
    <3>. QED
      BY <1>1, <3>1
  <2>. QED
    BY <2>1, <2>2, <2>3, <2>4
<1>5. CASE UNCHANGED vars
  BY <1>1, <1>5 DEF vars
<1>. QED
  BY <1>4, <1>5

\* Every run of the protocol is a run of the reliable link: in each direction
\* a FIFO that loses, repeats and reorders nothing.
THEOREM Refinement == Spec => ImplementsReliableLink
<1>. QED
  BY LinkInitially, LinkStep, Invariance, PTL
     DEF Spec, ImplementsReliableLink, Link!Spec

=============================================================================
