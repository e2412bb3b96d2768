----------------------------- MODULE StopAndWait -----------------------------
(***************************************************************************)
(* protocols/stop_and_wait.c: both stations send and receive, one frame is *)
(* outstanding per direction, sequence numbers alternate between 0 and 1,  *)
(* every data frame also carries an acknowledgement and every data frame   *)
(* received is answered by an ACK frame, in order or not.                  *)
(***************************************************************************)
EXTENDS DataLink

VARIABLES
    frame_nr,        \* number of the outstanding, or of the next, frame
    buffer,          \* the packet kept for retransmission
    nbuffered,       \* an unsigned char: 1 while a frame is outstanding
    frame_expected   \* number of the next frame to accept

sawVars == <<frame_nr, buffer, nbuffered, frame_expected>>
vars == <<chan, inform_phl_ready, phl_ready, network_layer_active,
          timer, pkt_no, rpackets, aborted,
          frame_nr, buffer, nbuffered, frame_expected>>

Bit == {0, 1}

DataFrame == [kind : {"DATA"}, seq : Bit, ack : Bit, pkt : Nat]
AckFrame  == [kind : {"ACK"}, ack : Bit]
Frame == DataFrame \cup AckFrame

TypeOK ==
    /\ LinkTypeOK(Frame, Bit)
    /\ frame_nr \in [Station -> Bit]
    /\ buffer \in [Station -> Nat]
    /\ nbuffered \in [Station -> 0 .. 255]
    /\ frame_expected \in [Station -> Bit]

Init ==
    /\ LinkInit
    /\ frame_nr = [s \in Station |-> 0]
    /\ buffer = [s \in Station |-> 0]
    /\ nbuffered = [s \in Station |-> 0]
    /\ frame_expected = [s \in Station |-> 0]

(***************************************************************************)
(* The frames a station builds.                                            *)
(***************************************************************************)
data_frame(s, packet) ==
    [kind |-> "DATA", seq |-> frame_nr[s], ack |-> 1 - frame_expected[s],
     pkt |-> packet]

\* A slip: the ACK frame names the frame expected, not the one received.
ack_frame_of_next(expected) == [kind |-> "ACK", ack |-> expected]

ack_frame(expected) == [kind |-> "ACK", ack |-> 1 - expected]

\* Transmit the packet and (re)start its timer.
send_data_frame(s, packet) ==
    /\ put_frame(s, chan, <<data_frame(s, packet)>>)
    /\ timer' = [timer EXCEPT ![s] = @ \cup {frame_nr[s]}]

(***************************************************************************)
(* One action per event of the loop.                                       *)
(***************************************************************************)
NetworkLayerReady(s) ==
    /\ network_layer_ready(s)
    /\ get_packet(s)
    /\ buffer' = [buffer EXCEPT ![s] = pkt_no[s] + 1]
    /\ nbuffered' = [nbuffered EXCEPT ![s] = (@ + 1) % 256]
    /\ send_data_frame(s, pkt_no[s] + 1)
    /\ UNCHANGED <<rpackets, aborted, frame_nr, frame_expected>>
    /\ loop_end(s, nbuffered'[s] < 1)

PhysicalLayerReady(s) ==
    /\ physical_layer_ready(s)
    /\ inform_phl_ready' = [inform_phl_ready EXCEPT ![s] = FALSE]
    /\ phl_ready' = [phl_ready EXCEPT ![s] = TRUE]
    /\ UNCHANGED <<chan, timer, pkt_no, rpackets, aborted, sawVars>>
    /\ loop_end(s, nbuffered[s] < 1)

\* A slip: the number of a data frame is not looked at.
accept_data_of_any_number(s, f) ==
    IF f.kind = "DATA"
    THEN /\ put_packet(s, f.pkt)
         /\ frame_expected' = [frame_expected EXCEPT ![s] = 1 - @]
    ELSE UNCHANGED <<rpackets, aborted, frame_expected>>

\* A data frame with the expected number goes up and flips the expectation.
accept_data(s, f) ==
    IF f.kind = "DATA" /\ f.seq = frame_expected[s]
    THEN /\ put_packet(s, f.pkt)
         /\ frame_expected' = [frame_expected EXCEPT ![s] = 1 - @]
    ELSE UNCHANGED <<rpackets, aborted, frame_expected>>

\* The acknowledgement of the outstanding frame frees the buffer.
accept_ack(s, f) ==
    IF f.ack = frame_nr[s]
    THEN /\ timer' = [timer EXCEPT ![s] = @ \ {frame_nr[s]}]
         /\ nbuffered' = [nbuffered EXCEPT ![s] = (@ + 255) % 256]
         /\ frame_nr' = [frame_nr EXCEPT ![s] = 1 - @]
    ELSE UNCHANGED <<timer, nbuffered, frame_nr>>

FrameReceived(s) ==
    /\ frame_arrived(s)
    /\ accept_data(s, Arriving(s))
    /\ put_frame(s, recv_frame(s),
                 IF Arriving(s).kind = "DATA"
                 THEN <<ack_frame(frame_expected'[s])>> ELSE <<>>)
    /\ accept_ack(s, Arriving(s))
    /\ UNCHANGED <<pkt_no, buffer>>
    /\ loop_end(s, nbuffered'[s] < 1)

BadFrameReceived(s) ==
    /\ frame_arrived(s)
    /\ chan' = recv_frame(s)
    /\ UNCHANGED <<inform_phl_ready, phl_ready, timer, pkt_no, rpackets,
                   aborted, sawVars>>
    /\ loop_end(s, nbuffered[s] < 1)

\* A slip: the frame is sent again without a timer of its own.
DataTimeout_once(s) ==
    /\ \E nr \in Bit :
          /\ timer_expired(s, nr)
          /\ timer' = [timer EXCEPT ![s] = @ \ {nr}]
    /\ put_frame(s, chan, <<data_frame(s, buffer[s])>>)
    /\ UNCHANGED <<pkt_no, rpackets, aborted, sawVars>>
    /\ loop_end(s, nbuffered[s] < 1)

\* scan_timer clears the timer it reports; send_data_frame starts the timer
\* of frame_nr, whatever the number that expired.
DataTimeout(s) ==
    /\ \E nr \in Bit :
          /\ timer_expired(s, nr)
          /\ timer' = [timer EXCEPT ![s] = (@ \ {nr}) \cup {frame_nr[s]}]
    /\ put_frame(s, chan, <<data_frame(s, buffer[s])>>)
    /\ UNCHANGED <<pkt_no, rpackets, aborted, sawVars>>
    /\ loop_end(s, nbuffered[s] < 1)

Next == \E s \in Station :
    \/ NetworkLayerReady(s)
    \/ PhysicalLayerReady(s)
    \/ FrameReceived(s)
    \/ BadFrameReceived(s)
    \/ DataTimeout(s)
    \/ FrameLost(s) /\ UNCHANGED sawVars

Spec == Init /\ [][Next]_vars

(***************************************************************************)
(* Fairness.  The event loop polls for ever and reports what is pending,   *)
(* the network layer keeps asking, a timer that keeps running expires      *)
(* (strong fairness: MaxInFlight holds timeouts back, the code does not),  *)
(* and noise is random: a kind of frame that arrives again and again is    *)
(* intact again and again.                                                 *)
(***************************************************************************)
Intact(s, kind) == FrameReceived(s) /\ Arriving(s).kind = kind

Fairness == \A s \in Station :
    /\ WF_vars(NetworkLayerReady(s))
    /\ WF_vars(PhysicalLayerReady(s))
    /\ SF_vars(DataTimeout(s))
    /\ SF_vars(Intact(s, "DATA"))
    /\ SF_vars(Intact(s, "ACK"))

FairSpec == Spec /\ Fairness

(***************************************************************************)
(* Correctness.                                                            *)
(***************************************************************************)

\* put_packet never finds a packet other than the next one of the peer's
\* sequence: delivery is in order, without loss and without repetition,
\* whatever frames are lost, damaged or sent twice.
NeverAborts == aborted = {}

Acknowledged(s) == pkt_no[s] - nbuffered[s]

\* The sender forgets a packet only after the peer's network layer got it,
\* and the receiver is never ahead of the sender.
AckedImpliesDelivered == \A s \in Station :
    /\ nbuffered[s] <= 1
    /\ 0 <= Acknowledged(s)
    /\ Acknowledged(s) <= rpackets[Peer(s)]
    /\ rpackets[Peer(s)] <= pkt_no[s]

\* A timer runs for the outstanding frame, under its current number, and no
\* timer of an acknowledged frame is left to fire and send a stale buffer.
TimerIffOutstanding == \A s \in Station :
    timer[s] = IF nbuffered[s] = 1 THEN {frame_nr[s]} ELSE {}

\* A station whose network layer has more to send always has something that
\* will wake it up for it: the network layer itself, an owed
\* PHYSICAL_LAYER_READY, or the timer of the frame that fills the window.
NeverStuck == \A s \in Station : pkt_no[s] < Traffic[s] =>
    \/ network_layer_active[s]
    \/ inform_phl_ready[s]
    \/ timer[s] # {}

\* Every packet of both network layers is delivered in the end.
AllDelivered == \A s \in Station : rpackets[Peer(s)] = Traffic[s]
EventuallyAllDelivered == <>[]AllDelivered

(***************************************************************************)
(* What the protocol promises, and the state it keeps that promise in.     *)
(***************************************************************************)
Link == INSTANCE ReliableLink WITH
    Window    <- 1,
    sent      <- pkt_no,
    delivered <- [s \in Station |-> rpackets[Peer(s)]],
    acked     <- [s \in Station |-> Acknowledged(s)],
    broken    <- aborted # {}

ImplementsReliableLink == Link!Spec

(***************************************************************************)
(* Why it holds: what is true of the frames on their way.  The packets of  *)
(* direction s -> Peer(s) travel in chan[s], their acknowledgements in     *)
(* chan[Peer(s)], on ACK frames and on data frames alike.                  *)
(***************************************************************************)

\* The numbers of the next frame to send and to accept are the parities of
\* the packets acknowledged and delivered; the buffer holds the outstanding
\* packet.
NumbersAreParities == \A s \in Station :
    /\ frame_nr[s] = Acknowledged(s) % 2
    /\ frame_expected[s] = rpackets[s] % 2
    /\ nbuffered[s] = 1 => buffer[s] = pkt_no[s]

\* Frames c on their way to a station that has had r of the peer's n
\* packets.  A data frame carries the last packet delivered or a later one,
\* under the parity of its position, and older packets travel first.
DataOK(c, r, n) ==
    /\ \A i \in 1 .. Len(c) : c[i].kind = "DATA" =>
          /\ 1 <= c[i].pkt
          /\ r <= c[i].pkt
          /\ c[i].pkt <= n
          /\ c[i].seq = (c[i].pkt - 1) % 2
    /\ \A i, j \in 1 .. Len(c) :
          i < j /\ c[i].kind = "DATA" /\ c[j].kind = "DATA"
             => c[i].pkt <= c[j].pkt

DataInFlight == \A s \in Station :
    DataOK(chan[s], rpackets[Peer(s)], pkt_no[s])

\* Frames c on their way to a sender whose next acknowledgement is nr, after
\* a packets acknowledged of the r that its peer has had.  An
\* acknowledgement of the outstanding frame is on its way only when the
\* peer has the packet, and everything behind it acknowledges it too: once
\* the number has flipped no acknowledgement in flight can match it.
AcksOK(c, nr, r, a) ==
    \A i \in 1 .. Len(c) : c[i].ack = nr =>
        /\ r = a + 1
        /\ \A j \in i .. Len(c) : c[j].ack = nr

AcksInFlight == \A s \in Station :
    AcksOK(chan[Peer(s)], frame_nr[s], rpackets[Peer(s)], Acknowledged(s))

\* The network layer is enabled only while the one buffer is free.
NetworkLayerHasRoom == \A s \in Station :
    network_layer_active[s] => nbuffered[s] = 0

\* Flow control never comes to rest: a station has seen PHYSICAL_LAYER_READY
\* or is owed one, and the network layer of a station that has seen it is
\* enabled while the buffer is free.
FlowControl == \A s \in Station :
    /\ inform_phl_ready[s] \/ phl_ready[s]
    /\ phl_ready[s] /\ nbuffered[s] = 0 => network_layer_active[s]

IInv ==
    /\ TypeOK
    /\ NeverAborts
    /\ AckedImpliesDelivered
    /\ TimerIffOutstanding
    /\ NetworkLayerHasRoom
    /\ NumbersAreParities
    /\ DataInFlight
    /\ AcksInFlight
    /\ FlowControl
=============================================================================
