----------------------------- MODULE GoBackNPiggy -----------------------------
(***************************************************************************)
(* protocols/go_back_n_piggypacking.c: go-back-N in which data frames      *)
(* carry the acknowledgement, and an ACK frame goes out only when the      *)
(* acknowledgement timer, started by a frame taken in order, finds that no *)
(* data frame has carried it.                                              *)
(***************************************************************************)
EXTENDS SlidingWindow

VARIABLE ack_timer    \* the library's ACK_TIMER_ID runs

vars == <<chan, inform_phl_ready, phl_ready, network_layer_active,
          timer, pkt_no, rpackets, aborted, out_buf, ack_expected,
          next_frame_to_send, nbuffered, frame_expected, ack_timer>>

Frame == [kind : {"DATA"}, seq : SeqNr, ack : SeqNr, pkt : Nat]
           \cup [kind : {"ACK"}, ack : SeqNr]

TypeOK ==
    /\ LinkTypeOK(Frame, SeqNr) /\ WindowTypeOK
    /\ ack_timer \in [Station -> BOOLEAN]

Init == LinkInit /\ WindowInit /\ ack_timer = [s \in Station |-> FALSE]

\* A slip: the acknowledgement names the frame expected, not the last one.
data_frame_acks_next(s, seq, packet) ==
    [kind |-> "DATA", seq |-> seq, ack |-> frame_expected[s], pkt |-> packet]

data_frame(s, seq, packet) ==
    [kind |-> "DATA", seq |-> seq, ack |-> last_acked_frame(frame_expected[s]),
     pkt |-> packet]

ack_frame(s) ==
    [kind |-> "ACK", ack |-> last_acked_frame(frame_expected[s])]

\* Every frame sent carries the acknowledgement: the timer has done its work.
stop_ack_timer(s) == ack_timer' = [ack_timer EXCEPT ![s] = FALSE]

NetworkLayerReady(s) ==
    /\ network_layer_ready(s)
    /\ take_packet(s)
    /\ put_frame(s, chan,
                 <<data_frame(s, next_frame_to_send[s], pkt_no[s] + 1)>>)
    /\ timer' = [timer EXCEPT ![s] = @ \cup {next_frame_to_send[s]}]
    /\ stop_ack_timer(s)
    /\ UNCHANGED <<rpackets, aborted, ack_expected, frame_expected>>
    /\ loop_end(s, room(nbuffered'[s]))

PhysicalLayerReady(s) ==
    /\ physical_layer_ready(s)
    /\ inform_phl_ready' = [inform_phl_ready EXCEPT ![s] = FALSE]
    /\ phl_ready' = [phl_ready EXCEPT ![s] = TRUE]
    /\ UNCHANGED <<chan, timer, pkt_no, rpackets, aborted, windowVars,
                   ack_timer>>
    /\ loop_end(s, room(nbuffered[s]))

\* A slip: the number of a data frame is not looked at.
accept_data_of_any_number(s, f) ==
    IF f.kind = "DATA"
    THEN /\ put_packet(s, f.pkt)
         /\ frame_expected' = [frame_expected EXCEPT ![s] = inc(@)]
         /\ ack_timer' = [ack_timer EXCEPT ![s] = TRUE]
    ELSE UNCHANGED <<rpackets, aborted, frame_expected, ack_timer>>

\* A frame in order goes up and starts the acknowledgement timer; a frame
\* out of order, or one already taken, leaves no trace.
accept_data(s, f) ==
    IF f.kind = "DATA" /\ f.seq = frame_expected[s]
    THEN /\ put_packet(s, f.pkt)
         /\ frame_expected' = [frame_expected EXCEPT ![s] = inc(@)]
         /\ ack_timer' = [ack_timer EXCEPT ![s] = TRUE]
    ELSE UNCHANGED <<rpackets, aborted, frame_expected, ack_timer>>

FrameReceived(s) ==
    /\ frame_arrived(s)
    /\ process_ack(s, Arriving(s).ack, timer[s])
    /\ accept_data(s, Arriving(s))
    /\ chan' = recv_frame(s)
    /\ UNCHANGED <<inform_phl_ready, phl_ready, pkt_no, out_buf,
                   next_frame_to_send>>
    /\ loop_end(s, room(nbuffered'[s]))

BadFrameReceived(s) ==
    /\ frame_arrived(s)
    /\ chan' = recv_frame(s)
    /\ UNCHANGED <<inform_phl_ready, phl_ready, timer, pkt_no, rpackets,
                   aborted, windowVars, ack_timer>>
    /\ loop_end(s, room(nbuffered[s]))

AckTimeout(s) ==
    /\ Running /\ ack_timer[s]
    /\ stop_ack_timer(s)
    /\ put_frame(s, chan, <<ack_frame(s)>>)
    /\ UNCHANGED <<timer, pkt_no, rpackets, aborted, windowVars>>
    /\ loop_end(s, room(nbuffered[s]))

\* A slip: the window is sent again from its second frame on.
DataTimeout_but_first(s) ==
    /\ \E nr \in SeqNr :
          /\ timer_expired(s, nr)
          /\ timer' = [timer EXCEPT ![s] =
                (@ \ {nr}) \cup {window_of(s)[i] : i \in DOMAIN window_of(s)}]
    /\ put_frame(s, chan,
                 [i \in DOMAIN Tail(window_of(s)) |->
                    data_frame(s, Tail(window_of(s))[i],
                               out_buf[s][Tail(window_of(s))[i] % NR_BUFS])])
    /\ ack_timer' = [ack_timer EXCEPT ![s] = @ /\ nbuffered[s] = 0]
    /\ UNCHANGED <<pkt_no, rpackets, aborted, windowVars>>
    /\ loop_end(s, room(nbuffered[s]))

DataTimeout(s) ==
    /\ \E nr \in SeqNr :
          /\ timer_expired(s, nr)
          /\ timer' = [timer EXCEPT ![s] =
                (@ \ {nr}) \cup {window_of(s)[i] : i \in DOMAIN window_of(s)}]
    /\ put_frame(s, chan,
                 [i \in DOMAIN window_of(s) |->
                    data_frame(s, window_of(s)[i],
                               out_buf[s][window_of(s)[i] % NR_BUFS])])
    /\ ack_timer' = [ack_timer EXCEPT ![s] = @ /\ nbuffered[s] = 0]
    /\ UNCHANGED <<pkt_no, rpackets, aborted, windowVars>>
    /\ loop_end(s, room(nbuffered[s]))

Next == \E s \in Station :
    \/ NetworkLayerReady(s)
    \/ PhysicalLayerReady(s)
    \/ FrameReceived(s)
    \/ BadFrameReceived(s)
    \/ AckTimeout(s)
    \/ DataTimeout(s)
    \/ FrameLost(s) /\ UNCHANGED <<windowVars, ack_timer>>

Spec == Init /\ [][Next]_vars

(***************************************************************************)
(* The loop reports what is pending, a timer that keeps running expires    *)
(* (strong fairness: MaxInFlight holds timeouts back, the code does not),  *)
(* and noise is random: if frames with the expected number keep arriving,  *)
(* some of them arrive intact.                                             *)
(***************************************************************************)
IntactExpected(s) ==
    /\ FrameReceived(s)
    /\ Arriving(s).kind = "DATA" /\ Arriving(s).seq = frame_expected[s]

Fairness == \A s \in Station :
    /\ WF_vars(NetworkLayerReady(s))
    /\ WF_vars(PhysicalLayerReady(s))
    /\ WF_vars(FrameReceived(s))
    /\ SF_vars(DataTimeout(s))
    /\ SF_vars(IntactExpected(s))

FairSpec == Spec /\ Fairness

\* Every variable keeps its type, and nothing is freed or overwritten before
\* the peer has it (WindowAgrees, for the functions of go_back_n_piggypacking.c).
WindowOK == TypeOK /\ WindowAgrees

\* The inductive invariant.
IInv ==
    /\ TypeOK
    /\ NobodyAborts
    /\ EdgesAreCounts
    /\ TimersMatchWindow
    /\ FramesInTransit({"DATA", "ACK"})
=============================================================================
