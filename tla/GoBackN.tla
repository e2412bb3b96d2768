------------------------------- MODULE GoBackN -------------------------------
(***************************************************************************)
(* protocols/go_back_n.c: a window of NR_BUFS frames, a receiver that      *)
(* takes frames in order only and answers each one it takes, and only      *)
(* those, with an ACK frame.  Data frames carry no acknowledgement.        *)
(***************************************************************************)
EXTENDS SlidingWindow

vars == <<chan, inform_phl_ready, phl_ready, network_layer_active,
          timer, pkt_no, rpackets, aborted, out_buf, ack_expected,
          next_frame_to_send, nbuffered, frame_expected>>

Frame == [kind : {"DATA"}, seq : SeqNr, pkt : Nat]
           \cup [kind : {"ACK"}, ack : SeqNr]

TypeOK == LinkTypeOK(Frame, SeqNr) /\ WindowTypeOK

Init == LinkInit /\ WindowInit

data_frame(seq, packet) == [kind |-> "DATA", seq |-> seq, pkt |-> packet]
ack_frame(ack) == [kind |-> "ACK", ack |-> ack]

NetworkLayerReady(s) ==
    /\ network_layer_ready(s)
    /\ take_packet(s)
    /\ put_frame(s, chan,
                 <<data_frame(next_frame_to_send[s], pkt_no[s] + 1)>>)
    /\ timer' = [timer EXCEPT ![s] = @ \cup {next_frame_to_send[s]}]
    /\ UNCHANGED <<rpackets, aborted, ack_expected, frame_expected>>
    /\ loop_end(s, room(nbuffered'[s]))

PhysicalLayerReady(s) ==
    /\ physical_layer_ready(s)
    /\ inform_phl_ready' = [inform_phl_ready EXCEPT ![s] = FALSE]
    /\ phl_ready' = [phl_ready EXCEPT ![s] = TRUE]
    /\ UNCHANGED <<chan, timer, pkt_no, rpackets, aborted, windowVars>>
    /\ loop_end(s, room(nbuffered[s]))

AckReceived(s) ==
    /\ frame_arrived(s)
    /\ Arriving(s).kind = "ACK"
    /\ process_ack(s, Arriving(s).ack, timer[s])
    /\ chan' = recv_frame(s)
    /\ UNCHANGED <<inform_phl_ready, phl_ready, pkt_no, rpackets, aborted,
                   out_buf, next_frame_to_send, frame_expected>>
    /\ loop_end(s, room(nbuffered'[s]))

\* A slip: the number of a data frame is not looked at.
DataAccepted_of_any_number(s) ==
    /\ frame_arrived(s)
    /\ Arriving(s).kind = "DATA"
    /\ put_packet(s, Arriving(s).pkt)
    /\ put_frame(s, recv_frame(s), <<ack_frame(Arriving(s).seq)>>)
    /\ frame_expected' = [frame_expected EXCEPT ![s] = inc(@)]
    /\ UNCHANGED <<timer, pkt_no, out_buf, ack_expected,
                   next_frame_to_send, nbuffered>>
    /\ loop_end(s, room(nbuffered[s]))

\* In order: up to the network layer, and an ACK with the same number.
DataAccepted(s) ==
    /\ frame_arrived(s)
    /\ Arriving(s).kind = "DATA"
    /\ Arriving(s).seq = frame_expected[s]
    /\ put_packet(s, Arriving(s).pkt)
    /\ put_frame(s, recv_frame(s), <<ack_frame(Arriving(s).seq)>>)
    /\ frame_expected' = [frame_expected EXCEPT ![s] = inc(@)]
    /\ UNCHANGED <<timer, pkt_no, out_buf, ack_expected,
                   next_frame_to_send, nbuffered>>
    /\ loop_end(s, room(nbuffered[s]))

\* Anything else is dropped without an answer, a repeated frame included.
DataIgnored(s) ==
    /\ frame_arrived(s)
    /\ Arriving(s).kind = "DATA"
    /\ Arriving(s).seq # frame_expected[s]
    /\ chan' = recv_frame(s)
    /\ UNCHANGED <<inform_phl_ready, phl_ready, timer, pkt_no, rpackets,
                   aborted, windowVars>>
    /\ loop_end(s, room(nbuffered[s]))

BadFrameReceived(s) ==
    /\ frame_arrived(s)
    /\ chan' = recv_frame(s)
    /\ UNCHANGED <<inform_phl_ready, phl_ready, timer, pkt_no, rpackets,
                   aborted, windowVars>>
    /\ loop_end(s, room(nbuffered[s]))

\* A slip: the window is sent again from its second frame on.
DataTimeout_but_first(s) ==
    /\ \E nr \in SeqNr :
          /\ timer_expired(s, nr)
          /\ timer' = [timer EXCEPT
                ![s] = (@ \ {nr}) \cup {window_of(s)[i] : i \in DOMAIN window_of(s)}]
    /\ put_frame(s, chan,
                 [i \in DOMAIN Tail(window_of(s)) |->
                    data_frame(Tail(window_of(s))[i],
                               out_buf[s][Tail(window_of(s))[i] % NR_BUFS])])
    /\ UNCHANGED <<pkt_no, rpackets, aborted, windowVars>>
    /\ loop_end(s, room(nbuffered[s]))

\* Whatever timer expires, the whole window is sent again.
DataTimeout(s) ==
    /\ \E nr \in SeqNr :
          /\ timer_expired(s, nr)
          /\ timer' = [timer EXCEPT
                ![s] = (@ \ {nr}) \cup {window_of(s)[i] : i \in DOMAIN window_of(s)}]
    /\ put_frame(s, chan,
                 [i \in DOMAIN window_of(s) |->
                    data_frame(window_of(s)[i],
                               out_buf[s][window_of(s)[i] % NR_BUFS])])
    /\ UNCHANGED <<pkt_no, rpackets, aborted, windowVars>>
    /\ loop_end(s, room(nbuffered[s]))

Next == \E s \in Station :
    \/ NetworkLayerReady(s)
    \/ PhysicalLayerReady(s)
    \/ AckReceived(s)
    \/ DataAccepted(s)
    \/ DataIgnored(s)
    \/ BadFrameReceived(s)
    \/ DataTimeout(s)
    \/ FrameLost(s) /\ UNCHANGED windowVars

Spec == Init /\ [][Next]_vars

(***************************************************************************)
(* The loop reports what is pending and noise is random: a frame number    *)
(* that keeps arriving is intact again and again.                          *)
(***************************************************************************)
Fairness == \A s \in Station :
    /\ WF_vars(NetworkLayerReady(s))
    /\ WF_vars(PhysicalLayerReady(s))
    /\ SF_vars(DataTimeout(s))
    /\ SF_vars(AckReceived(s))
    /\ SF_vars(DataAccepted(s))
    /\ WF_vars(DataIgnored(s))

FairSpec == Spec /\ Fairness

\* Every variable keeps its type, and nothing is freed or overwritten before
\* the peer has it (WindowAgrees, for the functions of go_back_n.c).
WindowOK == TypeOK /\ WindowAgrees

\* The inductive invariant.
IInv ==
    /\ TypeOK
    /\ NobodyAborts
    /\ EdgesAreCounts
    /\ TimersMatchWindow
    /\ FramesInTransit({"ACK"})
=============================================================================
