--------------------------- MODULE SelectiveRepeat ---------------------------
(***************************************************************************)
(* protocols/selective_repeat.c: the receiver keeps frames that arrive out *)
(* of order inside its window, asks once for the one it misses with a NAK, *)
(* and a timeout resends one frame only.                                   *)
(***************************************************************************)
EXTENDS SlidingWindow

\* Two consecutive receive windows must not share a number.
ASSUME HalfTheNumbers == NR_BUFS = (MAX_SEQ + 1) \div 2

VARIABLES
    ack_timer,    \* the library's ACK_TIMER_ID runs
    arrived,      \* per slot, a frame out of order waits in in_buf
    in_buf,       \* per slot, its packet
    too_far,      \* upper edge of the receive window, plus 1
    no_nak        \* no NAK was sent for the missing frame yet

receiverVars == <<arrived, in_buf, too_far, no_nak>>
vars == <<chan, inform_phl_ready, phl_ready, network_layer_active,
          timer, pkt_no, rpackets, aborted, out_buf, ack_expected,
          next_frame_to_send, nbuffered, frame_expected,
          ack_timer, arrived, in_buf, too_far, no_nak>>

Frame == [kind : {"DATA"}, seq : SeqNr, ack : SeqNr, pkt : Nat]
           \cup [kind : {"ACK", "NAK"}, ack : SeqNr]

TypeOK ==
    /\ LinkTypeOK(Frame, SeqNr) /\ WindowTypeOK
    /\ ack_timer \in [Station -> BOOLEAN]
    /\ arrived \in [Station -> [Slot -> BOOLEAN]]
    /\ in_buf \in [Station -> [Slot -> Nat]]
    /\ too_far \in [Station -> SeqNr]
    /\ no_nak \in [Station -> BOOLEAN]

Init ==
    /\ LinkInit /\ WindowInit
    /\ ack_timer = [s \in Station |-> FALSE]
    /\ arrived = [s \in Station |-> [i \in Slot |-> FALSE]]
    /\ in_buf = [s \in Station |-> [i \in Slot |-> 0]]
    /\ too_far = [s \in Station |-> NR_BUFS]
    /\ no_nak = [s \in Station |-> TRUE]

data_frame(s, seq, packet) ==
    [kind |-> "DATA", seq |-> seq, ack |-> last_acked_frame(frame_expected[s]),
     pkt |-> packet]

kept_frame(s, seq) == data_frame(s, seq, out_buf[s][seq % NR_BUFS])

\* A slip: the acknowledgement names the frame expected, not the last one.
control_frame_acks_next(s, kind) == [kind |-> kind, ack |-> frame_expected[s]]

control_frame(s, kind) ==
    [kind |-> kind, ack |-> last_acked_frame(frame_expected[s])]

set_ack_timer(s, on) == ack_timer' = [ack_timer EXCEPT ![s] = on]

NetworkLayerReady(s) ==
    /\ network_layer_ready(s)
    /\ take_packet(s)
    /\ put_frame(s, chan,
                 <<data_frame(s, next_frame_to_send[s], pkt_no[s] + 1)>>)
    /\ timer' = [timer EXCEPT ![s] = @ \cup {next_frame_to_send[s]}]
    /\ set_ack_timer(s, FALSE)
    /\ UNCHANGED <<rpackets, aborted, ack_expected, frame_expected,
                   receiverVars>>
    /\ loop_end(s, room(nbuffered'[s]))

PhysicalLayerReady(s) ==
    /\ physical_layer_ready(s)
    /\ inform_phl_ready' = [inform_phl_ready EXCEPT ![s] = FALSE]
    /\ phl_ready' = [phl_ready EXCEPT ![s] = TRUE]
    /\ UNCHANGED <<chan, timer, pkt_no, rpackets, aborted, windowVars,
                   ack_timer, receiverVars>>
    /\ loop_end(s, room(nbuffered[s]))

(***************************************************************************)
(* A data frame: ask for the missing one, store the new one, then hand the *)
(* run of stored packets that starts at frame_expected to the network      *)
(* layer.                                                                  *)
(***************************************************************************)
\* A slip: a frame outside the receive window is stored as well.
wanted_anywhere(s, seq) == ~arrived[s][seq % NR_BUFS]

wanted(s, seq) ==
    /\ between(frame_expected[s], seq, too_far[s])
    /\ ~arrived[s][seq % NR_BUFS]

\* Slots that hold a packet once f is stored, and the packets in them.
arrived_with(s, f) ==
    [i \in Slot |-> \/ arrived[s][i]
                    \/ wanted(s, f.seq) /\ i = f.seq % NR_BUFS]
in_buf_with(s, f) ==
    [i \in Slot |-> IF wanted(s, f.seq) /\ i = f.seq % NR_BUFS
                    THEN f.pkt ELSE in_buf[s][i]]

slot_after(s, n) == plus(frame_expected[s], n) % NR_BUFS

\* Length of the run of stored packets.
run_length(s, f) ==
    CHOOSE n \in 0 .. NR_BUFS :
        /\ n = NR_BUFS \/ ~arrived_with(s, f)[slot_after(s, n)]
        /\ \A i \in 0 .. n - 1 : arrived_with(s, f)[slot_after(s, i)]

\* put_packet for each of the run; the first one out of sequence aborts.
put_run(s, f, n) ==
    IF \A i \in 0 .. n - 1 :
          in_buf_with(s, f)[slot_after(s, i)] = rpackets[s] + i + 1
    THEN /\ rpackets' = [rpackets EXCEPT ![s] = @ + n]
         /\ UNCHANGED aborted
    ELSE /\ aborted' = aborted \cup {s}
         /\ UNCHANGED rpackets

\* A slip: a repeated frame is not acknowledged again.
owes_ack_if_new(n, nak) == n > 0

\* A frame handed up starts the acknowledgement timer, and so does one that
\* is not answered by a NAK.
owes_ack(n, nak) == n > 0 \/ ~nak

DataReceived(s) ==
    LET f   == Arriving(s)
        n   == run_length(s, f)
        nak == f.seq # frame_expected[s] /\ no_nak[s]
    IN  /\ frame_arrived(s)
        /\ f.kind = "DATA"
        /\ put_frame(s, recv_frame(s),
                     IF nak THEN <<control_frame(s, "NAK")>> ELSE <<>>)
        /\ put_run(s, f, n)
        /\ arrived' = [arrived EXCEPT ![s] =
              [i \in Slot |-> /\ arrived_with(s, f)[i]
                              /\ \A k \in 0 .. n - 1 : i # slot_after(s, k)]]
        /\ in_buf' = [in_buf EXCEPT ![s] = in_buf_with(s, f)]
        /\ frame_expected' = [frame_expected EXCEPT ![s] = plus(@, n)]
        /\ too_far' = [too_far EXCEPT ![s] = plus(@, n)]
        /\ no_nak' = [no_nak EXCEPT ![s] = n > 0 \/ (@ /\ ~nak)]
        /\ set_ack_timer(s, owes_ack(n, nak))
        /\ process_ack(s, f.ack, timer[s])
        /\ UNCHANGED <<pkt_no, out_buf, next_frame_to_send>>
        /\ loop_end(s, room(nbuffered'[s]))

AckReceived(s) ==
    /\ frame_arrived(s)
    /\ Arriving(s).kind = "ACK"
    /\ process_ack(s, Arriving(s).ack, timer[s])
    /\ chan' = recv_frame(s)
    /\ UNCHANGED <<inform_phl_ready, phl_ready, pkt_no, rpackets, aborted,
                   out_buf, next_frame_to_send, frame_expected, ack_timer,
                   receiverVars>>
    /\ loop_end(s, room(nbuffered'[s]))

\* A slip: the number a NAK asks for is not looked at.
resends_anything(s, seq) == TRUE

resends(s, seq) == between(ack_expected[s], seq, next_frame_to_send[s])

\* A NAK asks for the frame after the one it acknowledges, and is an
\* acknowledgement as well.  A NAK for a frame outside the window is stale.
NakReceived(s) ==
    LET seq    == inc(Arriving(s).ack)
        resend == resends(s, seq)
    IN  /\ frame_arrived(s)
        /\ Arriving(s).kind = "NAK"
        /\ put_frame(s, recv_frame(s),
                     IF resend THEN <<kept_frame(s, seq)>> ELSE <<>>)
        /\ process_ack(s, Arriving(s).ack,
                       IF resend THEN timer[s] \cup {seq} ELSE timer[s])
        /\ set_ack_timer(s, ack_timer[s] /\ ~resend)
        /\ UNCHANGED <<pkt_no, rpackets, aborted, out_buf,
                       next_frame_to_send, frame_expected, receiverVars>>
        /\ loop_end(s, room(nbuffered'[s]))

\* A damaged frame is answered by a NAK, once.
BadFrameReceived(s) ==
    /\ frame_arrived(s)
    /\ put_frame(s, recv_frame(s),
                 IF no_nak[s] THEN <<control_frame(s, "NAK")>> ELSE <<>>)
    /\ set_ack_timer(s, ack_timer[s] /\ ~no_nak[s])
    /\ no_nak' = [no_nak EXCEPT ![s] = FALSE]
    /\ UNCHANGED <<timer, pkt_no, rpackets, aborted, windowVars, arrived,
                   in_buf, too_far>>
    /\ loop_end(s, room(nbuffered[s]))

AckTimeout(s) ==
    /\ Running /\ ack_timer[s]
    /\ set_ack_timer(s, FALSE)
    /\ put_frame(s, chan, <<control_frame(s, "ACK")>>)
    /\ UNCHANGED <<timer, pkt_no, rpackets, aborted, windowVars,
                   receiverVars>>
    /\ loop_end(s, room(nbuffered[s]))

\* A slip: the frame is sent again without a timer of its own.
Expires_once(s, nr) ==
    /\ timer_expired(s, nr)
    /\ put_frame(s, chan, <<kept_frame(s, nr)>>)
    /\ set_ack_timer(s, FALSE)
    /\ timer' = [timer EXCEPT ![s] = @ \ {nr}]
    /\ UNCHANGED <<pkt_no, rpackets, aborted, windowVars, receiverVars>>
    /\ loop_end(s, room(nbuffered[s]))

\* scan_timer clears the timer it reports and send_data_frame starts it
\* again: the set of running timers stays as it is.
Expires(s, nr) ==
    /\ timer_expired(s, nr)
    /\ put_frame(s, chan, <<kept_frame(s, nr)>>)
    /\ set_ack_timer(s, FALSE)
    /\ UNCHANGED <<timer, pkt_no, rpackets, aborted, windowVars,
                   receiverVars>>
    /\ loop_end(s, room(nbuffered[s]))

DataTimeout(s) == \E nr \in SeqNr : Expires(s, nr)

Next == \E s \in Station :
    \/ NetworkLayerReady(s)
    \/ PhysicalLayerReady(s)
    \/ DataReceived(s)
    \/ AckReceived(s)
    \/ NakReceived(s)
    \/ BadFrameReceived(s)
    \/ AckTimeout(s)
    \/ DataTimeout(s)
    \/ FrameLost(s) /\ UNCHANGED <<windowVars, ack_timer, receiverVars>>

Spec == Init /\ [][Next]_vars

(***************************************************************************)
(* The loop reports what is pending and each timer that keeps running      *)
(* expires (strong fairness: MaxInFlight holds timeouts back, the code     *)
(* does not).  Noise hits each frame with a small probability whatever     *)
(* happened before, so a protocol that recovers from every reachable state *)
(* once the line is quiet recovers with probability one.                   *)
(***************************************************************************)
Reception(s) == DataReceived(s) \/ AckReceived(s) \/ NakReceived(s)

\* A frame that is received and changes nothing looks like one that was lost,
\* and is not noise.
Noise == \E s \in Station :
    (FrameLost(s) \/ BadFrameReceived(s)) /\ ~Reception(s)

Fairness ==
    /\ <>[][~Noise]_vars
    /\ \A s \in Station :
          /\ WF_vars(NetworkLayerReady(s))
          /\ WF_vars(PhysicalLayerReady(s))
          /\ WF_vars(AckTimeout(s))
          /\ WF_vars(DataReceived(s))
          /\ WF_vars(AckReceived(s))
          /\ WF_vars(NakReceived(s))
          /\ \A q \in SeqNr : SF_vars(Expires(s, q))

FairSpec == Spec /\ Fairness

(***************************************************************************)
(* Correctness, beyond what SlidingWindow states.                          *)
(***************************************************************************)

\* Every variable keeps its type.  The receive window is NR_BUFS wide, a
\* packet waits in a slot only if it belongs there, and nothing waits that
\* could already have been delivered.
ReceiveWindowOK ==
    /\ TypeOK
    /\ \A s \in Station :
          /\ too_far[s] = plus(frame_expected[s], NR_BUFS)
          /\ ~arrived[s][frame_expected[s] % NR_BUFS]
          /\ \A i \in 0 .. NR_BUFS - 1 : arrived[s][slot_after(s, i)] =>
                in_buf[s][slot_after(s, i)] = rpackets[s] + i + 1

\* A packet waits in the slot of its number, and is so new that no frame
\* under way could be taken for one of the window after it.
StoredInOrder == \A s \in Station :
    /\ too_far[s] = number(rpackets[s] + NR_BUFS)
    /\ ~arrived[s][number(rpackets[s]) % NR_BUFS]
    /\ \A n \in rpackets[s] .. rpackets[s] + NR_BUFS - 1 :
          arrived[s][number(n) % NR_BUFS] =>
             /\ in_buf[s][number(n) % NR_BUFS] = n + 1
             /\ n < pkt_no[Peer(s)]
             /\ \A i \in 1 .. Len(chan[Peer(s)]) :
                   chan[Peer(s)][i].kind = "DATA" =>
                      n + 1 < chan[Peer(s)][i].pkt + NR_BUFS

\* The inductive invariant.
IInv ==
    /\ TypeOK
    /\ NobodyAborts
    /\ EdgesAreCounts
    /\ TimersMatchWindow
    /\ FramesInTransit({"DATA", "ACK", "NAK"})
    /\ StoredInOrder
=============================================================================
