---------------------------- MODULE SlidingWindow ----------------------------
(***************************************************************************)
(* What go_back_n.c, go_back_n_piggypacking.c and selective_repeat.c have  *)
(* in common: sequence arithmetic, the sender's window with its buffers,   *)
(* and the cumulative acknowledgement.  Each file keeps its own copy of    *)
(* these functions, with the same text.                                    *)
(***************************************************************************)
EXTENDS DataLink

CONSTANTS MAX_SEQ, NR_BUFS

\* A frame's buffer is its number modulo NR_BUFS: that stays the same slot
\* when the numbers come round only if NR_BUFS divides MAX_SEQ + 1.  Numbers
\* and counters are unsigned chars.
ASSUME WindowSizes ==
    /\ MAX_SEQ \in 0 .. 255 /\ NR_BUFS \in Nat \ {0}
    /\ NR_BUFS <= MAX_SEQ
    /\ (MAX_SEQ + 1) % NR_BUFS = 0

VARIABLES
    out_buf,              \* per slot, the packet kept for retransmission
    ack_expected,         \* lower edge of the sender's window
    next_frame_to_send,   \* upper edge of the sender's window, plus 1
    nbuffered,            \* frames outstanding (an unsigned char)
    frame_expected        \* next number the receiver accepts

windowVars == <<out_buf, ack_expected, next_frame_to_send, nbuffered,
                frame_expected>>

SeqNr == 0 .. MAX_SEQ
Slot == 0 .. NR_BUFS - 1

plus(seq, n) == (seq + n) % (MAX_SEQ + 1)

inc(seq) == plus(seq, 1)

\* b lies in the circular interval [a, c).
between(a, b, c) ==
    IF a <= c THEN a <= b /\ b < c ELSE a <= b \/ b < c

last_acked_frame(expected) == plus(expected, MAX_SEQ)

WindowTypeOK ==
    /\ out_buf \in [Station -> [Slot -> Nat]]
    /\ ack_expected \in [Station -> SeqNr]
    /\ next_frame_to_send \in [Station -> SeqNr]
    /\ nbuffered \in [Station -> 0 .. 255]
    /\ frame_expected \in [Station -> SeqNr]

WindowInit ==
    /\ out_buf = [s \in Station |-> [i \in Slot |-> 0]]
    /\ ack_expected = [s \in Station |-> 0]
    /\ next_frame_to_send = [s \in Station |-> 0]
    /\ nbuffered = [s \in Station |-> 0]
    /\ frame_expected = [s \in Station |-> 0]

\* Take a packet into the next slot and open the window by one frame.
take_packet(s) ==
    /\ get_packet(s)
    /\ out_buf' = [out_buf EXCEPT
                     ![s][next_frame_to_send[s] % NR_BUFS] = pkt_no[s] + 1]
    /\ nbuffered' = [nbuffered EXCEPT ![s] = (@ + 1) % 256]
    /\ next_frame_to_send' = [next_frame_to_send EXCEPT ![s] = inc(@)]

\* The while loop of process_ack stops at the first frame that ack does not
\* cover; freed_by(s, ack) is the number of turns it makes.
covered(s, i, ack) ==
    /\ nbuffered[s] > i
    /\ between(plus(ack_expected[s], i), ack, next_frame_to_send[s])

\* A slip: every acknowledgement frees the whole window.
freed_by_any(s, ack) == nbuffered[s]

freed_by(s, ack) ==
    CHOOSE n \in 0 .. nbuffered[s] :
        /\ ~covered(s, n, ack)
        /\ \A i \in 0 .. n - 1 : covered(s, i, ack)

\* A slip: the timers of the frames freed go on running.
free_frames_only(s, n, timers) ==
    /\ timer' = [timer EXCEPT ![s] = timers]
    /\ nbuffered' = [nbuffered EXCEPT ![s] = @ - n]
    /\ ack_expected' = [ack_expected EXCEPT ![s] = plus(@, n)]

\* Free the n lowest frames of the window; timers is the set of timers the
\* handler has left running so far.
free_frames(s, n, timers) ==
    /\ timer' = [timer EXCEPT
          ![s] = timers \ {plus(ack_expected[s], i) : i \in 0 .. n - 1}]
    /\ nbuffered' = [nbuffered EXCEPT ![s] = @ - n]
    /\ ack_expected' = [ack_expected EXCEPT ![s] = plus(@, n)]

process_ack(s, ack, timers) == free_frames(s, freed_by(s, ack), timers)

\* The frames of the whole window, oldest first, as DATA_TIMEOUT resends them.
window_of(s) == [i \in 1 .. nbuffered[s] |-> plus(ack_expected[s], i - 1)]

\* A slip: one frame too many.
room_for_one_more(n) == n <= NR_BUFS

room(n) == n < NR_BUFS

(***************************************************************************)
(* Properties that all three protocols have to keep.                       *)
(***************************************************************************)
Acknowledged(s) == pkt_no[s] - nbuffered[s]

\* No packet leaves the sender's buffers before the peer's network layer has
\* it, the receiver is never ahead of the sender, the two window edges agree
\* with the number of buffers in use, and the slot of an outstanding frame
\* still holds the packet that was sent under its number.
WindowAgrees == \A s \in Station :
    /\ nbuffered[s] <= NR_BUFS
    /\ next_frame_to_send[s] = plus(ack_expected[s], nbuffered[s])
    /\ Acknowledged(s) <= rpackets[Peer(s)]
    /\ rpackets[Peer(s)] <= pkt_no[s]
    /\ frame_expected[Peer(s)] =
          plus(ack_expected[s], rpackets[Peer(s)] - Acknowledged(s))
    /\ \A i \in 0 .. nbuffered[s] - 1 :
          out_buf[s][plus(ack_expected[s], i) % NR_BUFS]
             = Acknowledged(s) + i + 1

\* Exactly the outstanding frames have a running timer: a frame without one
\* could be lost for good, a timer without a frame would send an old buffer.
TimersMatchWindow == \A s \in Station :
    timer[s] = {plus(ack_expected[s], i) : i \in 0 .. nbuffered[s] - 1}

(***************************************************************************)
(* What holds in all three protocols from step to step, told in packets:   *)
(* the numbers in the variables and frames are counts of packets, taken    *)
(* modulo MAX_SEQ + 1.                                                     *)
(***************************************************************************)
number(n) == n % (MAX_SEQ + 1)

\* The window edges, and the packet that each outstanding frame carried.
EdgesAreCounts == \A s \in Station :
    /\ nbuffered[s] <= NR_BUFS /\ nbuffered[s] <= pkt_no[s]
    /\ network_layer_active[s] => room(nbuffered[s])
    /\ ack_expected[s] = number(Acknowledged(s))
    /\ next_frame_to_send[s] = number(pkt_no[s])
    /\ frame_expected[s] = number(rpackets[s])
    /\ Acknowledged(s) <= rpackets[Peer(s)]
    /\ rpackets[Peer(s)] <= pkt_no[s]
    /\ \A n \in Acknowledged(s) .. pkt_no[s] - 1 :
          out_buf[s][number(n) % NR_BUFS] = n + 1

\* Data frames under way, of a sender that has sent packets up to sent to a
\* receiver that has had: a frame is never so old that its number could be
\* taken for that of a new one, however often it has been sent again.
DataInOrder(frames, sent, had) == \A i \in 1 .. Len(frames) :
    frames[i].kind = "DATA" =>
        /\ frames[i].pkt \in 1 .. sent
        /\ frames[i].seq = number(frames[i].pkt - 1)
        /\ had < frames[i].pkt + NR_BUFS
        /\ \A j \in i + 1 .. Len(frames) : frames[j].kind = "DATA" =>
              frames[i].pkt < frames[j].pkt + NR_BUFS

\* Acknowledgements under way in frames of these kinds: each says how many
\* packets the receiver had, never fewer than the one before it.
AcksInOrder(frames, kinds, acked, had) == \A i \in 1 .. Len(frames) :
    frames[i].kind \in kinds => \E x \in acked .. had :
        /\ frames[i].ack = plus(x, MAX_SEQ)
        /\ \A j \in i + 1 .. Len(frames) : frames[j].kind \in kinds =>
              \E y \in x .. had : frames[j].ack = plus(y, MAX_SEQ)

FramesInTransit(kinds) == \A s \in Station :
    /\ DataInOrder(chan[s], pkt_no[s], rpackets[Peer(s)])
    /\ AcksInOrder(chan[Peer(s)], kinds, Acknowledged(s), rpackets[Peer(s)])

\* No packet reaches put_packet out of its sequence: no station ends in ABORT.
NobodyAborts == aborted = {}

\* Whatever a network layer hands over is delivered on the other side.
EventuallyDelivered == \A s \in Station : \A n \in 1 .. Traffic[s] :
    pkt_no[s] >= n ~> rpackets[Peer(s)] >= n

\* Both network layers get everything through: no noise stops the link.
EventuallyAllDelivered ==
    <>[](\A s \in Station : rpackets[Peer(s)] = Traffic[s])

\* Every buffer is freed in the end: the sender stops retransmitting.
EventuallyAllFreed == <>[](\A s \in Station : nbuffered[s] = 0)

Link == INSTANCE ReliableLink WITH
    Window    <- NR_BUFS,
    sent      <- pkt_no,
    delivered <- [s \in Station |-> rpackets[Peer(s)]],
    acked     <- [s \in Station |-> Acknowledged(s)],
    broken    <- aborted # {}

ImplementsReliableLink == Link!Spec
=============================================================================
