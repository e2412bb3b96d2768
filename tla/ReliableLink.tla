---------------------------- MODULE ReliableLink ----------------------------
(***************************************************************************)
(* What a data link protocol of Lab1 promises to the two network layers,   *)
(* without frames, timers or noise: each direction is a FIFO of packets    *)
(* that loses, repeats and reorders nothing, and a station holds at most   *)
(* Window packets that the peer has not confirmed.  Packets are counted,   *)
(* because put_packet accepts the next one of the sequence and no other:   *)
(* sent[s], delivered[s] and acked[s] all speak of the packets that s      *)
(* sends.                                                                  *)
(***************************************************************************)
EXTENDS Integers

CONSTANTS Station, Window

VARIABLES sent, delivered, acked, broken

vars == <<sent, delivered, acked, broken>>

Init ==
    /\ sent = [s \in Station |-> 0]
    /\ delivered = [s \in Station |-> 0]
    /\ acked = [s \in Station |-> 0]
    /\ broken = FALSE

\* s takes one more packet from its network layer.
Send(s) ==
    /\ sent[s] - acked[s] < Window
    /\ sent' = [sent EXCEPT ![s] = @ + 1]
    /\ UNCHANGED <<delivered, acked, broken>>

\* One frame arrives: its receiver may take in packets of the direction
\* s -> t and may learn of packets of the direction t -> s that s has had.
Receive(s, t) ==
    \E d \in delivered[s] .. sent[s], a \in acked[t] .. delivered[t] :
        /\ delivered' = [delivered EXCEPT ![s] = d]
        /\ acked' = [acked EXCEPT ![t] = a]
        /\ UNCHANGED <<sent, broken>>

Next == \E s \in Station :
    \/ Send(s)
    \/ \E t \in Station \ {s} : Receive(s, t)

Spec == Init /\ [][Next]_vars
=============================================================================
