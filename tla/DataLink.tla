------------------------------ MODULE DataLink ------------------------------
(***************************************************************************)
(* The environment that the four Lab1 data link protocols run in: the      *)
(* simulation library protocol.c, seen through the events it reports and   *)
(* the calls it offers, and the put_frame / enable_network_layer shell     *)
(* that every file of protocols/ repeats word for word.                    *)
(*                                                                         *)
(* Two stations run the same program.  chan[s] holds the frames that s     *)
(* has handed to send_frame and that its peer has not seen yet: the send   *)
(* queue, the wire and the receive queue of the peer in one FIFO.  A       *)
(* network-layer packet is its position in the pseudo-random sequence that *)
(* get_packet draws and put_packet compares against, counted from 1; 0     *)
(* stands for the zero-filled static buffer that no packet was put in.     *)
(***************************************************************************)
EXTENDS Integers, Sequences

CONSTANTS A, B,          \* the two stations of the command line
          Traffic,       \* how many packets each network layer has to send
          MaxInFlight    \* bound: frames in both channels before a timeout

ASSUME StationsDiffer == A # B

Station == {A, B}

ASSUME TrafficIsNat == Traffic \in [Station -> Nat]

Peer(s) == IF s = A THEN B ELSE A

VARIABLES
    chan,                  \* per sender, the frames on their way
    inform_phl_ready,      \* protocol.c: a PHYSICAL_LAYER_READY is owed
    phl_ready,             \* the protocol's copy of that event
    network_layer_active,  \* enable_network_layer / disable_network_layer
    timer,                 \* per station, the numbers of the running timers
    pkt_no,                \* packets drawn by get_packet
    rpackets,              \* packets accepted by put_packet
    aborted                \* stations whose process ended in ABORT

linkVars == <<chan, inform_phl_ready, phl_ready, network_layer_active,
              timer, pkt_no, rpackets, aborted>>

LinkTypeOK(Frame, TimerNr) ==
    /\ chan \in [Station -> Seq(Frame)]
    /\ inform_phl_ready \in [Station -> BOOLEAN]
    /\ phl_ready \in [Station -> BOOLEAN]
    /\ network_layer_active \in [Station -> BOOLEAN]
    /\ timer \in [Station -> SUBSET TimerNr]
    /\ pkt_no \in [Station -> Nat]
    /\ rpackets \in [Station -> Nat]
    /\ aborted \in SUBSET Station

LinkInit ==
    /\ chan = [s \in Station |-> <<>>]
    /\ inform_phl_ready = [s \in Station |-> TRUE]
    /\ phl_ready = [s \in Station |-> FALSE]
    /\ network_layer_active = [s \in Station |-> FALSE]
    /\ timer = [s \in Station |-> {}]
    /\ pkt_no = [s \in Station |-> 0]
    /\ rpackets = [s \in Station |-> 0]
    /\ aborted = {}

(***************************************************************************)
(* The events of wait_for_event: what must hold for the library to return  *)
(* each of them.  A process that aborted takes its peer down with it: the  *)
(* TCP connection breaks and socket_recv exits.                            *)
(***************************************************************************)
Running == aborted = {}

network_layer_ready(s) ==
    Running /\ network_layer_active[s] /\ pkt_no[s] < Traffic[s]

physical_layer_ready(s) == Running /\ inform_phl_ready[s]

frame_arrived(s) == Running /\ chan[Peer(s)] # <<>>

\* Timers are counted from the moment the send queue has drained, so a
\* timeout never floods the link; MaxInFlight says how far it may go here.
timer_expired(s, nr) ==
    Running /\ nr \in timer[s] /\ Len(chan[A]) + Len(chan[B]) < MaxInFlight

(***************************************************************************)
(* The calls a handler makes.                                              *)
(***************************************************************************)

\* The frame at the head of the peer's channel, and the channels without it.
Arriving(s) == Head(chan[Peer(s)])

recv_frame(s) == [chan EXCEPT ![Peer(s)] = Tail(@)]

\* A slip: the last PHYSICAL_LAYER_READY is forgotten and none is owed.
put_frame_owes_nothing(s, ch, frames) ==
    /\ chan' = [ch EXCEPT ![s] = @ \o frames]
    /\ phl_ready' = [phl_ready EXCEPT ![s] = @ /\ frames = <<>>]
    /\ UNCHANGED inform_phl_ready

\* put_frame for each of a (possibly empty) sequence of frames, on channels
\* ch: the library now owes a PHYSICAL_LAYER_READY, the protocol forgets the
\* last one it saw.
put_frame(s, ch, frames) ==
    /\ chan' = [ch EXCEPT ![s] = @ \o frames]
    /\ inform_phl_ready' =
          [inform_phl_ready EXCEPT ![s] = @ \/ frames # <<>>]
    /\ phl_ready' = [phl_ready EXCEPT ![s] = @ /\ frames = <<>>]

\* Draw the next packet of the pseudo-random sequence.
get_packet(s) == pkt_no' = [pkt_no EXCEPT ![s] = @ + 1]

\* Compare a packet with the next one of the peer's sequence; anything else
\* ends the process.
put_packet(s, packet) ==
    IF packet = rpackets[s] + 1
    THEN /\ rpackets' = [rpackets EXCEPT ![s] = packet]
         /\ UNCHANGED aborted
    ELSE /\ aborted' = aborted \cup {s}
         /\ UNCHANGED rpackets

\* The statement that ends every turn of a protocol's event loop.
loop_end(s, room) ==
    network_layer_active' =
        [network_layer_active EXCEPT ![s] = room /\ phl_ready'[s]]

(***************************************************************************)
(* The physical layer loses or damages frames.  A hit on the opening       *)
(* delimiter, or on the closing one of the frame before, makes a frame     *)
(* disappear; a hit on a nibble reaches the protocol as a bad checksum,    *)
(* which each protocol handles in its own way.                             *)
(***************************************************************************)
FrameLost(s) ==
    /\ frame_arrived(s)
    /\ chan' = recv_frame(s)
    /\ UNCHANGED <<inform_phl_ready, phl_ready, network_layer_active, timer,
                   pkt_no, rpackets, aborted>>
=============================================================================
