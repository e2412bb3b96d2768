----------------------------- MODULE Connection -----------------------------
(***************************************************************************)
(* protocol_init of the simulation library: station A listens on a TCP     *)
(* port, station B tries to connect, and sends the epoch from which both   *)
(* count their time.                                                       *)
(***************************************************************************)
EXTENDS Naturals

CONSTANTS Attempts   \* how often station B tries to connect (60)

ASSUME AttemptsType == Attempts \in Nat \ {0}

VARIABLES
    a,           \* station A
    b,           \* station B
    i,           \* attempts of B that failed
    connected,   \* the TCP connection is there
    epoch        \* the epoch is on its way or has arrived

cvars == <<a, b, i, connected, epoch>>

ConnectionInit ==
    /\ a = "starting" /\ b = "connecting"
    /\ i = 0
    /\ connected = FALSE /\ epoch = FALSE

\* socket and bind may fail.
Listen ==
    /\ a = "starting"
    /\ a' \in {"listening", "aborted"}
    /\ UNCHANGED <<b, i, connected, epoch>>

\* The connection waits in the backlog of listen if A has not come to accept;
\* after a failure B sleeps for two seconds.
Connect ==
    /\ b = "connecting" /\ ~connected /\ i < Attempts
    /\ IF a = "listening" THEN connected' = TRUE /\ UNCHANGED i
                          ELSE i' = i + 1 /\ UNCHANGED connected
    /\ UNCHANGED <<a, b, epoch>>

\* Lab1-linux/protocol.c compares with 6 after 60 attempts.
gives_up == i = Attempts

\* B's loop is over.
Connected ==
    /\ b = "connecting" /\ (connected \/ i = Attempts)
    /\ IF gives_up THEN b' = "aborted" /\ UNCHANGED epoch
                   ELSE b' = "running" /\ epoch' = TRUE
    /\ UNCHANGED <<a, i, connected>>

\* accept, then recv of the epoch.
Accept ==
    /\ a = "listening" /\ connected
    /\ epoch
    /\ a' = "running"
    /\ UNCHANGED <<b, i, connected, epoch>>

Connecting == Listen \/ Connect \/ Connected \/ Accept

running == a = "running" /\ b = "running"
=============================================================================
