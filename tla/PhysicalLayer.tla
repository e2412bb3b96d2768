--------------------------- MODULE PhysicalLayer ---------------------------
(***************************************************************************)
(* The physical layer of the simulation library, in one direction: station *)
(* A puts frames into its send queue, byte by byte between delimiters, and *)
(* the queue drains at the rate of the channel; station B reads blocks,    *)
(* imposes noise on them, holds them for the delay of the channel and      *)
(* finds the frames in them.  Both stations turn the loop of               *)
(* wait_for_event; what is kept of the clock is the time since A's last    *)
(* turn and since it last sent, and the time left to its timers and to the *)
(* blocks B holds.                                                         *)
(*                                                                         *)
(* The data link layer sees of all this what the module DataLink says:     *)
(* frames that arrive, are lost or are damaged, and timers.                *)
(*                                                                         *)
(* Every line byte is known by its place in all that A ever sends; a frame *)
(* of n bytes has 2n line bytes, one per nibble, between two delimiters.   *)
(***************************************************************************)
EXTENDS Connection, Sequences, SequencesExt, FiniteSets

CONSTANTS FrameLen,     \* bytes of a frame
          MaxFrames,    \* bound: frames A sends
          SQ_SIZE,      \* size of the ring buffer of the send queue
          RATE,         \* line bytes per unit of time
          LINE_TIME,    \* what start_timer reckons per byte of the queue
          TIMER,        \* the time a frame's timer is started with
          CHAN_DELAY,   \* how long a block is held
          BLKSIZE,      \* line bytes of a block at most
          PHL_SQ_LEVEL, \* a queue shorter than this takes a frame
          MaxLag,       \* bound: time between two calls of socket_send
          MaxHits,      \* bound: bytes that noise changes
          None          \* no buffer, no event, no timer

ASSUME Sizes ==
    /\ FrameLen \in Nat \ {0} /\ MaxFrames \in Nat /\ SQ_SIZE \in Nat \ {0, 1}
    /\ RATE \in Nat \ {0} /\ BLKSIZE \in Nat \ {0}
    /\ TIMER \in Nat /\ CHAN_DELAY \in Nat
    \* 8000 / CHAN_BPS ms per line byte; the queue drains two bytes per ms.
    /\ LINE_TIME \in Nat /\ RATE * LINE_TIME >= 1

ASSUME NoneDiffers == None \notin Nat \cup Seq(Nat)

VARIABLES
    \* station A
    lag,         \* time since A took its sample "now" in its last turn, None
                 \* before the first one
    since,       \* time since last_ts of socket_send, None before the first call
    allowed,     \* send_bytes_allowed
    sq, sq_head, sq_tail,    \* the ring buffer
    inform_phl_ready,
    timer,       \* time left to the timer of a frame, None if it is stopped
    frames,      \* frames sent
    event,       \* wait_for_event has returned to A's protocol
    \* the TCP connection and station B
    wire,        \* bytes on the way
    blocks,      \* blocks received, and the time left to their commit_ts
    rf_buf,      \* the frame that is being received, None or its bytes
    rf,          \* frames received, from rf_head on
    given,       \* frames given to B's protocol
    report,      \* FRAME_RECEIVED was returned and not followed up
    hit          \* bytes that noise changed

avars == <<lag, since, allowed, sq, sq_head, sq_tail, inform_phl_ready,
           timer, frames, event>>
bvars == <<blocks, rf_buf, rf, given, report, hit>>
vars == <<cvars, avars, wire, bvars>>

Span == 2 * FrameLen + 2

\* The bytes of a frame, and whose byte a place is.
opening(f) == Span * (f - 1) + 1
closing(f) == Span * f
nibbles(f) == opening(f) + 1 .. closing(f) - 1
delimiters == {opening(f) : f \in 1 .. MaxFrames} \cup {closing(f) : f \in 1 .. MaxFrames}

Init ==
    /\ ConnectionInit
    /\ lag = None /\ since = None /\ allowed = 0
    /\ sq = [n \in 0 .. SQ_SIZE - 1 |-> None] /\ sq_head = 0 /\ sq_tail = 0
    /\ inform_phl_ready = TRUE
    /\ timer = [f \in 1 .. MaxFrames |-> None]
    /\ frames = 0 /\ event = FALSE
    /\ wire = <<>>
    /\ blocks = <<>> /\ rf_buf = None /\ rf = <<>>
    /\ given = <<>> /\ report = FALSE /\ hit = {}

\* A unit of time passes; a time that has run out stays at 0.
minus(t, u) == IF t > u THEN t - u ELSE 0

Tick ==
    /\ running /\ lag # None /\ since < MaxLag
    /\ lag' = lag + 1 /\ since' = since + 1
    /\ timer' = [f \in DOMAIN timer |-> IF timer[f] = None THEN None ELSE minus(timer[f], 1)]
    /\ blocks' = [n \in DOMAIN blocks |-> [blocks[n] EXCEPT !.left = minus(@, 1)]]
    /\ UNCHANGED <<cvars, allowed, sq, sq_head, sq_tail, inform_phl_ready, frames, event,
                   wire, rf_buf, rf, given, report, hit>>

(***************************************************************************)
(* Station A: send_byte, send_frame, start_timer.                          *)
(***************************************************************************)
sq_len == (sq_tail + SQ_SIZE - sq_head) % SQ_SIZE

\* The state of the queue and of the line as a record that send_byte maps.
queue == [sq |-> sq, tail |-> sq_tail, allowed |-> allowed, wire |-> wire, full |-> FALSE]

into(q, p) ==
    IF (q.tail + SQ_SIZE - sq_head) % SQ_SIZE = SQ_SIZE - 1
    THEN [q EXCEPT !.full = TRUE]
    ELSE [q EXCEPT !.sq[q.tail] = p, !.tail = (@ + 1) % SQ_SIZE]

onto(q, p) == [q EXCEPT !.wire = Append(@, p), !.allowed = @ - 1]

send_byte(q, p) == IF q.allowed > 0 /\ q.tail = sq_head THEN onto(q, p) ELSE into(q, p)

\* The queue after n bytes of frame f; the process ends when the ring is full.
send_frame(f) ==
    LET sent[n \in 0 .. Span] ==
            IF n = 0 THEN queue
            ELSE IF sent[n - 1].full THEN sent[n - 1]
            ELSE send_byte(sent[n - 1], closing(f - 1) + n)
    IN  sent[Span]

\* A slip: the timer runs from now.
time_left_from_now(length) == minus(TIMER, lag)

\* start_timer: counted from when the queue will have drained, and from the
\* sample of the time that A's last turn took.
time_left(length) == minus(length * LINE_TIME + TIMER, lag)

\* What the protocols do when they send a data frame, between an event and
\* the next call of wait_for_event.
SendFrame ==
    /\ event /\ a = "running" /\ frames < MaxFrames
    /\ LET f == frames + 1
           q == send_frame(f)
           length == (q.tail + SQ_SIZE - sq_head) % SQ_SIZE
       IN  /\ sq' = q.sq /\ sq_tail' = q.tail /\ allowed' = q.allowed /\ wire' = q.wire
           /\ IF q.full
              THEN a' = "aborted" /\ UNCHANGED <<timer, frames>>
              ELSE /\ frames' = f
                   /\ timer' = [timer EXCEPT ![f] = time_left(length)]
                   /\ UNCHANGED a
    /\ inform_phl_ready' = TRUE
    /\ UNCHANGED <<b, i, connected, epoch, lag, since, sq_head, event, bvars>>

(***************************************************************************)
(* Station A: a turn of wait_for_event.                                    *)
(***************************************************************************)
least(m, n) == IF m <= n THEN m ELSE n

\* Nothing is sent by the first call, which starts the count, or when no time
\* has passed.
may_send == since # None /\ since # 0
sent_now == IF may_send THEN least(sq_len, RATE * since) ELSE 0

\* The bytes from sq_head on, in two parts if the ring comes round.
drained == [n \in 1 .. sent_now |-> sq[(sq_head + n - 1) % SQ_SIZE]]

socket_send ==
    /\ wire' = wire \o drained
    /\ sq_head' = (sq_head + sent_now) % SQ_SIZE
    /\ allowed' = IF may_send THEN RATE * since - sent_now ELSE allowed
    /\ since' = 0

\* select finds that the connection takes no bytes now.  In the first turn, when
\* none were sent, it does.
not_writable == lag # None /\ UNCHANGED <<wire, sq_head, allowed, since>>

due == {f \in 1 .. MaxFrames : timer[f] = 0}

\* scan_timer: the first timer that is due.
expires == IF due = {} THEN None ELSE CHOOSE f \in due : \A g \in due : f <= g

\* The network layer is ready when its rate lets it; then no timer is looked
\* at in this turn.
TurnA ==
    /\ running
    /\ lag' = 0
    /\ socket_send \/ not_writable
    /\ \/ event' = TRUE /\ UNCHANGED <<timer, inform_phl_ready>>
       \/ /\ expires # None
          /\ event' = TRUE
          /\ timer' = [timer EXCEPT ![expires] = None]
          /\ UNCHANGED inform_phl_ready
       \/ /\ expires = None
          /\ IF inform_phl_ready /\ (sq_tail + SQ_SIZE - sq_head') % SQ_SIZE < PHL_SQ_LEVEL
             THEN event' = TRUE /\ inform_phl_ready' = FALSE
             ELSE event' = FALSE /\ UNCHANGED inform_phl_ready
          /\ UNCHANGED timer
    /\ UNCHANGED <<cvars, sq, sq_tail, frames, bvars>>

(***************************************************************************)
(* Station B: recv_byte and the finding of frames.                         *)
(***************************************************************************)
\* Noise makes no delimiter of another byte, and none of a delimiter.
is_delimiter(p) == p \in delimiters /\ p \notin hit

\* Whole bytes of a buffer; a nibble without its second half does not count.
length_of(buf) == Len(buf) \div 2

\* A slip: a delimiter that follows another ends a frame of no bytes.
frame_ends_always(buf) == TRUE

\* Two delimiters that touch do not enclose a frame: the second begins one.
frame_ends(buf) == length_of(buf) > 0

\* A slip: rf_buf is not reset when its frame is queued.
take_byte_keeps(s, p) ==
    IF is_delimiter(p)
    THEN IF s.buf = None THEN [s EXCEPT !.buf = <<>>]
         ELSE IF frame_ends(s.buf) THEN [s EXCEPT !.rf = Append(@, s.buf)]
         ELSE s
    ELSE IF s.buf = None THEN s
    ELSE [s EXCEPT !.buf = Append(@, p)]

\* One byte, into the frame that is being received.
take_byte(s, p) ==
    IF is_delimiter(p)
    THEN IF s.buf = None THEN [s EXCEPT !.buf = <<>>]
         ELSE IF frame_ends(s.buf) THEN [buf |-> None, rf |-> Append(s.rf, s.buf)]
         ELSE s
    ELSE IF s.buf = None THEN s
    ELSE [s EXCEPT !.buf = Append(@, p)]

\* The frames after n bytes of a block.
taken(data) ==
    LET after[n \in 0 .. Len(data)] ==
            IF n = 0 THEN [buf |-> rf_buf, rf |-> rf]
            ELSE take_byte(after[n - 1], data[n])
    IN  after[Len(data)]

\* The block that is due is taken in, if one is.
committed == IF blocks # <<>> /\ Head(blocks).left = 0 THEN taken(Head(blocks).data)
             ELSE [buf |-> rf_buf, rf |-> rf]

\* socket_recv: one block, one byte of it hit at most.
socket_recv(held) ==
    IF wire = <<>> THEN blocks' = held /\ UNCHANGED <<wire, hit>>
    ELSE LET n == least(Len(wire), BLKSIZE)
             data == SubSeq(wire, 1, n)
         IN  /\ wire' = SubSeq(wire, n + 1, Len(wire))
             /\ blocks' = Append(held, [left |-> CHAN_DELAY, data |-> data])
             /\ \/ UNCHANGED hit
                \/ Cardinality(hit) < MaxHits /\ \E p \in ToSet(data) : hit' = hit \cup {p}

\* FRAME_RECEIVED is returned before anything is read from the connection.
\* Frames that an earlier block left behind are reported only with a block.
TurnB ==
    /\ running /\ ~report
    /\ LET due_block == blocks # <<>> /\ Head(blocks).left = 0
           held == IF due_block THEN Tail(blocks) ELSE blocks
       IN  /\ rf_buf' = committed.buf /\ rf' = committed.rf
           /\ report' = (due_block /\ committed.rf # <<>>)
           /\ IF report' THEN blocks' = held /\ UNCHANGED <<wire, hit>>
                         ELSE socket_recv(held)
    /\ UNCHANGED <<cvars, avars, given>>

\* recv_frame, which every protocol calls once for the event, with a buffer
\* that takes its longest frame.
RecvFrame ==
    /\ report
    /\ report' = FALSE
    /\ given' = Append(given, Head(rf)) /\ rf' = Tail(rf)
    /\ b' = IF length_of(Head(rf)) > FrameLen THEN "stopped" ELSE b
    /\ UNCHANGED <<a, i, connected, epoch, avars, wire, blocks, rf_buf, hit>>

Connects == Connecting /\ UNCHANGED <<avars, wire, bvars>>

Next == Connects \/ Tick \/ SendFrame \/ TurnA \/ TurnB \/ RecvFrame

Spec == Init /\ [][Next]_vars

(***************************************************************************)
(* Properties.                                                             *)
(***************************************************************************)
queued == {sq[(sq_head + n) % SQ_SIZE] : n \in 0 .. sq_len - 1}
on_the_way == queued \cup ToSet(wire) \cup UNION {ToSet(blocks[n].data) : n \in DOMAIN blocks}

arrived == given \o rf

\* What was received is the bytes of frame f as they were sent.
intact(received, f) ==
    /\ SubSeq(received, 1, 2 * length_of(received)) =
          [n \in 1 .. 2 * FrameLen |-> opening(f) + n]
    /\ nibbles(f) \cap hit = {}

(***************************************************************************)
(* Frames that come through whole come in the order in which they were     *)
(* sent, and once: through the ring buffer, the bytes that skip it, the    *)
(* two-part send, the blocks and the delimiters.                           *)
(***************************************************************************)
FramesInOrder ==
    \A m, n \in DOMAIN arrived : \A f, g \in 1 .. MaxFrames :
        (m < n /\ intact(arrived[m], f) /\ intact(arrived[n], g)) => f < g

(***************************************************************************)
(* Whatever noise did to earlier frames, one that it leaves alone arrives  *)
(* as it was sent if it also left the delimiter alone that ends the frame  *)
(* before: the receiver finds its way back to the frames.                  *)
(***************************************************************************)
Resynchronises ==
    \A f \in 1 .. frames :
        (/\ closing(f) \notin on_the_way
         /\ (closing(f - 1) .. closing(f)) \cap hit = {}) =>
            \E n \in DOMAIN arrived : intact(arrived[n], f)

(***************************************************************************)
(* A timer that is started for a frame does not expire before the last     *)
(* byte of the frame has left the send queue, however long the queue is,   *)
(* however seldom the loop of wait_for_event turns and however long the    *)
(* connection took nothing before this turn.  While it takes nothing,      *)
(* timers do expire over frames that wait: start_timer allows for the rate *)
(* of the line only.                                                       *)
(***************************************************************************)
TimersOutlastQueue ==
    [][since' = 0 =>
          \A f \in 1 .. MaxFrames :
              (timer[f] # None /\ timer'[f] = None) => closing(f) \notin queued']_vars

(***************************************************************************)
(* Station B goes on exactly if it is connected, and station A only once   *)
(* it has the epoch of B's clock.                                          *)
(***************************************************************************)
StartsConnected ==
    /\ b \in {"running", "stopped"} => connected
    /\ b = "aborted" => ~connected
    /\ a = "running" => epoch

=============================================================================
