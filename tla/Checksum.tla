------------------------------ MODULE Checksum ------------------------------
(***************************************************************************)
(* The checksum of the frames: crc32 with its table, put_frame, which      *)
(* stores its result behind the frame, and the test of every protocol on   *)
(* a received frame, over the bits that the library puts on the line, hits *)
(* with noise and assembles into bytes again.                              *)
(*                                                                         *)
(* A byte is the set of its bits that are 1, counted from 0, and so is the *)
(* register of 32 bits; exclusive or is then the symmetric difference.     *)
(*                                                                         *)
(* One station puts its frames, then the other takes in the line that they *)
(* make.  When the bytes of the line travel is the matter of the module    *)
(* PhysicalLayer; the checksum does not depend on it.                      *)
(***************************************************************************)
EXTENDS Integers, Sequences, FiniteSets, SequencesExt

CONSTANTS Traffic,      \* the sequences of frames that a station may put
          FrameBuffer,  \* what recv_frame is given: the longest frame, rounded
          HitBits,      \* bound: the bits that noise inverts
          MaxHits,      \* bound: the bytes of the line that it hits
          None          \* no frame, no byte

VARIABLES
    frames,    \* frames to be put, without their checksums
    sent,      \* frames that were put, with them
    line,      \* the bytes on the line
    hit,       \* the places of the line that noise hit
    rf,        \* frames received, from rf_head on
    taken,     \* frames that the protocol took for good
    pc,        \* who called crc32, if it runs
    frame,     \* its frame
    left,      \* the bytes of it that it has not read
    crc        \* its register

vars == <<frames, sent, line, hit, rf, taken, pc, frame, left, crc>>

Xor(s, t) == (s \ t) \cup (t \ s)

Init ==
    /\ frames \in Traffic /\ sent = <<>>
    /\ line = <<>> /\ hit = {} /\ rf = <<>> /\ taken = <<>>
    /\ pc = "idle" /\ frame = <<>> /\ left = <<>> /\ crc = {}

(***************************************************************************)
(* crc32.                                                                  *)
(***************************************************************************)
bits(hi, lo) == {k \in 0 .. 31 : IF k < 16 THEN (lo \div 2^k) % 2 = 1
                                 ELSE (hi \div 2^(k - 16)) % 2 = 1}

\* The entries 1, 2, 4, ..., 128 of the table.
rows == <<bits(\h7707, \h3096), bits(\hee0e, \h612c), bits(\h076d, \hc419),
          bits(\h0edb, \h8832), bits(\h1db7, \h1064), bits(\h3b6e, \h20c8),
          bits(\h76dc, \h4190), bits(\hedb8, \h8320)>>

\* A slip: a digit of the table is wrong.
crc_table_misprinted ==
    [byte \in SUBSET (0 .. 7) |->
        FoldFunctionOnSet(Xor, {}, [rows EXCEPT ![4] = bits(\h0edb, \h8822)],
                          {k + 1 : k \in byte})]

\* In the source every entry is the exclusive or of the entries of its bits.
crc_table ==
    [byte \in SUBSET (0 .. 7) |-> FoldFunctionOnSet(Xor, {}, rows, {k + 1 : k \in byte})]

low_byte(s) == s \cap 0 .. 7
right8(s) == {k - 8 : k \in s \ (0 .. 7)}

DO1(s, byte) == Xor(crc_table[low_byte(Xor(s, byte))], right8(s))

\* The call, and the two loops: eight bytes at a time, then one at a time.
crc32(caller, f) == pc' = caller /\ frame' = f /\ left' = f /\ crc' = 0 .. 31

calls == pc \in {"put", "check"}

EightBytes ==
    /\ calls /\ Len(left) >= 8
    /\ crc' = FoldLeft(DO1, crc, SubSeq(left, 1, 8))
    /\ left' = SubSeq(left, 9, Len(left))
    /\ UNCHANGED <<frames, sent, line, hit, rf, taken, pc, frame>>

OneByte ==
    /\ calls /\ Len(left) \in 1 .. 7
    /\ crc' = DO1(crc, Head(left)) /\ left' = Tail(left)
    /\ UNCHANGED <<frames, sent, line, hit, rf, taken, pc, frame>>

(***************************************************************************)
(* The frames, without their checksums, and put_frame and send_frame.      *)
(***************************************************************************)
FRAME_DATA == 1
FRAME_ACK == 2
FRAME_NAK == 3

uchar(n) == bits(0, n)

data_frame(seq, ack, data) == <<uchar(FRAME_DATA), uchar(ack), uchar(seq)>> \o data
ack_frame(ack) == <<uchar(FRAME_ACK), uchar(ack)>>
nak_frame(ack) == <<uchar(FRAME_NAK), uchar(ack)>>

nth_byte(s, n) == {k \in 0 .. 7 : k + 8 * n \in s}

\* An unsigned int in memory: its lowest byte first.
stored(s) == [n \in 1 .. 4 |-> nth_byte(s, n - 1)]

delimiter == 0 .. 7
nibbles(byte) == <<byte \cap 0 .. 3, {k - 4 : k \in byte \ (0 .. 3)}>>

on_line(f) ==
    <<delimiter>> \o FlattenSeq([n \in DOMAIN f |-> nibbles(f[n])]) \o <<delimiter>>

put_frame ==
    /\ pc = "idle" /\ frames # <<>>
    /\ crc32("put", Head(frames)) /\ frames' = Tail(frames)
    /\ UNCHANGED <<sent, line, hit, rf, taken>>

put_frame_sends ==
    /\ pc = "put" /\ left = <<>>
    /\ LET f == frame \o stored(crc)
       IN  sent' = Append(sent, f) /\ line' = line \o on_line(f)
    /\ pc' = "idle"
    /\ UNCHANGED <<frames, hit, rf, taken, frame, left, crc>>

(***************************************************************************)
(* Noise, and the bytes of the received frames.                            *)
(***************************************************************************)
on_the_line == pc = "idle" /\ frames = <<>> /\ line # <<>>

\* One bit of a byte, unless its low half is 0; a byte is in one block, and
\* noise hits one byte of a block at most.
Noise ==
    /\ on_the_line /\ Cardinality(hit) < MaxHits
    /\ \E p \in DOMAIN line, k \in HitBits :
          /\ \A q \in hit : q < p
          /\ line[p] \cap 0 .. 3 # {}
          /\ line' = [line EXCEPT ![p] = Xor(@, {k})]
          /\ hit' = hit \cup {p}
    /\ UNCHANGED <<frames, sent, rf, taken, pc, frame, left, crc>>

\* frame[len] |= (ch << 4) ^ (ch & 0xf0)
joined(first, ch) == first \cup Xor({k + 4 : k \in ch \cap 0 .. 3}, ch \ (0 .. 3))

\* buf is the frame that is received and the byte it has half of, or None.
take_byte(s, ch) ==
    IF ch = delimiter
    THEN IF s.buf = None THEN [s EXCEPT !.buf = [bytes |-> <<>>, first |-> None]]
         ELSE IF s.buf.bytes # <<>> THEN [buf |-> None, rf |-> Append(s.rf, s.buf.bytes)]
         ELSE s
    ELSE IF s.buf = None THEN s
    ELSE IF s.buf.first = None THEN [s EXCEPT !.buf.first = ch]
    ELSE [s EXCEPT !.buf = [bytes |-> Append(@.bytes, joined(@.first, ch)), first |-> None]]

Receive ==
    /\ on_the_line
    /\ rf' = FoldLeft(take_byte, [buf |-> None, rf |-> <<>>], line).rf
    /\ line' = <<>>
    /\ UNCHANGED <<frames, sent, hit, taken, pc, frame, left, crc>>

(***************************************************************************)
(* What a protocol does with FRAME_RECEIVED.                               *)
(***************************************************************************)
\* recv_frame ends the process when the frame is longer than its buffer.
recv_frame ==
    /\ pc = "idle" /\ rf # <<>>
    /\ rf' = Tail(rf)
    /\ IF Len(Head(rf)) > FrameBuffer THEN pc' = "aborted" /\ UNCHANGED <<frame, left, crc>>
       ELSE crc32("check", Head(rf))
    /\ UNCHANGED <<frames, sent, line, hit, taken>>

\* A slip: && in place of ||.
is_bad_if_short(len, s) == len < 5 /\ s # {}

is_bad(len, s) == len < 5 \/ s # {}

frame_checked ==
    /\ pc = "check" /\ left = <<>>
    /\ taken' = IF is_bad(Len(frame), crc) THEN taken ELSE Append(taken, frame)
    /\ pc' = "idle"
    /\ UNCHANGED <<frames, sent, line, hit, rf, frame, left, crc>>

Next == \/ put_frame \/ EightBytes \/ OneByte \/ put_frame_sends
        \/ Noise \/ Receive \/ recv_frame \/ frame_checked

Spec == Init /\ [][Next]_vars

(***************************************************************************)
(* The checksum as the comment of crc32.c has it: a remainder of           *)
(* polynomials over two elements, each the set of its exponents.  The bits *)
(* of a frame are coefficients, the low bit of a byte before the high one, *)
(* and the first 32 of them are inverted.                                  *)
(***************************************************************************)
Polynomial == {32, 26, 23, 22, 16, 12, 11, 10, 8, 7, 5, 4, 2, 1, 0}

Times(s, d) == {e + d : e \in s}

Dividend(f) ==
    Xor(UNION {{32 + 8 * Len(f) - 8 * (n - 1) - k - 1 : k \in f[n]} : n \in DOMAIN f},
        Times(0 .. 31, 8 * Len(f)))

Remainder(s, degree) ==
    LET divided[d \in 31 .. degree] ==
            LET r == IF d = degree THEN s ELSE divided[d + 1]
            IN  IF d > 31 /\ d \in r THEN Xor(r, Times(Polynomial, d - 32)) ELSE r
    IN  divided[31]

(***************************************************************************)
(* After every turn of its loops crc32 holds the remainder of the bytes it *)
(* has read, the low bit for the highest power: in the loop over eight, in *)
(* the one over single bytes, and over a frame with its checksum too.      *)
(***************************************************************************)
RemainderOfPolynomial ==
    calls =>
        LET f == SubSeq(frame, 1, Len(frame) - Len(left))
        IN  crc = {31 - e : e \in Remainder(Dividend(f), 31 + 8 * Len(f))}

\* Nothing is left to be put, received or looked at.
all_done == pc = "idle" /\ frames = <<>> /\ line = <<>> /\ rf = <<>>

(***************************************************************************)
(* What a protocol takes for good is a frame that was put, with every bit  *)
(* of it, whatever bytes noise hit: bits of the frame, of its checksum, a  *)
(* delimiter, or both delimiters between two frames, which join them to    *)
(* one that fits the buffer if they are short.  And a frame that noise     *)
(* left alone, with its delimiters and the one before it, is taken: sender *)
(* and receiver agree on the bytes of the checksum and on their place.     *)
(***************************************************************************)
TakesWhatWasPut ==
    /\ ToSet(taken) \subseteq ToSet(sent)
    /\ all_done =>
          \A m \in DOMAIN sent :
              LET closing(n) == Len(FlattenSeq([j \in 1 .. n |-> on_line(sent[j])]))
              IN  (closing(m - 1) .. closing(m)) \cap hit = {} => sent[m] \in ToSet(taken)

=============================================================================
