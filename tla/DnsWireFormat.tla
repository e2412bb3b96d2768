--------------------------- MODULE DnsWireFormat ---------------------------
(***************************************************************************)
(* What a DNS message says, defined by recursion on the message and        *)
(* without loops, buffers or early returns: the reference the readers of   *)
(* dns_packet.c (DnsMessage) are compared with.                            *)
(***************************************************************************)
EXTENDS Naturals, Sequences

CONSTANTS MaxJumps,   \* pointers followed in one name
          Bad         \* there is no such name or record

At(m, i) == m[i + 1]
Word(m, i) == 256 * At(m, i) + At(m, i + 1)

(***************************************************************************)
(* The labels of the name at an offset, or Bad.                            *)
(***************************************************************************)
RECURSIVE Labels(_, _, _)
Labels(m, o, jumps) ==
    IF o >= Len(m) THEN Bad
    ELSE IF At(m, o) = 0 THEN <<>>
    ELSE IF At(m, o) >= 192
         THEN IF o + 1 >= Len(m) \/ jumps = 0 THEN Bad
              ELSE Labels(m, 256 * (At(m, o) - 192) + At(m, o + 1), jumps - 1)
    ELSE IF At(m, o) >= 64 \/ o + 1 + At(m, o) > Len(m) THEN Bad
    ELSE LET rest == Labels(m, o + 1 + At(m, o), jumps)
         IN  IF rest = Bad THEN Bad
             ELSE <<SubSeq(m, o + 2, o + 1 + At(m, o))>> \o rest

Name(m, o) == Labels(m, o, MaxJumps)

\* Where what follows the name at an offset begins.
RECURSIVE Behind(_, _)
Behind(m, o) ==
    IF At(m, o) = 0 THEN o + 1
    ELSE IF At(m, o) >= 192 THEN o + 2
    ELSE Behind(m, o + 1 + At(m, o))

RECURSIVE Text(_)
Text(labels) ==
    IF labels = <<>> THEN <<>>
    ELSE IF Len(labels) = 1 THEN Head(labels)
    ELSE Head(labels) \o <<46>> \o Text(Tail(labels))

(***************************************************************************)
(* The records from an offset on, or Bad if one cannot be read.            *)
(***************************************************************************)
Record(m, o) ==
    LET at == Behind(m, o)
    IN  IF Name(m, o) = Bad \/ at + 10 > Len(m) THEN Bad
        ELSE IF at + 10 + Word(m, at + 8) > Len(m) THEN Bad
        ELSE [name |-> Text(Name(m, o)), type |-> Word(m, at),
              class |-> Word(m, at + 2), ttl |-> SubSeq(m, at + 5, at + 8),
              data |-> SubSeq(m, at + 11, at + 10 + Word(m, at + 8)),
              at |-> at + 10]

RECURSIVE Records(_, _, _)
Records(m, o, n) ==
    IF n = 0 THEN <<>>
    ELSE LET r == IF o < Len(m) THEN Record(m, o) ELSE Bad
         IN  IF r = Bad THEN Bad
             ELSE LET rest == Records(m, r.at + Len(r.data), n - 1)
                  IN  IF rest = Bad THEN Bad ELSE <<r>> \o rest

\* The offset behind n questions from an offset on, or Bad.
RECURSIVE Questions(_, _, _)
Questions(m, o, n) ==
    IF n = 0 THEN o
    ELSE IF Name(m, o) = Bad THEN Bad
    ELSE IF Behind(m, o) + 4 > Len(m) THEN Bad
    ELSE Questions(m, Behind(m, o) + 4, n - 1)

\* The records of the answer section, or Bad.
Answers(m) ==
    IF Len(m) < 12 THEN Bad
    ELSE LET o == Questions(m, 12, Word(m, 4))
         IN  IF o = Bad THEN Bad ELSE Records(m, o, Word(m, 6))
=============================================================================
