------------------------------ MODULE DnsName ------------------------------
(***************************************************************************)
(* dns_packet.c: the two loops that read a name of a DNS message,          *)
(* decode_name and skip_name_at, one step for every turn of the loop.      *)
(*                                                                         *)
(* A name is a chain of labels, each led by its length, that ends in a     *)
(* zero byte or jumps to another offset of the message.  A message is the  *)
(* sequence of the bytes of one datagram; offsets count from 0, as in C.   *)
(***************************************************************************)
EXTENDS Naturals, Sequences

Byte == 0 .. 255

CONSTANTS DNS_NAME_JUMP_MAX,   \* pointers followed in one name
          NAME_CAP,            \* sizeof of the buffers that take a name
          Garbage              \* what a buffer may hold that nothing was
                               \* written to, up to its first zero

ASSUME NameLimits == /\ DNS_NAME_JUMP_MAX \in Nat /\ NAME_CAP \in Nat \ {0}
                     /\ Garbage \subseteq Seq(Byte)

VARIABLES
    pkt,    \* the datagram
    cur     \* the locals of the loop that reads a name

len == Len(pkt)

\* A byte of the datagram.  The code would read the rest of its buffer past
\* the end; InBounds (DnsMessage) says that it never looks there.
byte(i) == IF i < len THEN pkt[i + 1] ELSE 0
word(i) == 256 * byte(i) + byte(i + 1)

\* jump_return is 0 until the first jump: the code's flag "jumped".
start(at) == [offset |-> at, pos |-> at, out |-> <<>>, jumps |-> 0,
              jump_return |-> 0, status |-> "reading"]

consumed == IF cur.jump_return = 0 THEN cur.pos + 1 - cur.offset
                                   ELSE cur.jump_return - cur.offset

reading == cur.status = "reading"

(***************************************************************************)
(* The head of what comes next.                                            *)
(***************************************************************************)
at_end == cur.pos < len /\ byte(cur.pos) = 0
at_pointer == cur.pos < len /\ byte(cur.pos) >= 192
at_label == cur.pos < len /\ byte(cur.pos) \in 1 .. 63

ptr == 256 * (byte(cur.pos) % 64) + byte(cur.pos + 1)

may_jump == /\ cur.pos + 1 < len
            /\ cur.jumps < DNS_NAME_JUMP_MAX
            /\ ptr < len

label == [n \in 1 .. byte(cur.pos) |-> byte(cur.pos + n)]

\* The text with the label that comes next; 46 is the dot.
longer == IF cur.out = <<>> THEN label ELSE Append(cur.out, 46) \o label

\* A slip: a label may reach past the end of the datagram.
whole_or_not == TRUE

whole == cur.pos + 1 + byte(cur.pos) <= len

\* The text is kept by decode_name only.
has_room(keeps) == keeps => Len(longer) < NAME_CAP

(***************************************************************************)
(* The turns of the loop.                                                  *)
(***************************************************************************)
\* A slip: what follows the name is looked for behind its last pointer.
FollowPointer_and_forget ==
    /\ at_pointer /\ may_jump
    /\ cur' = [cur EXCEPT !.pos = ptr, !.jumps = @ + 1, !.jump_return = cur.pos + 2]

\* A slip: the pointers followed are not counted.
FollowPointer_uncounted ==
    /\ at_pointer /\ may_jump
    /\ cur' = [cur EXCEPT !.pos = ptr,
                          !.jump_return = IF @ = 0 THEN cur.pos + 2 ELSE @]

FollowPointer ==
    /\ at_pointer /\ may_jump
    /\ cur' = [cur EXCEPT !.pos = ptr, !.jumps = @ + 1,
                          !.jump_return = IF @ = 0 THEN cur.pos + 2 ELSE @]

TakeLabel(keeps) ==
    /\ at_label /\ whole /\ has_room(keeps)
    /\ cur' = [cur EXCEPT !.pos = @ + 1 + byte(@),
                          !.out = IF keeps THEN longer ELSE @]

NameEnds ==
    /\ at_end
    /\ cur' = [cur EXCEPT !.status = "read"]

\* A label that has no room leaves its dot in the buffer, in the place of the
\* terminating zero: the text goes on with what the buffer held.
dot_written(keeps) == /\ keeps /\ at_label /\ whole
                      /\ cur.out # <<>> /\ Len(cur.out) + 1 < NAME_CAP

NameFails(keeps) ==
    /\ ~at_end
    /\ ~(at_pointer /\ may_jump)
    /\ ~(at_label /\ whole /\ has_room(keeps))
    /\ \E rest \in Garbage :
          cur' = [cur EXCEPT !.status = "failed",
                             !.out = IF dot_written(keeps)
                                     THEN Append(@, 46) \o rest ELSE @]

\* One turn of decode_name (keeps) or skip_name_at.
NameStep(keeps) ==
    /\ reading
    /\ FollowPointer \/ TakeLabel(keeps) \/ NameEnds \/ NameFails(keeps)

(***************************************************************************)
(* Names as the code compares them: C strings in lower case.               *)
(***************************************************************************)
c_string(s) == IF \E n \in DOMAIN s : s[n] = 0
               THEN SubSeq(s, 1, (CHOOSE n \in DOMAIN s :
                                     /\ s[n] = 0
                                     /\ \A m \in 1 .. n - 1 : s[m] # 0) - 1)
               ELSE s

lowered(s) == [n \in DOMAIN s |-> IF s[n] \in 65 .. 90 THEN s[n] + 32 ELSE s[n]]

qname_to_lower(s) == lowered(c_string(s))
=============================================================================
