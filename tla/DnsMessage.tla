----------------------------- MODULE DnsMessage -----------------------------
(***************************************************************************)
(* dns_packet.c: what the relay reads from one datagram and what it        *)
(* writes for it.  A query is parsed and, if it asks for an address, is    *)
(* answered from the name list or the cache.  From an answer of the        *)
(* upstream server the address of the name that was asked for is           *)
(* extracted, in two passes over the records: one for the name's CNAME,    *)
(* one for the address of the name or of that CNAME.                       *)
(***************************************************************************)
EXTENDS DnsName

CONSTANTS UDP_BUF_SIZE,   \* size of the buffer a reply is built in
          Job,            \* datagrams: [kind, pkt, want, verdict]
          Dropped         \* nothing was read

ASSUME JobType ==
    \A j \in Job : /\ j.kind \in {"query", "answer"}
                   /\ j.pkt \in Seq(Byte)
                   /\ j.want \in Seq(Byte)      \* the name that was asked for
                   \* blocked, or an address
                   /\ j.verdict \in {<<>>} \cup {v \in Seq(Byte) : Len(v) = 4}

ASSUME BufferSize == UDP_BUF_SIZE \in Nat

VARIABLES
    job,            \* the rest of what the datagram comes with
    stage,          \* the loop that reads a name
    count,          \* i: questions or records behind us
    next,           \* offset of the record data a CNAME's target is read from,
                    \* then of the record that follows
    ans_offset,     \* offset of the first record
    cname_target,   \* text of the CNAME's target, <<>> if there is none
    result          \* what was read, once stage is "done"

mvars == <<pkt, cur, job, stage, count, next, ans_offset, cname_target, result>>

MessageInit ==
    /\ job \in Job
    /\ pkt = job.pkt
    /\ cur = start(0)
    /\ stage = "header"
    /\ count = 0 /\ next = 0 /\ ans_offset = 0
    /\ cname_target = <<>>
    /\ result = Dropped

id == SubSeq(pkt, 1, 2)
qdcount == word(4)
ancount == word(6)

\* The two ends of the work on a datagram.
return(r) ==
    /\ stage' = "done" /\ result' = r
    /\ UNCHANGED <<cur, count, next, ans_offset, cname_target>>

drop == return(Dropped)

\* The next turn, or the first, of a loop that begins with a name.
read_name(loop, i, at) ==
    stage' = loop /\ count' = i /\ cur' = start(at) /\ UNCHANGED result

(***************************************************************************)
(* The header.                                                             *)
(***************************************************************************)
header_ok ==
    /\ len >= 12 /\ qdcount >= 1
    /\ job.kind = "answer" =>
          /\ byte(2) >= 128           \* QR
          /\ byte(3) % 16 = 0         \* RCODE
          /\ ancount >= 1
          /\ Len(c_string(job.want)) < NAME_CAP

HeaderRead ==
    /\ stage = "header"
    /\ \/ ~header_ok /\ drop
       \/ /\ header_ok
          /\ read_name(IF job.kind = "query" THEN "question" ELSE "skip", 0, 12)
          /\ UNCHANGED <<next, ans_offset, cname_target>>

(***************************************************************************)
(* A turn of the loop that reads a name, and a name that cannot be read.   *)
(***************************************************************************)
NameTurn ==
    /\ stage \in {"question", "skip", "cnames", "target", "addresses"}
    /\ NameStep(stage # "skip")
    /\ UNCHANGED <<stage, count, next, ans_offset, cname_target, result>>

NameUnreadable ==
    /\ stage \in {"question", "skip", "cnames", "addresses"}
    /\ cur.status = "failed"
    /\ drop

name_read == cur.status = "read"
after_name == cur.offset + consumed

(***************************************************************************)
(* The replies of the relay.                                               *)
(***************************************************************************)
\* dns_packet_copy_header_and_question, with the counts it is called with.
header_and_question(qend, an_count, rcode) ==
    id \o << 128 + 8 * ((byte(2) % 128) \div 8) + (byte(2) % 2),
             16 * (byte(3) \div 16) + rcode >>
       \o SubSeq(pkt, 5, 6) \o <<0, an_count, 0, 0, 0, 0>>
       \o SubSeq(pkt, 13, qend)

\* Pointer to the question's name, type A, class IN, DNS_LOCAL_TTL, length.
a_record(ip) == <<192, 12, 0, 1, 0, 1, 0, 0, 0, 60, 0, 4>> \o ip

\* <<>>: nothing was built.
built(qend) ==
    IF job.verdict # <<>>
    THEN IF qend + 16 > UDP_BUF_SIZE THEN <<>>
         ELSE header_and_question(qend, 1, 0) \o a_record(job.verdict)
    ELSE IF qend > UDP_BUF_SIZE THEN <<>>
         ELSE header_and_question(qend, 0, 3)

(***************************************************************************)
(* dns_packet_parse_query, after the name, and the reply to a query of     *)
(* type A and class IN whose name is listed or cached.                     *)
(***************************************************************************)
QuestionRead ==
    /\ stage = "question" /\ name_read
    /\ LET at == after_name
       IN  \/ at + 4 > len /\ drop
           \/ /\ at + 4 <= len
              /\ return([id |-> id, qname |-> qname_to_lower(cur.out),
                         qtype |-> word(at), qclass |-> word(at + 2),
                         reply |-> IF word(at) = 1 /\ word(at + 2) = 1
                                   THEN built(at + 4) ELSE <<>>])

(***************************************************************************)
(* dns_packet_extract_a_for_qname.                                         *)
(***************************************************************************)
\* skip_questions, after a name.
QuestionSkipped ==
    /\ stage = "skip" /\ name_read
    /\ LET at == after_name + 4
       IN  \/ at > len /\ drop
           \/ /\ at <= len
              /\ \/ count + 1 < qdcount /\ read_name("skip", count + 1, at)
                                        /\ UNCHANGED ans_offset
                 \/ count + 1 >= qdcount /\ read_name("cnames", 0, at)
                                         /\ ans_offset' = at
              /\ UNCHANGED <<next, cname_target>>

\* The fixed part of the record whose name was read, and its data.
rtype == word(after_name)
rclass == word(after_name + 2)
ttl == SubSeq(pkt, after_name + 5, after_name + 8)
rdlen == word(after_name + 8)
rdata == after_name + 10

record_whole == rdata <= len /\ rdata + rdlen <= len

rname == qname_to_lower(cur.out)
want == qname_to_lower(job.want)

\* The first pass goes on with the record at an offset, or ends.
next_cname_record(at) ==
    \/ count + 1 < ancount /\ read_name("cnames", count + 1, at)
    \/ count + 1 >= ancount /\ read_name("addresses", 0, ans_offset)

CnameRecord ==
    /\ stage = "cnames" /\ name_read
    /\ \/ ~record_whole /\ drop
       \/ /\ record_whole
          /\ IF rtype = 5 /\ rclass = 1 /\ rname = want
             THEN /\ read_name("target", count, rdata)
                  /\ next' = rdata + rdlen
             ELSE next_cname_record(rdata + rdlen) /\ UNCHANGED next
          /\ UNCHANGED <<ans_offset, cname_target>>

\* What was read of a target that cannot be read stays in the buffer.
TargetRead ==
    /\ stage = "target" /\ ~reading
    /\ cname_target' = IF name_read THEN qname_to_lower(cur.out)
                                    ELSE c_string(cur.out)
    /\ next_cname_record(next)
    /\ UNCHANGED <<next, ans_offset>>

is_address == rtype = 1 /\ rclass = 1 /\ rdlen = 4

\* A slip: any name in the answer will do.
asked_for_or_not == TRUE

asked_for == rname = want \/ (cname_target # <<>> /\ rname = cname_target)

\* scan_answers_for_a, after a name.
AddressRecord ==
    /\ stage = "addresses" /\ name_read
    /\ \/ ~record_whole /\ drop
       \/ /\ record_whole /\ is_address /\ asked_for
          /\ return([ip |-> SubSeq(pkt, rdata + 1, rdata + 4), ttl |-> ttl])
       \/ /\ record_whole /\ ~(is_address /\ asked_for)
          /\ \/ count + 1 >= ancount /\ drop
             \/ /\ count + 1 < ancount
                /\ read_name("addresses", count + 1, rdata + rdlen)
                /\ UNCHANGED <<next, ans_offset, cname_target>>

MessageNext ==
    /\ \/ HeaderRead \/ NameTurn \/ NameUnreadable \/ QuestionRead
       \/ QuestionSkipped \/ CnameRecord \/ TargetRead \/ AddressRecord
    /\ UNCHANGED <<pkt, job>>

MessageSpec == MessageInit /\ [][MessageNext]_mvars

\* One call works on one datagram and nothing waits in it.
FairMessageSpec == MessageSpec /\ WF_mvars(MessageNext)

(***************************************************************************)
(* Properties.                                                             *)
(***************************************************************************)
Phase == {"header", "question", "skip", "cnames", "target", "addresses", "done"}

CursorType ==
    cur \in [offset : Nat, pos : Nat, out : Seq(Byte), jumps : Nat,
             jump_return : Nat, status : {"reading", "read", "failed"}]

(***************************************************************************)
(* Whatever the datagram holds, no chain of labels, pointers and lengths   *)
(* leads out of it, no name out of the buffers of parse_query,             *)
(* extract_a_for_qname and scan_answers_for_a, and no reply out of the     *)
(* buffer of handle_client_query.                                          *)
(***************************************************************************)
InBounds ==
    /\ CursorType /\ stage \in Phase
    /\ cur.pos <= len /\ cur.offset <= len /\ cur.jump_return <= len
    /\ cur.jumps <= DNS_NAME_JUMP_MAX
    /\ cur.status # "failed" => Len(cur.out) < NAME_CAP
    /\ next \in 0 .. len /\ ans_offset \in 0 .. len
    /\ (stage = "done" /\ job.kind = "query" /\ result # Dropped) =>
          Len(result.reply) <= UDP_BUF_SIZE

(***************************************************************************)
(* The work on a datagram ends, whatever pointers it holds: relay_run has  *)
(* one thread for all clients.                                             *)
(***************************************************************************)
Terminates == <>(stage = "done")

=============================================================================
