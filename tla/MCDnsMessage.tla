---------------------------- MODULE MCDnsMessage ----------------------------
(***************************************************************************)
(* DnsMessage on small messages with small limits, compared with           *)
(* DnsWireFormat.                                                          *)
(***************************************************************************)
EXTENDS DnsMessage, FiniteSets

CONSTANT Bad

Wire == INSTANCE DnsWireFormat WITH MaxJumps <- DNS_NAME_JUMP_MAX

(***************************************************************************)
(* The messages.  97 is "a", 65 is "A".                                    *)
(***************************************************************************)
a == <<1, 97, 0>>
b == <<1, 98, 0>>
to(o) == <<192, o>>

Message(flags, qd, an, body) == <<7, 9>> \o flags \o <<0, qd, 0, an, 0, 0, 0, 0>> \o body

PrefixesOf(m) == {SubSeq(m, 1, n) : n \in 0 .. Len(m)}

Queries ==
    LET names == {a, <<1, 65, 1, 98, 0>>, <<1, 97, 1, 98, 1, 97, 0>>,
                  <<2, 97, 0, 0>>, <<1, 97>> \o to(12), to(14) \o <<0>>, to(4)}
        tails == {<<0, 1, 0, 1>>, <<0, 1, 0, 1, 0, 41>>, <<0, 5, 0, 1>>, <<0, 1, 0, 3>>,
                  <<0, 1, 0, 1>> \o a \o <<0, 1, 0, 1>>}
        whole_ones == {Message(flags, qd, 1, n \o t) :
                      flags \in {<<1, 32>>, <<255, 255>>}, qd \in 0 .. 2,
                      n \in names, t \in tails}
    IN  whole_ones \cup PrefixesOf(Message(<<1, 0>>, 1, 0, a \o <<0, 1, 0, 1>>))

RR(owner, type, class, data) ==
    owner \o <<0, type, 0, class, 0, 0, 0, Len(data), 0, Len(data)>> \o data

RRs == {RR(to(12), 1, 1, <<1, 1, 1, 1>>), RR(<<1, 66, 0>>, 1, 1, <<2, 2, 2, 2>>),
        RR(<<1, 98>> \o to(12), 1, 1, <<3, 3, 3, 3>>), RR(to(12), 1, 3, <<4, 4, 4, 4>>),
        RR(to(12), 1, 1, <<5, 5, 5>>), RR(to(12), 5, 1, b), RR(to(12), 5, 1, <<1, 66>> \o to(12)),
        RR(b, 5, 1, a), RR(to(12), 5, 1, <<1, 98, 1, 98, 2, 97, 97, 0>>)}

question == a \o <<0, 1, 0, 1>>

AnswersOf(n) ==
    {Message(<<129, 128>>, 1, n, question \o r) :
        r \in CASE n = 1 -> RRs
                [] n = 2 -> {r \o s : r \in RRs, s \in RRs}
                [] n = 3 -> {r \o s \o t : r \in RRs, s \in RRs, t \in RRs}}

OddAnswers ==
    LET r == RR(to(12), 1, 1, <<1, 1, 1, 1>>)
    IN  {Message(f, qd, an, question \o question \o r) :
            f \in {<<129, 128>>, <<1, 128>>, <<129, 131>>}, qd \in 0 .. 3, an \in 0 .. 2}
        \cup UNION {PrefixesOf(m) : m \in AnswersOf(1)}

\* Every name of at most four of these bytes, in a question.
Bytes == {0, 1, 2, 97, 192, 12, 14}
TinyNames == UNION {[1 .. n -> Bytes] : n \in 0 .. 4}

JobsOf(kind, messages, verdicts) ==
    {[kind |-> kind, pkt |-> m, want |-> <<97>>, verdict |-> v] :
        m \in messages, v \in verdicts}

\* A datagram of no bytes.
NoBytes == [kind |-> "query", pkt |-> <<>>, want |-> <<97>>, verdict |-> <<>>]

Jobs ==
    UNION {JobsOf("query", Queries, {<<>>, <<9, 9, 9, 9>>}),
           JobsOf("answer", AnswersOf(1) \cup AnswersOf(2) \cup AnswersOf(3), {<<>>}),
           JobsOf("answer", OddAnswers, {<<>>}),
           JobsOf("query", {Message(<<1, 0>>, 1, 0, n) : n \in TinyNames}, {<<>>})}

Rests == {<<>>, <<98>>}

(***************************************************************************)
(* A name is read if and only if it is one, every label inside the         *)
(* datagram, and its text is the labels in their order, whatever pointers  *)
(* led from one to the next; what follows it is found behind the first     *)
(* pointer.  The same for the loop that only skips a name.                 *)
(***************************************************************************)
NamesAsDefined ==
    LET labels == Wire!Name(pkt, cur.offset)
    IN  stage \notin {"header", "done"} =>
            /\ name_read =>
                  /\ labels # Bad
                  /\ after_name = Wire!Behind(pkt, cur.offset)
                  /\ stage # "skip" => cur.out = Wire!Text(labels)
            /\ cur.status = "failed" =>
                  \/ labels = Bad
                  \/ stage # "skip" /\ Len(Wire!Text(labels)) >= NAME_CAP

(***************************************************************************)
(* The address taken from an answer is that of the first record of type A  *)
(* that belongs to the name asked for or to the target of its last CNAME;  *)
(* an answer that cannot be read to its end gives none.  Left out: a CNAME *)
(* of the name whose target cannot be read.                                *)
(***************************************************************************)
ReadableName(o) == Wire!Name(pkt, o) # Bad /\ Len(Wire!Text(Wire!Name(pkt, o))) < NAME_CAP

ExtractsTheAnswer ==
    (stage = "done" /\ job.kind = "answer") =>
    LET rs == Wire!Answers(pkt)
        usable == /\ rs # Bad /\ Len(pkt) >= 12 /\ pkt[3] >= 128 /\ pkt[4] % 16 = 0
                  /\ Wire!Word(pkt, 4) > 0 /\ Wire!Word(pkt, 6) > 0
                  /\ \A n \in DOMAIN rs : Len(rs[n].name) < NAME_CAP
        name(n) == qname_to_lower(rs[n].name)
        cnames == {n \in DOMAIN rs : rs[n].type = 5 /\ rs[n].class = 1 /\ name(n) = want}
        target(n) == qname_to_lower(Wire!Text(Wire!Name(pkt, rs[n].at)))
        wanted == {want} \cup {target(n) : n \in {m \in cnames : \A k \in cnames : k <= m}}
        found == {n \in DOMAIN rs : /\ rs[n].type = 1 /\ rs[n].class = 1
                                    /\ Len(rs[n].data) = 4 /\ name(n) \in wanted}
        first == CHOOSE n \in found : \A m \in found : n <= m
    IN  IF ~usable THEN result = Dropped
        ELSE (\A n \in cnames : ReadableName(rs[n].at)) =>
                result = IF found = {} THEN Dropped
                         ELSE [ip |-> rs[first].data, ttl |-> rs[first].ttl]

(***************************************************************************)
(* A reply built by the relay says to a reader of the message format what  *)
(* the relay decided: a response under the query's identifier, with its    *)
(* question, and with the one address or, for a blocked name, with the     *)
(* code 3 and no record; and a reply that fits is built.  For one question *)
(* whose name holds no pointer.                                            *)
(***************************************************************************)
LocalReplyReadsBack ==
    (/\ stage = "done" /\ job.kind = "query" /\ result # Dropped
     /\ qdcount = 1 /\ Wire!Labels(pkt, 12, 0) # Bad
     /\ result.qtype = 1 /\ result.qclass = 1) =>
    LET r == result.reply
        rs == Wire!Answers(r)
        qend == Wire!Behind(pkt, 12) + 4
    IN  IF r = <<>>
        THEN qend + (IF job.verdict = <<>> THEN 0 ELSE 16) > UDP_BUF_SIZE
        ELSE /\ SubSeq(r, 1, 2) = id /\ r[3] >= 128 /\ rs # Bad
             /\ SubSeq(r, 13, qend) = SubSeq(pkt, 13, qend)
             /\ Wire!Word(r, 8) = 0 /\ Wire!Word(r, 10) = 0
             /\ IF job.verdict = <<>>
                THEN r[4] % 16 = 3 /\ rs = <<>> /\ Len(r) = qend
                ELSE /\ r[4] % 16 = 0 /\ Len(rs) = 1 /\ Len(r) = qend + 16
                     /\ qname_to_lower(rs[1].name) = result.qname
                     /\ rs[1].type = 1 /\ rs[1].class = 1
                     /\ rs[1].data = job.verdict

(***************************************************************************)
(* What is made of a datagram is what the message format says: the address *)
(* in an upstream answer, the reply to a client's query.                   *)
(***************************************************************************)
ResultAsDefined == ExtractsTheAnswer /\ LocalReplyReadsBack

=============================================================================
