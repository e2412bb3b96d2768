------------------------------ MODULE MCRelay ------------------------------
(***************************************************************************)
(* Small instances of Relay for TLC.                                       *)
(***************************************************************************)
EXTENDS Relay

CONSTANTS alice, bob, plain, other, home, bad

Ask(client, id, qname, qtype) ==
    [client |-> client, id |-> id, qname |-> qname, qtype |-> qtype]

\* Two clients that chose the same identifier, and one query that the local
\* tables do not answer.
Mixed == {Ask(alice, 7, plain, "A"), Ask(bob, 7, other, "A"),
          Ask(bob, 8, plain, "MX")}

\* Names on the list, asked for in both ways, and one that is not.
Listed == {Ask(alice, 7, home, "A"), Ask(bob, 7, bad, "A"),
           Ask(bob, 8, bad, "MX"), Ask(alice, 9, plain, "A")}

\* One of the names that Mixed asks for is blocked.
BlockOther == [n \in Name |-> IF n = other THEN "BLOCK" ELSE "MISS"]
NoTable == [n \in Name |-> "MISS"]
HomeAndBad(n) == IF n = home THEN CHOOSE a \in Ipv4 : TRUE
                 ELSE IF n = bad THEN "BLOCK" ELSE "MISS"
NameList == [n \in Name |-> HomeAndBad(n)]
=============================================================================
