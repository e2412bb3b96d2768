----------------------------- MODULE MCStartup -----------------------------
(***************************************************************************)
(* Startup on a few command lines and files.                               *)
(***************************************************************************)
EXTENDS Startup, TLC

Addresses == {"1.1.1.1", "2.2.2.2"}
Words == Addresses \cup {"0.0.0.0", "www", "WWW.", "www.", "www..", "mail", "ads"}
LowerCase == [w \in Words |-> IF w = "WWW." THEN "www." ELSE w]
DotTakenAway == "www." :> "www" @@ "www.." :> "www."

\* Two buckets: www and mail share one.
Hash == [w \in Words |-> IF w \in {"www", "mail"} THEN 1 ELSE 2]

Row1 == <<"1.1.1.1", "www">>
Lines == {Row1, <<"2.2.2.2", "WWW.", "#", "ads">>, <<"2.2.2.2", "mail">>,
          <<"0.0.0.0", "www">>, <<"#", "1.1.1.1", "mail">>,
          <<"1.1.1.1", "www..">>, <<"ads", "www">>, <<"1.1.1.1", "ads", "www", "mail">>}

\* Every file of three of these lines; a comment that is too long for fgets.
Files == [1 .. 3 -> Lines] \cup {<<<<"#", "ads", "ads", "ads", "1.1.1.1", "ads">>, Row1>>}
FileSystems == {"other" :> f @@ "dnsrelay.txt" :> <<Row1>> : f \in Files}

Paths == {"dnsrelay.txt", "missing", "other"} 
CommandLines == {<<>>, <<"-h">>, <<"-x", "other">>, <<"missing">>,
                 <<"-d", "8.8.8.8", "missing", "other">>}
=============================================================================
