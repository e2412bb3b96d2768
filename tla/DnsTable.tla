------------------------------ MODULE DnsTable ------------------------------
(***************************************************************************)
(* dns_table.c: the name list, a hash table filled from a file of lines    *)
(* "IP domain".  A line is a sequence of words; "#" begins a comment.      *)
(***************************************************************************)
EXTENDS Naturals, Sequences, SequencesExt

CONSTANTS Word,         \* words of a line other than "#"
          in_lower_case,\* the word with no capital letters
          without_dot,  \* of the words that end in a dot: the word before it
          Address,      \* words that are IPv4 addresses other than 0.0.0.0
          Bucket, hash, \* dns_table_hash, modulo the number of buckets
          LINE_CAP      \* bound: words that fgets takes (511 characters)

ASSUME TableConstants ==
    /\ in_lower_case \in [Word -> Word]
    /\ DOMAIN without_dot \subseteq Word /\ without_dot \in [DOMAIN without_dot -> Word]
    /\ hash \in [Word -> Bucket]
    /\ Address \cup {"0.0.0.0"} \subseteq Word /\ "#" \notin Word
    /\ LINE_CAP \in Nat \ {0}

Row == [name : Word, ipv4 : Address \cup {"0.0.0.0"}]

\* qname_to_lower_inplace: the name that a word stands for.  Of several dots
\* at the end one is taken away.
canonical(w) ==
    LET lower == in_lower_case[w]
    IN  IF lower \in DOMAIN without_dot THEN without_dot[lower] ELSE lower

dns_table_create == [b \in Bucket |-> <<>>]

(***************************************************************************)
(* One turn of the loop of dns_table_load_file.                            *)
(***************************************************************************)
\* fgets takes a line, or as much of it as its buffer holds; what is left is
\* what the next turn takes for a line.
fgets(lines) == LET line == Head(lines)
                IN  IF Len(line) <= LINE_CAP
                    THEN [line |-> line, rest |-> Tail(lines)]
                    ELSE [line |-> SubSeq(line, 1, LINE_CAP),
                          rest |-> <<SubSeq(line, LINE_CAP + 1, Len(line))>>
                                       \o Tail(lines)]

uncommented(line) ==
    LET hash_at == SelectInSeq(line, LAMBDA w : w = "#")
    IN  IF hash_at = 0 THEN line ELSE SubSeq(line, 1, hash_at - 1)

\* sscanf finds two words, and the first is an address.
is_row(line) == LET words == uncommented(line)
                IN  Len(words) >= 2 /\ words[1] \in Address \cup {"0.0.0.0"}

row_of(line) == [name |-> canonical(line[2]), ipv4 |-> line[1]]

found_in(chain, name) == {n \in DOMAIN chain : chain[n].name = name}

is_new(t, row) == found_in(t[hash[row.name]], row.name) = {}

\* A slip: a name that is listed already keeps its address.
upsert_once(t, row) ==
    IF is_new(t, row) THEN [t EXCEPT ![hash[row.name]] = <<row>> \o @] ELSE t

upsert(t, row) ==
    [t EXCEPT ![hash[row.name]] =
        IF is_new(t, row) THEN <<row>> \o @
        ELSE [@ EXCEPT ![CHOOSE n \in found_in(@, row.name) :
                            \A m \in found_in(@, row.name) : n <= m] = row]]

\* Entries in the chains of the table: what dns_table_destroy frees.
entries(t) == UNION {{b} \X DOMAIN t[b] : b \in Bucket}

(***************************************************************************)
(* dns_table_lookup: "MISS", "0.0.0.0" for BLOCK, or an address.           *)
(***************************************************************************)
dns_table_lookup(t, qname) ==
    LET name == canonical(qname)
        chain == t[hash[name]]
        found == found_in(chain, name)
    IN  IF found = {} THEN "MISS"
        ELSE chain[CHOOSE n \in found : \A m \in found : n <= m].ipv4
=============================================================================
