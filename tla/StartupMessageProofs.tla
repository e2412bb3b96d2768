------------------------- MODULE StartupMessageProofs -------------------------
(***************************************************************************)
(* Proofs about what the relay reads: the command line and the name list   *)
(* when it starts (Startup), whatever fails there, and the datagrams       *)
(* (DnsMessage), of any length and content.                                *)
(***************************************************************************)
EXTENDS Startup, DnsMessage, TLAPS, FiniteSetTheorems, SequenceTheorems

(***************************************************************************)
(* THE PROCESS AND ITS NAME LIST: any command lines, files, spellings and  *)
(* hash function.                                                          *)
(***************************************************************************)

Text == Seq(Word \cup {"#"})

(***************************************************************************)
(* The least and the greatest of some numbers.                             *)
(***************************************************************************)

\* A set of natural numbers that is not empty has a least element.
LEMMA SomeLeast ==
    ASSUME NEW S, S \subseteq Nat, S # {}
    PROVE  \E x \in S : \A y \in S : x <= y
<1>1. PICK x \in S : \A y \in S : ~ (<<y, x>> \in OpToRel(<, Nat))
  BY NatLessThanWellFounded, WFMin
<1>2. ASSUME NEW y \in S PROVE ~ (y < x)
  <2>1. <<y, x>> \in Nat \X Nat /\ <<y, x>>[1] = y /\ <<y, x>>[2] = x
    OBVIOUS
  <2>. QED
    BY <1>1, <2>1, Zenon DEF OpToRel
<1>3. ASSUME NEW y \in S PROVE x <= y
  BY <1>2
<1>. QED
  BY <1>3

(***************************************************************************)
(* The lines of the file.                                                  *)
(***************************************************************************)

\* Where a comment begins, or 0.
CommentPlace(line) == SelectInSeq(line, LAMBDA w : w = "#")

LEMMA CommentAt ==
    ASSUME NEW line \in Text
    PROVE  \/ /\ CommentPlace(line) = 0
              /\ \A n \in 1 .. Len(line) : line[n] # "#"
           \/ /\ CommentPlace(line) \in 1 .. Len(line)
              /\ \A n \in 1 .. CommentPlace(line) - 1 : line[n] # "#"
<1>. DEFINE I == {n \in 1 .. Len(line) : line[n] = "#"}
<1>1. CommentPlace(line) = IF I # {} THEN Min(I) ELSE 0
  BY DEF SelectInSeq, CommentPlace
<1>2. CASE I = {}
  BY <1>1, <1>2
<1>3. CASE I # {}
  <2>1. I \subseteq Nat
    BY DEF Text
  <2>2. Min(I) \in I /\ \A n \in I : Min(I) <= n
    BY <1>3, <2>1, SomeLeast DEF Min
  <2>3. CommentPlace(line) = Min(I)
    BY <1>1, <1>3
  <2>4. \A n \in 1 .. CommentPlace(line) - 1 : line[n] # "#"
    BY <2>2, <2>3 DEF Text
  <2>. QED
    BY <2>2, <2>3, <2>4
<1>. QED
  BY <1>2, <1>3

\* A line that is a row of the list has an address and a name.
LEMMA RowIsTyped ==
    ASSUME NEW line \in Text, is_row(line)
    PROVE  /\ line[1] \in Address \cup {"0.0.0.0"}
           /\ line[2] \in Word
           /\ row_of(line) \in Row
<1>. DEFINE h == CommentPlace(line)
            words == uncommented(line)
<1>1. \/ h = 0 /\ \A n \in 1 .. Len(line) : line[n] # "#"
      \/ h \in 1 .. Len(line) /\ \A n \in 1 .. h - 1 : line[n] # "#"
  BY CommentAt
<1>2. words = IF h = 0 THEN line ELSE SubSeq(line, 1, h - 1)
  BY DEF uncommented, CommentPlace, SelectInSeq
<1>3. Len(words) >= 2 /\ words[1] \in Address \cup {"0.0.0.0"}
  BY DEF is_row
<1>. HIDE DEF h, words
<1>4. line[1] = words[1] /\ line[2] # "#" /\ 2 \in 1 .. Len(line)
  <2>1. CASE h = 0
    BY <1>1, <1>2, <1>3, <2>1 DEF Text
  <2>2. CASE h # 0
    <3>1. h \in 1 .. Len(line) /\ \A n \in 1 .. h - 1 : line[n] # "#"
      BY <1>1, <2>2
    <3>2. words = SubSeq(line, 1, h - 1)
      BY <1>2, <2>2
    <3>3. Len(words) = h - 1 /\ words[1] = line[1]
      BY <1>3, <3>1, <3>2, SubSeqProperties DEF Text
    <3>. QED
      BY <1>3, <3>1, <3>3 DEF Text
  <2>. QED
    BY <2>1, <2>2
<1>5. line[2] \in Word
  BY <1>4 DEF Text
<1>6. canonical(line[2]) \in Word
  BY <1>5, TableConstants DEF canonical
<1>. QED
  BY <1>3, <1>4, <1>5, <1>6 DEF row_of, Row

\* fgets takes one line, or a part of it, and leaves lines.
LEMMA LineTaken ==
    ASSUME NEW lines \in Seq(Text), lines # <<>>
    PROVE  /\ fgets(lines).line \in Text
           /\ fgets(lines).rest \in Seq(Text)
           /\ Len(Head(lines)) <= LINE_CAP =>
                 fgets(lines) = [line |-> Head(lines), rest |-> Tail(lines)]
<1>1. Head(lines) \in Text /\ Tail(lines) \in Seq(Text)
  OBVIOUS
<1>2. PICK line : line = Head(lines)
  OBVIOUS
<1>3. CASE Len(line) <= LINE_CAP
  BY <1>1, <1>2, <1>3 DEF fgets
<1>4. CASE ~(Len(line) <= LINE_CAP)
  <2>1. LINE_CAP \in Nat \ {0}
    BY TableConstants
  <2>2. SubSeq(line, 1, LINE_CAP) \in Text
    BY <1>1, <1>2, <1>4, <2>1, SubSeqProperties DEF Text
  <2>3. SubSeq(line, LINE_CAP + 1, Len(line)) \in Text
    BY <1>1, <1>2, <1>4, <2>1, SubSeqProperties DEF Text
  <2>4. PICK left : left = SubSeq(line, LINE_CAP + 1, Len(line))
    OBVIOUS
  <2>5. <<left>> \o Tail(lines) \in Seq(Text)
    BY <1>1, <2>3, <2>4
  <2>. QED
    BY <1>2, <1>4, <2>2, <2>4, <2>5 DEF fgets
<1>. QED
  BY <1>3, <1>4

(***************************************************************************)
(* The table.                                                              *)
(***************************************************************************)
Table == [Bucket -> Seq(Row)]

\* The chain in which a row belongs exists.
LEMMA OwnChain ==
    ASSUME NEW t \in Table, NEW w \in Word
    PROVE  hash[w] \in Bucket /\ t[hash[w]] \in Seq(Row)
BY TableConstants DEF Table

\* A name that a chain holds has a first place in it.
LEMMA FirstPlace ==
    ASSUME NEW chain \in Seq(Row), NEW name, found_in(chain, name) # {}
    PROVE  \E f \in found_in(chain, name) :
              /\ f = CHOOSE n \in found_in(chain, name) :
                        \A m \in found_in(chain, name) : n <= m
              /\ f \in 1 .. Len(chain) /\ chain[f].name = name
              /\ \A n \in 1 .. Len(chain) : chain[n].name = name => f <= n
<1>1. found_in(chain, name) = {n \in 1 .. Len(chain) : chain[n].name = name}
  BY DEF found_in
<1>2. found_in(chain, name) \subseteq Nat
  BY <1>1
<1>3. \E n \in found_in(chain, name) : \A m \in found_in(chain, name) : n <= m
  BY <1>2, SomeLeast
<1>4. PICK f : f = CHOOSE n \in found_in(chain, name) :
                      \A m \in found_in(chain, name) : n <= m
  OBVIOUS
<1>5. f \in found_in(chain, name) /\ \A m \in found_in(chain, name) : f <= m
  BY <1>3, <1>4
<1>. QED
  BY <1>1, <1>4, <1>5

\* What a lookup returns, told by a place of the chain.
LEMMA LookedUpAt ==
    ASSUME NEW t \in Table, NEW w \in Word,
           NEW f \in 1 .. Len(t[hash[canonical(w)]]),
           t[hash[canonical(w)]][f].name = canonical(w),
           \A n \in 1 .. f - 1 : t[hash[canonical(w)]][n].name # canonical(w)
    PROVE  dns_table_lookup(t, w) = t[hash[canonical(w)]][f].ipv4
<1>. DEFINE chain == t[hash[canonical(w)]]
            found == found_in(chain, canonical(w))
<1>1. canonical(w) \in Word
  BY TableConstants DEF canonical
<1>2. chain \in Seq(Row)
  BY <1>1, OwnChain
<1>3. found = {n \in 1 .. Len(chain) : chain[n].name = canonical(w)}
  BY <1>2 DEF found_in
<1>4. f \in found
  BY <1>3
<1>5. \A n \in found : f <= n
  BY <1>2, <1>3
<1>6. \A n \in found : (\A m \in found : n <= m) => n = f
  BY <1>2, <1>3, <1>4, <1>5
<1>7. dns_table_lookup(t, w) =
        IF found = {} THEN "MISS"
        ELSE chain[CHOOSE n \in found : \A m \in found : n <= m].ipv4
  BY DEF dns_table_lookup
<1>. HIDE DEF chain, found
<1>8. (CHOOSE n \in found : \A m \in found : n <= m) = f
  BY <1>4, <1>5, <1>6
<1>. QED
  BY <1>4, <1>7, <1>8 DEF chain

LEMMA LookedUpNowhere ==
    ASSUME NEW t \in Table, NEW w \in Word,
           \A n \in 1 .. Len(t[hash[canonical(w)]]) :
              t[hash[canonical(w)]][n].name # canonical(w)
    PROVE  dns_table_lookup(t, w) = "MISS"
<1>1. canonical(w) \in Word
  BY TableConstants DEF canonical
<1>2. t[hash[canonical(w)]] \in Seq(Row)
  BY <1>1, OwnChain
<1>3. found_in(t[hash[canonical(w)]], canonical(w)) = {}
  BY <1>2 DEF found_in
<1>. QED
  BY <1>3 DEF dns_table_lookup

\* A new row goes to the front of its chain.
LEMMA NewRow ==
    ASSUME NEW t \in Table, NEW row \in Row, is_new(t, row)
    PROVE  /\ upsert(t, row) \in Table
           /\ \A b \in Bucket : b # hash[row.name] => upsert(t, row)[b] = t[b]
           /\ upsert(t, row)[hash[row.name]] = <<row>> \o t[hash[row.name]]
<1>1. row.name \in Word
  BY DEF Row
<1>2. hash[row.name] \in Bucket /\ t[hash[row.name]] \in Seq(Row)
  BY <1>1, OwnChain
<1>3. upsert(t, row) = [t EXCEPT ![hash[row.name]] = <<row>> \o t[hash[row.name]]]
  BY DEF upsert
<1>4. <<row>> \o t[hash[row.name]] \in Seq(Row)
  BY <1>2
<1>. QED
  BY <1>2, <1>3, <1>4 DEF Table

\* A row for a name that is listed takes the place of the first one.
LEMMA KnownRow ==
    ASSUME NEW t \in Table, NEW row \in Row, ~is_new(t, row)
    PROVE  /\ upsert(t, row) \in Table
           /\ \A b \in Bucket : b # hash[row.name] => upsert(t, row)[b] = t[b]
           /\ \E f \in 1 .. Len(t[hash[row.name]]) :
                 /\ t[hash[row.name]][f].name = row.name
                 /\ \A n \in 1 .. f - 1 : t[hash[row.name]][n].name # row.name
                 /\ upsert(t, row)[hash[row.name]] =
                       [t[hash[row.name]] EXCEPT ![f] = row]
<1>. DEFINE chain == t[hash[row.name]]
<1>1. row.name \in Word
  BY DEF Row
<1>2. hash[row.name] \in Bucket /\ chain \in Seq(Row)
  BY <1>1, OwnChain
<1>3. found_in(chain, row.name) # {}
  BY DEF is_new
<1>4. PICK f \in found_in(chain, row.name) :
         /\ f = CHOOSE n \in found_in(chain, row.name) :
                   \A m \in found_in(chain, row.name) : n <= m
         /\ f \in 1 .. Len(chain) /\ chain[f].name = row.name
         /\ \A n \in 1 .. Len(chain) : chain[n].name = row.name => f <= n
  BY <1>2, <1>3, FirstPlace
<1>6. upsert(t, row) = [t EXCEPT ![hash[row.name]] = [chain EXCEPT ![f] = row]]
  BY <1>4 DEF upsert
<1>7. [chain EXCEPT ![f] = row] \in Seq(Row)
  BY <1>2, <1>4
<1>8. ASSUME NEW n \in 1 .. f - 1 PROVE chain[n].name # row.name
  <2>1. n \in 1 .. Len(chain) /\ ~(f <= n)
    BY <1>2, <1>4
  <2>. QED
    BY <1>4, <2>1
<1>9. upsert(t, row)[hash[row.name]] = [chain EXCEPT ![f] = row]
  BY <1>2, <1>6 DEF Table
<1>10. upsert(t, row) \in Table
  BY <1>2, <1>6, <1>7 DEF Table
<1>11. \A b \in Bucket : b # hash[row.name] => upsert(t, row)[b] = t[b]
  BY <1>6 DEF Table
<1>. QED
  BY <1>4, <1>8, <1>9, <1>10, <1>11

LEMMA OtherChains ==
    ASSUME NEW t \in Table, NEW row \in Row, NEW b \in Bucket, b # hash[row.name]
    PROVE  upsert(t, row)[b] = t[b]
<1>1. CASE is_new(t, row)
  BY <1>1, NewRow
<1>2. CASE ~is_new(t, row)
  BY <1>2, KnownRow
<1>. QED
  BY <1>1, <1>2

\* After a row was read its name has its address; other names have what they
\* had, whichever chain they are in.
LEMMA LookedUpAfter ==
    ASSUME NEW t \in Table, NEW row \in Row, NEW w \in Word
    PROVE  dns_table_lookup(upsert(t, row), w) =
               IF canonical(w) = row.name THEN row.ipv4 ELSE dns_table_lookup(t, w)
<1>1. PICK name : name = canonical(w)
  OBVIOUS
<1>2. PICK u : u = upsert(t, row)
  OBVIOUS
<1>3. PICK b : b = hash[name]
  OBVIOUS
<1>4. name \in Word /\ row.name \in Word
  BY <1>1, TableConstants DEF canonical, Row
<1>5. b \in Bucket /\ t[b] \in Seq(Row)
  BY <1>3, <1>4, OwnChain
<1>6. u \in Table
  BY <1>2, NewRow, KnownRow
<1>7. CASE name = row.name
  <2>1. CASE is_new(t, row)
    <3>1. u[b] = <<row>> \o t[b]
      BY <1>2, <1>3, <1>7, <2>1, NewRow
    <3>2. /\ 1 \in 1 .. Len(u[b]) /\ u[b][1] = row
          /\ \A n \in 1 .. 1 - 1 : u[b][n].name # name
      BY <1>5, <3>1
    <3>3. /\ 1 \in 1 .. Len(u[hash[canonical(w)]])
          /\ u[hash[canonical(w)]][1].name = canonical(w)
          /\ \A n \in 1 .. 1 - 1 : u[hash[canonical(w)]][n].name # canonical(w)
      BY <1>1, <1>3, <1>7, <3>2
    <3>4. dns_table_lookup(u, w) = u[hash[canonical(w)]][1].ipv4
      BY <1>6, <3>3, LookedUpAt
    <3>5. dns_table_lookup(u, w) = row.ipv4
      BY <1>1, <1>3, <3>2, <3>4
    <3>. QED
      BY <1>1, <1>2, <1>7, <3>5
  <2>2. CASE ~is_new(t, row)
    <3>1. PICK f \in 1 .. Len(t[b]) :
             /\ \A n \in 1 .. f - 1 : t[b][n].name # name
             /\ u[b] = [t[b] EXCEPT ![f] = row]
      BY <1>2, <1>3, <1>7, <2>2, KnownRow
    <3>2. /\ f \in 1 .. Len(u[b]) /\ u[b][f] = row
          /\ \A n \in 1 .. f - 1 : u[b][n].name # name
      BY <1>5, <3>1
    <3>3. dns_table_lookup(u, w) = u[b][f].ipv4
      BY <1>1, <1>3, <1>6, <1>7, <3>2, LookedUpAt
    <3>. QED
      BY <1>1, <1>2, <1>7, <3>2, <3>3
  <2>. QED
    BY <2>1, <2>2
<1>8. CASE name # row.name
  <2>1. ASSUME NEW f \in 1 .. Len(t[b]), t[b][f].name = name,
               \A n \in 1 .. f - 1 : t[b][n].name # name
        PROVE  \E g \in 1 .. Len(u[b]) : /\ u[b][g] = t[b][f]
                                         /\ \A n \in 1 .. g - 1 : u[b][n].name # name
    <3>1. CASE b # hash[row.name]
      <4>1. u[b] = t[b]
        BY <1>2, <1>5, <3>1, OtherChains
      <4>. QED
        BY <2>1, <4>1
    <3>2. CASE b = hash[row.name] /\ is_new(t, row)
      <4>1. u[b] = <<row>> \o t[b]
        BY <1>2, <3>2, NewRow
      <4>2. /\ f + 1 \in 1 .. Len(u[b]) /\ u[b][f + 1] = t[b][f]
            /\ u[b][1] = row
            /\ \A n \in 1 .. Len(t[b]) : u[b][n + 1] = t[b][n]
        BY <1>5, <4>1
      <4>3. ASSUME NEW n \in 1 .. f PROVE u[b][n].name # name
        <5>1. CASE n = 1
          BY <1>8, <4>2, <5>1
        <5>2. CASE n # 1
          <6>1. n - 1 \in 1 .. f - 1 /\ n - 1 \in 1 .. Len(t[b]) /\ (n - 1) + 1 = n
            BY <1>5, <5>2
          <6>. QED
            BY <2>1, <4>2, <6>1
        <5>. QED
          BY <5>1, <5>2
      <4>4. 1 .. (f + 1) - 1 = 1 .. f
        BY <1>5
      <4>5. \A n \in 1 .. (f + 1) - 1 : u[b][n].name # name
        BY <4>3, <4>4
      <4>. QED
        BY <4>2, <4>5
    <3>3. CASE b = hash[row.name] /\ ~is_new(t, row)
      <4>1. PICK g \in 1 .. Len(t[b]) :
               /\ t[b][g].name = row.name
               /\ u[b] = [t[b] EXCEPT ![g] = row]
        BY <1>2, <3>3, KnownRow
      <4>2. Len(u[b]) = Len(t[b]) /\ f # g
        BY <1>5, <1>8, <2>1, <4>1
      <4>3. \A n \in 1 .. Len(t[b]) : u[b][n] = IF n = g THEN row ELSE t[b][n]
        BY <1>5, <4>1
      <4>4. f \in 1 .. Len(u[b]) /\ u[b][f] = t[b][f]
        BY <4>2, <4>3
      <4>5. ASSUME NEW n \in 1 .. f - 1 PROVE u[b][n].name # name
        <5>1. n \in 1 .. Len(t[b])
          BY <1>5
        <5>. QED
          BY <1>8, <2>1, <4>3, <5>1
      <4>. QED
        BY <4>4, <4>5
    <3>. QED
      BY <3>1, <3>2, <3>3
  <2>2. ASSUME \A n \in 1 .. Len(t[b]) : t[b][n].name # name
        PROVE  \A n \in 1 .. Len(u[b]) : u[b][n].name # name
    <3>1. CASE b # hash[row.name]
      <4>1. u[b] = t[b]
        BY <1>2, <1>5, <3>1, OtherChains
      <4>. QED
        BY <2>2, <4>1
    <3>2. CASE b = hash[row.name] /\ is_new(t, row)
      <4>1. u[b] = <<row>> \o t[b]
        BY <1>2, <3>2, NewRow
      <4>2. /\ Len(u[b]) = Len(t[b]) + 1 /\ u[b][1] = row
            /\ \A n \in 1 .. Len(t[b]) : u[b][n + 1] = t[b][n]
        BY <1>5, <4>1
      <4>3. ASSUME NEW n \in 1 .. Len(u[b]), n # 1 PROVE u[b][n].name # name
        <5>1. n - 1 \in 1 .. Len(t[b]) /\ (n - 1) + 1 = n
          BY <1>5, <4>2, <4>3
        <5>. QED
          BY <2>2, <4>2, <5>1
      <4>. QED
        BY <1>8, <4>2, <4>3
    <3>3. CASE b = hash[row.name] /\ ~is_new(t, row)
      <4>1. PICK g \in 1 .. Len(t[b]) : u[b] = [t[b] EXCEPT ![g] = row]
        BY <1>2, <3>3, KnownRow
      <4>2. Len(u[b]) = Len(t[b])
        BY <1>5, <4>1
      <4>3. \A n \in 1 .. Len(t[b]) : u[b][n] = IF n = g THEN row ELSE t[b][n]
        BY <1>5, <4>1
      <4>. QED
        BY <1>8, <2>2, <4>2, <4>3
    <3>. QED
      BY <3>1, <3>2, <3>3
  <2>3. CASE \A n \in 1 .. Len(t[b]) : t[b][n].name # name
    <3>1. dns_table_lookup(t, w) = "MISS"
      BY <1>1, <1>3, <2>3, LookedUpNowhere
    <3>2. dns_table_lookup(u, w) = "MISS"
      BY <1>1, <1>3, <1>6, <2>2, <2>3, LookedUpNowhere
    <3>. QED
      BY <1>1, <1>2, <1>8, <3>1, <3>2
  <2>4. CASE \E n \in 1 .. Len(t[b]) : t[b][n].name = name
    <3>1. found_in(t[b], name) # {}
      BY <1>5, <2>4 DEF found_in
    <3>2. PICK f \in 1 .. Len(t[b]) :
             /\ t[b][f].name = name
             /\ \A n \in 1 .. Len(t[b]) : t[b][n].name = name => f <= n
      BY <1>5, <3>1, FirstPlace
    <3>3. \A n \in 1 .. f - 1 : t[b][n].name # name
      BY <1>5, <3>2
    <3>4. PICK g \in 1 .. Len(u[b]) :
             u[b][g] = t[b][f] /\ \A n \in 1 .. g - 1 : u[b][n].name # name
      BY <2>1, <3>2, <3>3
    <3>5. dns_table_lookup(t, w) = t[b][f].ipv4
      BY <1>1, <1>3, <3>2, <3>3, LookedUpAt
    <3>6. dns_table_lookup(u, w) = u[b][g].ipv4
      BY <1>1, <1>3, <1>6, <3>2, <3>4, LookedUpAt
    <3>. QED
      BY <1>1, <1>2, <1>8, <3>4, <3>5, <3>6
  <2>. QED
    BY <2>3, <2>4
<1>. QED
  BY <1>7, <1>8

(***************************************************************************)
(* How many entries there are.                                             *)
(***************************************************************************)

LEMMA EntriesOf ==
    ASSUME NEW t \in Table
    PROVE  \A x : x \in entries(t) <=>
              \E b \in Bucket : \E n \in 1 .. Len(t[b]) : x = <<b, n>>
BY DEF entries, Table

\* An insertion adds one entry, an update none.
LEMMA EntriesCounted ==
    ASSUME NEW t \in Table, NEW row \in Row, IsFiniteSet(entries(t))
    PROVE  /\ IsFiniteSet(entries(upsert(t, row)))
           /\ Cardinality(entries(upsert(t, row))) =
                 Cardinality(entries(t)) + (IF is_new(t, row) THEN 1 ELSE 0)
<1>1. PICK u : u = upsert(t, row)
  OBVIOUS
<1>2. PICK h : h = hash[row.name]
  OBVIOUS
<1>3. h \in Bucket /\ t[h] \in Seq(Row)
  BY <1>2, OwnChain DEF Row
<1>4. u \in Table
  BY <1>1, NewRow, KnownRow
<1>5. \A b \in Bucket : b # h => u[b] = t[b]
  BY <1>1, <1>2, OtherChains
<1>6. CASE is_new(t, row)
  <2>1. u[h] = <<row>> \o t[h]
    BY <1>1, <1>2, <1>6, NewRow
  <2>2. PICK k \in Nat : k = Len(t[h])
    BY <1>3
  <2>3. Len(u[h]) = k + 1
    BY <1>3, <2>1, <2>2
  <2>4. 1 .. k + 1 = (1 .. k) \cup {k + 1}
    BY <2>2
  <2>5. \A x : x \in entries(u) <=> x \in entries(t) \cup {<<h, k + 1>>}
    <3>1. ASSUME NEW x \in entries(u) PROVE x \in entries(t) \cup {<<h, k + 1>>}
      BY <1>3, <1>4, <1>5, <2>2, <2>3, <2>4, EntriesOf
    <3>2. ASSUME NEW x \in entries(t) PROVE x \in entries(u)
      BY <1>3, <1>4, <1>5, <2>2, <2>3, <2>4, EntriesOf
    <3>3. <<h, k + 1>> \in entries(u)
      BY <1>3, <1>4, <2>2, <2>3, EntriesOf
    <3>. QED
      BY <3>1, <3>2, <3>3
  <2>6. entries(u) = entries(t) \cup {<<h, k + 1>>}
    BY <2>5
  <2>7. <<h, k + 1>> \notin entries(t)
    BY <1>3, <2>2, EntriesOf
  <2>8. /\ IsFiniteSet(entries(u))
        /\ Cardinality(entries(u)) = Cardinality(entries(t)) + 1
    BY <2>6, <2>7, FS_AddElement
  <2>. QED
    BY <1>1, <1>6, <2>8
<1>7. CASE ~is_new(t, row)
  <2>1. Len(u[h]) = Len(t[h])
    <3>1. PICK f \in 1 .. Len(t[h]) : u[h] = [t[h] EXCEPT ![f] = row]
      BY <1>1, <1>2, <1>7, KnownRow
    <3>. QED
      BY <1>3, <3>1
  <2>2. \A b \in Bucket : Len(u[b]) = Len(t[b])
    BY <1>5, <2>1
  <2>3. entries(u) = entries(t)
    BY <1>4, <2>2, EntriesOf
  <2>4. Cardinality(entries(t)) \in Nat
    BY FS_CardinalityType
  <2>. QED
    BY <1>1, <1>7, <2>3, <2>4
<1>. QED
  BY <1>6, <1>7

\* An empty table has none.
LEMMA NoEntries ==
    /\ dns_table_create \in Table
    /\ IsFiniteSet(entries(dns_table_create))
    /\ Cardinality(entries(dns_table_create)) = 0
<1>1. dns_table_create \in Table
  BY DEF dns_table_create, Table
<1>2. \A b \in Bucket : Len(dns_table_create[b]) = 0
  BY DEF dns_table_create
<1>3. entries(dns_table_create) = {}
  BY <1>1, <1>2, EntriesOf
<1>. QED
  BY <1>1, <1>3, FS_EmptySet

(***************************************************************************)
(* The inductive invariant.                                                *)
(***************************************************************************)
Place == {"arguments", "platform", "handler", "clear", "socket", "bind", "map",
          "table", "open", "load", "cache", "loop", "returned", "exited"}

\* Where each resource is held: from the place behind its allocation on to
\* the place behind its release.
WithSocket == {"bind", "map", "table", "open", "load", "cache", "loop"}
WithMap == WithSocket \ {"bind", "map"}
WithTable == WithMap \ {"table"}
WithWinsock == WithSocket \cup {"handler", "clear", "socket", "returned"}

counted(b) == IF b THEN 1 ELSE 0

\* What is held is a matter of the place, of the queries that wait and of the
\* rows that were read.
HeldByPlace ==
    /\ held["winsock"] = counted(pc \in WithWinsock)
    /\ held["socket"] = counted(pc \in WithSocket)
    /\ held["map"] = counted(pc \in WithMap)
    /\ held["table"] = counted(pc \in WithTable)
    /\ held["file"] = counted(pc = "load")
    /\ held["cache"] = counted(pc = "loop")
    /\ held["node"] = IF pc \in WithMap THEN pending ELSE 0
    /\ held["row"] = IF pc \in WithTable THEN Cardinality(entries(table)) ELSE 0
    /\ held["entry"] = dropped

Types ==
    /\ pc \in Place
    /\ disk \in Disks
    /\ held \in [Resource -> Int]
    /\ pending \in Nat /\ dropped \in Nat
    /\ table \in Table /\ IsFiniteSet(entries(table))
    /\ unread \in Seq(Text)

\* Nothing waits before the loop, and nothing is listed before the file is
\* read.
NothingYet ==
    /\ pc \notin {"loop", "returned", "exited"} => pending = 0
    /\ pc \in {"arguments", "platform", "handler", "clear", "socket", "bind",
               "map", "table", "open"} => table = dns_table_create

\* The lines of the file that was opened, when fgets takes all of them whole.
Lines == disk[cfg.table_path]
Whole == \A n \in DOMAIN Lines : Len(Lines[n]) <= LINE_CAP

names(line, w) == is_row(line) /\ canonical(line[2]) = canonical(w)

\* After k lines the table has for every name what the last row for it says.
Listed(k) == \A w \in Word :
    \/ /\ \A n \in 1 .. k : ~names(Lines[n], w)
       /\ dns_table_lookup(table, w) = "MISS"
    \/ \E n \in 1 .. k :
          /\ names(Lines[n], w)
          /\ \A m \in n + 1 .. k : ~names(Lines[m], w)
          /\ dns_table_lookup(table, w) = Lines[n][1]

\* k lines were read, the others were not.
ReadSoFar(k) ==
    /\ Len(unread) = Len(Lines) - k
    /\ \A n \in 1 .. Len(unread) : unread[n] = Lines[k + n]
    /\ Listed(k)

ListRead ==
    /\ pc \in {"load", "cache", "loop"} =>
          cfg.table_path \in DOMAIN disk /\ Lines \in Seq(Text)
    /\ pc = "load" => (Whole => \E k \in 0 .. Len(Lines) : ReadSoFar(k))
    /\ pc \in {"cache", "loop"} => (Whole => Listed(Len(Lines)))

IInv == Types /\ HeldByPlace /\ NothingYet /\ ListRead

\* What is held decides that nothing leaks.
LEMMA HeldMeansNoLeak == IInv => NothingLeaks
<1>. SUFFICES ASSUME IInv PROVE NothingLeaks
  OBVIOUS
<1>1. \A r \in Resource \ {"node", "entry", "row"} : held[r] \in 0 .. 1
  BY DEF IInv, HeldByPlace, counted, Resource
<1>2. held["entry"] = dropped
  BY DEF IInv, HeldByPlace
<1>3. held["map"] = 1 => held["node"] = pending
  BY DEF IInv, HeldByPlace, counted
<1>4. held["table"] = 1 => held["row"] = Cardinality(entries(table))
  BY DEF IInv, HeldByPlace, counted
<1>5. pc = "exited" => \A r \in Resource \ {"entry"} : held[r] = 0
  BY DEF IInv, HeldByPlace, counted, Resource,
         WithWinsock, WithSocket, WithMap, WithTable
<1>. QED
  BY <1>1, <1>2, <1>3, <1>4, <1>5 DEF NothingLeaks

\* What was read decides what a lookup finds.
LEMMA ReadMeansWritten == IInv => TableAsWritten
<1>. SUFFICES ASSUME IInv, pc = "loop", Whole, NEW w \in Word
     PROVE  LET rows == {n \in DOMAIN Lines : names(Lines[n], w)}
                last == CHOOSE n \in rows : \A m \in rows : m <= n
            IN  dns_table_lookup(table, w) =
                   IF rows = {} THEN "MISS" ELSE Lines[last][1]
  BY DEF TableAsWritten, lookups_as_written, lines_fit, Lines, Whole, names
<1>. DEFINE rows == {n \in DOMAIN Lines : names(Lines[n], w)}
            last == CHOOSE n \in rows : \A m \in rows : m <= n
<1>1. Listed(Len(Lines)) /\ Lines \in Seq(Text)
  BY DEF IInv, ListRead
<1>2. rows = {n \in 1 .. Len(Lines) : names(Lines[n], w)} /\ Len(Lines) \in Nat
  BY <1>1
<1>3. CASE \A n \in 1 .. Len(Lines) : ~names(Lines[n], w)
  <2>1. dns_table_lookup(table, w) = "MISS" /\ rows = {}
    BY <1>1, <1>2, <1>3 DEF Listed
  <2>. QED
    BY <2>1
<1>4. CASE \E n \in 1 .. Len(Lines) :
              /\ names(Lines[n], w)
              /\ \A m \in n + 1 .. Len(Lines) : ~names(Lines[m], w)
              /\ dns_table_lookup(table, w) = Lines[n][1]
  <2>1. PICK n \in 1 .. Len(Lines) :
              /\ names(Lines[n], w)
              /\ \A m \in n + 1 .. Len(Lines) : ~names(Lines[m], w)
              /\ dns_table_lookup(table, w) = Lines[n][1]
    BY <1>4
  <2>2. n \in rows
    BY <1>2, <2>1
  <2>3. ASSUME NEW m \in rows PROVE m <= n
    <3>1. m \in 1 .. Len(Lines) /\ names(Lines[m], w)
      BY <1>2
    <3>2. ~(m \in n + 1 .. Len(Lines))
      BY <2>1, <3>1
    <3>. QED
      BY <1>2, <3>1, <3>2
  <2>4. \A m \in rows : (\A x \in rows : x <= m) => m = n
    BY <1>2, <2>2, <2>3
  <2>5. last = n
    <3>. HIDE DEF rows
    <3>. QED
      BY <2>2, <2>3, <2>4
  <2>. HIDE DEF last
  <2>. QED
    BY <2>1, <2>2, <2>5
<1>. QED
  BY <1>1, <1>3, <1>4 DEF Listed

LEMMA InitIInv == Init => IInv
<1>. SUFFICES ASSUME Init PROVE IInv
  OBVIOUS
<1>1. Types
  BY NoEntries DEF Init, Types, Place, none_held, Text
<1>2. HeldByPlace
  BY DEF Init, HeldByPlace, none_held, Resource, counted,
         WithWinsock, WithSocket, WithMap, WithTable
<1>3. NothingYet /\ ListRead
  BY DEF Init, NothingYet, ListRead
<1>. QED
  BY <1>1, <1>2, <1>3 DEF IInv

(***************************************************************************)
(* The steps.                                                              *)
(***************************************************************************)

\* What was read says the same while the table, the file and what is left of
\* it stay.
LEMMA SameList ==
    ASSUME UNCHANGED <<disk, cfg, table, unread>>
    PROVE  /\ Lines' = Lines
           /\ Whole' <=> Whole
           /\ \A k : Listed(k)' <=> Listed(k)
           /\ \A k : ReadSoFar(k)' <=> ReadSoFar(k)
<1>1. Lines' = Lines
  BY DEF Lines
<1>2. Whole' <=> Whole
  BY <1>1 DEF Whole
<1>3. \A k : Listed(k)' <=> Listed(k)
  BY <1>1 DEF Listed
<1>4. \A k : ReadSoFar(k)' <=> ReadSoFar(k)
  BY <1>1, <1>3 DEF ReadSoFar
<1>. QED
  BY <1>1, <1>2, <1>3, <1>4

\* Nothing is said of the list at the other places.
LEMMA ListIsNotRead ==
    ASSUME pc \notin {"load", "cache", "loop"}
    PROVE  ListRead
BY DEF ListRead

\* A place that comes with the same list.
LEMMA ListStays ==
    ASSUME ListRead, UNCHANGED <<disk, cfg, table, unread>>,
           \/ pc' = pc
           \/ pc' \in {"cache", "loop"} /\ pc \in {"cache", "loop"}
           \/ pc' \notin {"load", "cache", "loop"}
    PROVE  ListRead'
BY SameList DEF ListRead

\* The process goes from one place at which nothing is held to another.
LEMMA NothingHeld ==
    ASSUME IInv, pc \in {"arguments", "platform"},
           pc' \in {"arguments", "platform", "exited"},
           UNCHANGED <<disk, held, table, unread, pending, dropped>>
    PROVE  IInv'
<1>1. Types'
  BY DEF IInv, Types, Place
<1>2. HeldByPlace'
  BY DEF IInv, HeldByPlace, counted, WithWinsock, WithSocket, WithMap, WithTable
<1>3. NothingYet' /\ ListRead'
  BY DEF IInv, NothingYet, ListRead
<1>. QED
  BY <1>1, <1>2, <1>3 DEF IInv

\* Each place of the start, and the one behind it when all goes well, with
\* the resource that is taken there.
Start == {<<"platform", "winsock", "handler">>, <<"socket", "socket", "bind">>,
          <<"map", "map", "table">>, <<"table", "table", "open">>,
          <<"cache", "cache", "loop">>}

LEMMA Takes ==
    ASSUME IInv, NEW p, NEW r, NEW q, <<p, r, q>> \in Start, pc = p, pc' = q,
           held' = take(r), UNCHANGED <<disk, cfg, table, unread, pending, dropped>>
    PROVE  IInv'
<1>1. /\ held \in [Resource -> Int] /\ r \in Resource
      /\ Types /\ HeldByPlace /\ NothingYet /\ ListRead
  BY DEF IInv, Types, Start, Resource
<1>2. /\ held' \in [Resource -> Int]
      /\ \A x \in Resource : held'[x] = IF x = r THEN held[x] + 1 ELSE held[x]
  BY <1>1 DEF take
<1>3. Types'
  BY <1>1, <1>2 DEF Types, Place, Start
<1>4. HeldByPlace'
  <2>1. CASE p = "platform" /\ r = "winsock" /\ q = "handler"
    BY <1>1, <1>2, <2>1
    DEF HeldByPlace, counted, WithWinsock, WithSocket, WithMap, WithTable, Resource
  <2>2. CASE p = "socket" /\ r = "socket" /\ q = "bind"
    BY <1>1, <1>2, <2>2
    DEF HeldByPlace, counted, WithWinsock, WithSocket, WithMap, WithTable, Resource
  <2>3. CASE p = "map" /\ r = "map" /\ q = "table"
    <3>1. pending' = 0
      BY <1>1, <2>3 DEF NothingYet
    <3>. QED
      BY <1>1, <1>2, <2>3, <3>1
      DEF HeldByPlace, counted, WithWinsock, WithSocket, WithMap, WithTable, Resource
  <2>4. CASE p = "table" /\ r = "table" /\ q = "open"
    <3>1. Cardinality(entries(table)) = 0
      BY <1>1, <2>4, NoEntries DEF NothingYet
    <3>. QED
      BY <1>1, <1>2, <2>4, <3>1
      DEF HeldByPlace, counted, WithWinsock, WithSocket, WithMap, WithTable, Resource
  <2>5. CASE p = "cache" /\ r = "cache" /\ q = "loop"
    BY <1>1, <1>2, <2>5
    DEF HeldByPlace, counted, WithWinsock, WithSocket, WithMap, WithTable, Resource
  <2>. QED
    BY <2>1, <2>2, <2>3, <2>4, <2>5 DEF Start
<1>5. NothingYet'
  BY <1>1 DEF NothingYet, Start
<1>6. ListRead'
  BY <1>1, ListStays DEF Start
<1>. QED
  BY <1>3, <1>4, <1>5, <1>6 DEF IInv

\* relay_run returns, at whatever place, when it frees all that it holds.
LEMMA ReturnsWithNothing ==
    ASSUME IInv, pc \in WithSocket \cup {"socket"}, NEW c, NEW rs,
           run_returns(c, rs),
           rs = {r \in {"socket", "map", "table", "file", "cache"} : held[r] = 1},
           UNCHANGED <<disk, pending, table, dropped>>, unread' \in Seq(Text)
    PROVE  IInv'
<1>1. /\ held \in [Resource -> Int] /\ Types /\ HeldByPlace
      /\ pending \in Nat /\ Cardinality(entries(table)) \in Nat
  BY FS_CardinalityType DEF IInv, Types
<1>2. /\ pc' = "returned"
      /\ held' = [r \in Resource |->
            IF r = "row" /\ "table" \in rs THEN held[r] - Cardinality(entries(table))
            ELSE IF r = "node" /\ "map" \in rs THEN held[r] - pending
            ELSE IF r \in rs THEN held[r] - 1 ELSE held[r]]
  BY DEF run_returns, free, without
<1>3. held' \in [Resource -> Int]
  BY <1>1, <1>2
<1>4. Types'
  BY <1>1, <1>2, <1>3 DEF Types, Place
<1>5. /\ held'["winsock"] = 1 /\ held'["socket"] = 0 /\ held'["map"] = 0
      /\ held'["table"] = 0 /\ held'["file"] = 0 /\ held'["cache"] = 0
  <2>1. \A r \in {"socket", "map", "table", "file", "cache"} : held[r] \in {0, 1}
    BY <1>1 DEF HeldByPlace, counted
  <2>2. \A r \in {"socket", "map", "table", "file", "cache"} : held'[r] = 0
    BY <1>2, <2>1 DEF Resource
  <2>3. held["winsock"] = 1
    BY <1>1 DEF HeldByPlace, counted, WithWinsock, WithSocket
  <2>. QED
    BY <1>2, <2>2, <2>3 DEF Resource
<1>6. held'["node"] = 0
  <2>1. CASE pc \in WithMap
    BY <1>1, <1>2, <2>1 DEF HeldByPlace, counted, Resource
  <2>2. CASE pc \notin WithMap
    BY <1>1, <1>2, <2>2 DEF HeldByPlace, counted, Resource
  <2>. QED
    BY <2>1, <2>2
<1>7. held'["row"] = 0
  <2>1. CASE pc \in WithTable
    BY <1>1, <1>2, <2>1 DEF HeldByPlace, counted, Resource
  <2>2. CASE pc \notin WithTable
    BY <1>1, <1>2, <2>2 DEF HeldByPlace, counted, Resource
  <2>. QED
    BY <2>1, <2>2
<1>8. held'["entry"] = dropped'
  BY <1>1, <1>2 DEF HeldByPlace, Resource
<1>9. HeldByPlace'
  BY <1>2, <1>5, <1>6, <1>7, <1>8
  DEF HeldByPlace, counted, WithWinsock, WithSocket, WithMap, WithTable
<1>10. NothingYet' /\ ListRead'
  BY <1>2 DEF NothingYet, ListRead
<1>. QED
  BY <1>4, <1>9, <1>10 DEF IInv

\* Which resources those are, place by place.
LEMMA HeldInRun ==
    ASSUME IInv
    PROVE  LET rs == {r \in {"socket", "map", "table", "file", "cache"} : held[r] = 1}
           IN  /\ pc = "socket" => rs = {}
               /\ pc \in {"bind", "map"} => rs = {"socket"}
               /\ pc = "table" => rs = {"map", "socket"}
               /\ pc = "open" => rs = {"table", "map", "socket"}
               /\ pc = "load" => rs = {"file", "table", "map", "socket"}
               /\ pc = "cache" => rs = {"table", "map", "socket"}
               /\ pc = "loop" => rs = everything
<1>1. /\ held["socket"] = counted(pc \in WithSocket)
      /\ held["map"] = counted(pc \in WithMap)
      /\ held["table"] = counted(pc \in WithTable)
      /\ held["file"] = counted(pc = "load")
      /\ held["cache"] = counted(pc = "loop")
  BY DEF IInv, HeldByPlace
<1>. QED
  BY <1>1 DEF counted, WithSocket, WithMap, WithTable, everything

\* One more line is read, and the table says what it says.
LEMMA LineRead ==
    ASSUME ListRead, pc = "load", unread # <<>>, unread \in Seq(Text),
           NEW line, line = fgets(unread).line, unread' = fgets(unread).rest,
           UNCHANGED <<pc, disk, cfg>>,
           \A w \in Word : dns_table_lookup(table', w) =
               IF names(line, w) THEN line[1] ELSE dns_table_lookup(table, w)
    PROVE  ListRead'
<1>1. Lines' = Lines /\ (Whole' <=> Whole) /\ Lines \in Seq(Text) /\ Len(Lines) \in Nat
  BY DEF Lines, Whole, ListRead
<1>2. ASSUME Whole PROVE \E k \in 0 .. Len(Lines) : ReadSoFar(k)'
  <2>1. PICK k \in 0 .. Len(Lines) : ReadSoFar(k)
    BY <1>2 DEF ListRead
  <2>2. /\ Len(unread) \in Nat \ {0} /\ Head(unread) = unread[1]
        /\ Len(Tail(unread)) = Len(unread) - 1
        /\ \A n \in 1 .. Len(unread) - 1 : Tail(unread)[n] = unread[n + 1]
    OBVIOUS
  <2>3. /\ Len(unread) = Len(Lines) - k
        /\ \A n \in 1 .. Len(unread) : unread[n] = Lines[k + n]
        /\ Listed(k)
    BY <2>1 DEF ReadSoFar
  <2>4. unread[1] = Lines[k + 1] /\ k + 1 \in 1 .. Len(Lines)
    BY <1>1, <2>2, <2>3
  <2>5. Len(Lines[k + 1]) <= LINE_CAP
    BY <1>1, <1>2, <2>4 DEF Whole
  <2>6. line = Lines[k + 1] /\ unread' = Tail(unread)
    <3>1. fgets(unread) = [line |-> Head(unread), rest |-> Tail(unread)]
      BY <2>2, <2>4, <2>5, LineTaken
    <3>. QED
      BY <2>2, <2>4, <3>1
  <2>7. PICK j : j = k + 1
    OBVIOUS
  <2>8. Len(unread') = Len(Lines) - j
    BY <1>1, <2>2, <2>3, <2>6, <2>7
  <2>9. ASSUME NEW n \in 1 .. Len(unread') PROVE unread'[n] = Lines[j + n]
    <3>1. /\ n \in 1 .. Len(unread) - 1 /\ n + 1 \in 1 .. Len(unread)
          /\ k + (n + 1) = j + n
      BY <2>2, <2>6, <2>7
    <3>. QED
      BY <2>2, <2>3, <2>6, <3>1
  <2>10. ASSUME NEW w \in Word
         PROVE  \/ /\ \A n \in 1 .. j : ~names(Lines[n], w)
                   /\ dns_table_lookup(table', w) = "MISS"
                \/ \E n \in 1 .. j :
                      /\ names(Lines[n], w)
                      /\ \A m \in n + 1 .. j : ~names(Lines[m], w)
                      /\ dns_table_lookup(table', w) = Lines[n][1]
    <3>1. CASE names(line, w)
      <4>1. dns_table_lookup(table', w) = Lines[j][1] /\ names(Lines[j], w)
        BY <2>6, <2>7, <3>1
      <4>2. j \in 1 .. j /\ \A m \in j + 1 .. j : ~names(Lines[m], w)
        BY <2>7
      <4>. QED
        BY <4>1, <4>2
    <3>2. CASE ~names(line, w)
      <4>1. dns_table_lookup(table', w) = dns_table_lookup(table, w)
            /\ ~names(Lines[j], w)
        BY <2>6, <2>7, <3>2
      <4>2. \A n \in 1 .. j : n \in 1 .. k \/ n = j
        BY <2>7
      <4>3. CASE /\ \A n \in 1 .. k : ~names(Lines[n], w)
                 /\ dns_table_lookup(table, w) = "MISS"
        BY <4>1, <4>2, <4>3
      <4>4. CASE \E n \in 1 .. k :
                    /\ names(Lines[n], w)
                    /\ \A m \in n + 1 .. k : ~names(Lines[m], w)
                    /\ dns_table_lookup(table, w) = Lines[n][1]
        <5>1. PICK n \in 1 .. k :
                    /\ names(Lines[n], w)
                    /\ \A m \in n + 1 .. k : ~names(Lines[m], w)
                    /\ dns_table_lookup(table, w) = Lines[n][1]
          BY <4>4
        <5>2. n \in 1 .. j /\ \A m \in n + 1 .. j : m \in n + 1 .. k \/ m = j
          BY <2>7
        <5>3. \A m \in n + 1 .. j : ~names(Lines[m], w)
          BY <4>1, <5>1, <5>2
        <5>. QED
          BY <4>1, <5>1, <5>2, <5>3
      <4>. QED
        BY <2>3, <4>3, <4>4 DEF Listed
    <3>. QED
      BY <3>1, <3>2
  <2>11. Listed(j)'
    BY <1>1, <2>10 DEF Listed
  <2>12. ReadSoFar(j)'
    BY <1>1, <2>8, <2>9, <2>11 DEF ReadSoFar
  <2>. QED
    BY <2>4, <2>7, <2>12
<1>3. cfg.table_path \in DOMAIN disk
  BY DEF ListRead
<1>. QED
  BY <1>1, <1>2, <1>3 DEF ListRead

LEMMA StepLoadLine == ASSUME IInv, LoadLine, UNCHANGED disk PROVE IInv'
<1>1. PICK got : got = fgets(unread)
  OBVIOUS
<1>2. PICK line : line = got.line
  OBVIOUS
<1>3. PICK row : row = row_of(line)
  OBVIOUS
<1>4. /\ pc = "load" /\ unread # <<>> /\ unread \in Seq(Text)
      /\ Types /\ HeldByPlace /\ NothingYet /\ ListRead
      /\ table \in Table /\ IsFiniteSet(entries(table))
      /\ UNCHANGED <<cfg, pending, dropped>>
  BY DEF LoadLine, IInv, Types
<1>5. line \in Text /\ got.rest \in Seq(Text)
  BY <1>1, <1>2, <1>4, LineTaken
<1>6. \/ /\ ~is_row(line)
         /\ unread' = got.rest /\ UNCHANGED <<pc, held, table>>
      \/ /\ is_row(line)
         /\ table' = upsert(table, row) /\ unread' = got.rest /\ pc' = pc
         /\ held' = IF is_new(table, row) THEN take("row") ELSE held
      \/ /\ no_memory /\ UNCHANGED <<table, unread>>
  BY <1>1, <1>2, <1>3 DEF LoadLine
<1>7. CASE ~is_row(line) /\ unread' = got.rest /\ UNCHANGED <<pc, held, table>>
  <2>1. Types' /\ HeldByPlace' /\ NothingYet'
    BY <1>4, <1>5, <1>7 DEF Types, HeldByPlace, NothingYet
  <2>2. \A w \in Word : dns_table_lookup(table', w) =
           IF names(line, w) THEN line[1] ELSE dns_table_lookup(table, w)
    BY <1>7 DEF names
  <2>3. ListRead'
    BY <1>1, <1>2, <1>4, <1>7, <2>2, LineRead
  <2>. QED
    BY <2>1, <2>3 DEF IInv
<1>8. CASE /\ is_row(line)
           /\ table' = upsert(table, row) /\ unread' = got.rest /\ pc' = pc
           /\ held' = IF is_new(table, row) THEN take("row") ELSE held
  <2>1. row \in Row /\ row.name = canonical(line[2]) /\ row.ipv4 = line[1]
    BY <1>3, <1>5, <1>8, RowIsTyped DEF row_of
  <2>2. table' \in Table
    BY <1>4, <1>8, <2>1, NewRow, KnownRow
  <2>3. /\ IsFiniteSet(entries(table'))
        /\ Cardinality(entries(table')) =
              Cardinality(entries(table)) + (IF is_new(table, row) THEN 1 ELSE 0)
    BY <1>4, <1>8, <2>1, EntriesCounted
  <2>4. /\ held' \in [Resource -> Int]
        /\ \A r \in Resource : held'[r] =
              IF r = "row" /\ is_new(table, row) THEN held[r] + 1 ELSE held[r]
    BY <1>4, <1>8 DEF take, Types, Resource
  <2>5. Types'
    BY <1>4, <1>5, <1>8, <2>2, <2>3, <2>4 DEF Types
  <2>6. HeldByPlace'
    <3>1. held["row"] = Cardinality(entries(table)) /\ Cardinality(entries(table)) \in Nat
      BY <1>4, FS_CardinalityType DEF HeldByPlace, WithTable, WithMap, WithSocket
    <3>2. held'["row"] = Cardinality(entries(table'))
      BY <2>3, <2>4, <3>1 DEF Resource
    <3>3. \A r \in Resource \ {"row"} : held'[r] = held[r]
      BY <2>4
    <3>4. pc' \in WithTable
      BY <1>4, <1>8 DEF WithTable, WithMap, WithSocket
    <3>. QED
      BY <1>4, <1>8, <3>2, <3>3, <3>4 DEF HeldByPlace, Resource
  <2>7. NothingYet'
    BY <1>4, <1>8 DEF NothingYet
  <2>8. ASSUME NEW w \in Word
        PROVE  dns_table_lookup(table', w) =
                  IF names(line, w) THEN line[1] ELSE dns_table_lookup(table, w)
    <3>1. dns_table_lookup(table', w) =
             IF canonical(w) = row.name THEN row.ipv4 ELSE dns_table_lookup(table, w)
      BY <1>4, <1>8, <2>1, LookedUpAfter
    <3>. QED
      BY <1>8, <2>1, <3>1 DEF names
  <2>9. ListRead'
    BY <1>1, <1>2, <1>4, <1>8, <2>8, LineRead
  <2>. QED
    BY <2>5, <2>6, <2>7, <2>9 DEF IInv
<1>9. CASE no_memory /\ UNCHANGED <<table, unread>>
  BY <1>4, <1>9, HeldInRun, ReturnsWithNothing DEF no_memory, WithSocket
<1>. QED
  BY <1>6, <1>7, <1>8, <1>9

\* The list is open, or was read to its end.
LEMMA StepOpenFile == ASSUME IInv, OpenFile, UNCHANGED disk PROVE IInv'
<1>1. /\ pc = "open" /\ disk \in Disks /\ Types /\ HeldByPlace /\ NothingYet
      /\ UNCHANGED <<cfg, table, pending, dropped>>
  BY DEF OpenFile, IInv, Types
<1>2. CASE /\ opened
           /\ pc' = "load" /\ held' = take("file")
           /\ unread' = disk[cfg.table_path]
  <2>1. /\ held' \in [Resource -> Int]
        /\ \A r \in Resource : held'[r] = IF r = "file" THEN held[r] + 1 ELSE held[r]
    BY <1>1, <1>2 DEF take, Types, Resource
  <2>2. /\ cfg.table_path \in DOMAIN disk /\ Lines' = Lines /\ unread' = Lines
        /\ Lines \in Seq(Text)
    BY <1>1, <1>2, DiskType DEF opened, Lines, Text
  <2>3. Types'
    BY <1>1, <1>2, <2>1, <2>2 DEF Types, Place
  <2>4. HeldByPlace'
    BY <1>1, <1>2, <2>1
    DEF HeldByPlace, counted, WithWinsock, WithSocket, WithMap, WithTable, Resource
  <2>5. NothingYet'
    BY <1>1, <1>2 DEF NothingYet
  <2>6. ASSUME NEW w \in Word PROVE dns_table_lookup(table', w) = "MISS"
    <3>1. table' = dns_table_create /\ dns_table_create \in Table
      BY <1>1, NoEntries DEF NothingYet
    <3>2. canonical(w) \in Word
      BY TableConstants DEF canonical
    <3>3. Len(dns_table_create[hash[canonical(w)]]) = 0
      BY <3>2, OwnChain, NoEntries DEF dns_table_create
    <3>. QED
      BY <3>1, <3>3, LookedUpNowhere
  <2>7. ReadSoFar(0)'
    BY <2>2, <2>6 DEF ReadSoFar, Listed
  <2>8. ListRead'
    BY <1>1, <1>2, <2>2, <2>7 DEF ListRead
  <2>. QED
    BY <2>3, <2>4, <2>5, <2>8 DEF IInv
<1>3. CASE run_returns(1, {"table", "map", "socket"}) /\ UNCHANGED unread
  <2>1. unread' \in Seq(Text)
    BY <1>1, <1>3 DEF Types
  <2>. QED
    BY <1>1, <1>3, <2>1, HeldInRun, ReturnsWithNothing DEF WithSocket
<1>. QED
  BY <1>2, <1>3 DEF OpenFile

LEMMA StepTableLoaded == ASSUME IInv, TableLoaded, UNCHANGED disk PROVE IInv'
<1>1. /\ pc = "load" /\ pc' = "cache" /\ unread = <<>> /\ free({"file"})
      /\ Types /\ HeldByPlace /\ NothingYet /\ ListRead
      /\ UNCHANGED <<cfg, table, unread, pending, dropped, disk>>
  BY DEF TableLoaded, IInv
<1>2. /\ held' \in [Resource -> Int]
      /\ \A r \in Resource : held'[r] = IF r = "file" THEN held[r] - 1 ELSE held[r]
  BY <1>1 DEF free, without, Types, Resource
<1>3. Types'
  BY <1>1, <1>2 DEF Types, Place
<1>4. HeldByPlace'
  BY <1>1, <1>2
  DEF HeldByPlace, counted, WithWinsock, WithSocket, WithMap, WithTable, Resource
<1>5. NothingYet'
  BY <1>1 DEF NothingYet
<1>6. Whole => Listed(Len(Lines))
  <2>1. SUFFICES ASSUME Whole PROVE Listed(Len(Lines))
    OBVIOUS
  <2>2. PICK k \in 0 .. Len(Lines) : ReadSoFar(k)
    BY <1>1, <2>1 DEF ListRead
  <2>3. Len(unread) = 0 /\ Len(Lines) \in Nat
    BY <1>1 DEF ListRead
  <2>4. k = Len(Lines)
    BY <2>2, <2>3 DEF ReadSoFar
  <2>. QED
    BY <2>2, <2>4 DEF ReadSoFar
<1>7. ListRead'
  BY <1>1, <1>6, SameList DEF ListRead
<1>. QED
  BY <1>3, <1>4, <1>5, <1>7 DEF IInv

\* The other steps of the start.
LEMMA StepStart ==
    ASSUME IInv, UNCHANGED disk,
           \/ ParseArgument \/ ArgumentsParsed \/ PlatformInit \/ InstallHandler
           \/ ClearStop \/ OpenSocket \/ Bind \/ CreateMap \/ CreateTable
           \/ CreateCache
    PROVE  IInv'
<1>1. Types /\ HeldByPlace /\ NothingYet /\ ListRead /\ unread \in Seq(Text)
  BY DEF IInv, Types
<1>2. CASE ParseArgument
  <2>1. /\ pc = "arguments" /\ pc' \in {"arguments", "exited"}
        /\ UNCHANGED <<disk, held, table, unread, pending, dropped>>
    BY <1>2 DEF ParseArgument, exit
  <2>. QED
    BY <2>1, NothingHeld
<1>3. CASE ArgumentsParsed
  <2>1. /\ pc = "arguments" /\ pc' \in {"platform", "exited"}
        /\ UNCHANGED <<disk, held, table, unread, pending, dropped>>
    BY <1>3 DEF ArgumentsParsed, exit
  <2>. QED
    BY <2>1, NothingHeld
<1>4. CASE PlatformInit
  <2>1. CASE pc' = "handler" /\ held' = take("winsock")
    <3>1. <<"platform", "winsock", "handler">> \in Start
      BY DEF Start
    <3>. QED
      BY <1>4, <2>1, <3>1, Takes DEF PlatformInit
  <2>2. CASE exit(1) /\ UNCHANGED held
    BY <1>4, <2>2, NothingHeld DEF PlatformInit, exit
  <2>. QED
    BY <1>4, <2>1, <2>2 DEF PlatformInit
<1>5. CASE InstallHandler \/ ClearStop
  <2>1. /\ pc \in {"handler", "clear"} /\ pc' \in {"clear", "socket"}
        /\ UNCHANGED <<disk, cfg, held, table, unread, pending, dropped>>
    BY <1>5 DEF InstallHandler, ClearStop
  <2>2. Types' /\ NothingYet'
    BY <1>1, <2>1 DEF Types, Place, NothingYet
  <2>3. HeldByPlace'
    BY <1>1, <2>1
    DEF HeldByPlace, counted, WithWinsock, WithSocket, WithMap, WithTable
  <2>4. ListRead'
    BY <2>1 DEF ListRead
  <2>. QED
    BY <2>2, <2>3, <2>4 DEF IInv
<1>6. CASE OpenSocket
  <2>1. CASE pc' = "bind" /\ held' = take("socket")
    <3>1. <<"socket", "socket", "bind">> \in Start
      BY DEF Start
    <3>. QED
      BY <1>6, <2>1, <3>1, Takes DEF OpenSocket
  <2>2. CASE run_returns(1, {})
    BY <1>1, <1>6, <2>2, HeldInRun, ReturnsWithNothing DEF OpenSocket
  <2>. QED
    BY <1>6, <2>1, <2>2 DEF OpenSocket
<1>7. CASE CreateMap
  <2>1. CASE pc' = "table" /\ held' = take("map")
    <3>1. <<"map", "map", "table">> \in Start
      BY DEF Start
    <3>. QED
      BY <1>7, <2>1, <3>1, Takes DEF CreateMap
  <2>2. CASE run_returns(1, {"socket"})
    BY <1>1, <1>7, <2>2, HeldInRun, ReturnsWithNothing DEF CreateMap, WithSocket
  <2>. QED
    BY <1>7, <2>1, <2>2 DEF CreateMap
<1>8. CASE CreateTable
  <2>1. CASE pc' = "open" /\ held' = take("table")
    <3>1. <<"table", "table", "open">> \in Start
      BY DEF Start
    <3>. QED
      BY <1>8, <2>1, <3>1, Takes DEF CreateTable
  <2>2. CASE run_returns(1, {"map", "socket"})
    BY <1>1, <1>8, <2>2, HeldInRun, ReturnsWithNothing DEF CreateTable, WithSocket
  <2>. QED
    BY <1>8, <2>1, <2>2 DEF CreateTable
<1>9. CASE CreateCache
  <2>1. CASE pc' = "loop" /\ held' = take("cache")
    <3>1. <<"cache", "cache", "loop">> \in Start
      BY DEF Start
    <3>. QED
      BY <1>9, <2>1, <3>1, Takes DEF CreateCache
  <2>2. CASE run_returns(1, {"table", "map", "socket"})
    BY <1>1, <1>9, <2>2, HeldInRun, ReturnsWithNothing DEF CreateCache, WithSocket
  <2>. QED
    BY <1>9, <2>1, <2>2 DEF CreateCache
<1>10. CASE Bind
  <2>1. CASE pc' = "map" /\ UNCHANGED <<held, code>>
    <3>1. /\ pc = "bind" /\ pc' = "map"
          /\ UNCHANGED <<disk, cfg, held, table, unread, pending, dropped>>
      BY <1>10, <2>1 DEF Bind
    <3>2. Types' /\ NothingYet'
      BY <1>1, <3>1 DEF Types, Place, NothingYet
    <3>3. HeldByPlace'
      BY <1>1, <3>1
      DEF HeldByPlace, counted, WithWinsock, WithSocket, WithMap, WithTable
    <3>4. ListRead'
      BY <3>1 DEF ListRead
    <3>. QED
      BY <3>2, <3>3, <3>4 DEF IInv
  <2>2. CASE run_returns(1, {"socket"})
    BY <1>1, <1>10, <2>2, HeldInRun, ReturnsWithNothing DEF Bind, WithSocket
  <2>. QED
    BY <1>10, <2>1, <2>2 DEF Bind
<1>. QED
  BY <1>2, <1>3, <1>4, <1>5, <1>6, <1>7, <1>8, <1>9, <1>10

\* The loop takes and frees nodes and entries.
LEMMA StepLoop ==
    ASSUME IInv, UNCHANGED disk, Forward \/ AnsweredOrExpired
    PROVE  IInv'
<1>1. /\ pc = "loop" /\ pc' = pc /\ UNCHANGED <<cfg, table, unread>>
      /\ Types /\ HeldByPlace /\ ListRead /\ held \in [Resource -> Int]
      /\ pending \in Nat /\ dropped \in Nat
  BY DEF Forward, AnsweredOrExpired, turning, IInv, Types
<1>2. /\ held' \in [Resource -> Int] /\ pending' \in Nat /\ dropped' \in Nat
      /\ \A r \in Resource \ {"node", "entry"} : held'[r] = held[r]
      /\ held'["node"] - held["node"] = pending' - pending
      /\ held'["entry"] - held["entry"] = dropped' - dropped
  <2>1. CASE /\ held' = take("node") /\ pending' = pending + 1 /\ UNCHANGED dropped
    BY <1>1, <2>1 DEF take, Resource
  <2>2. CASE /\ held' = take("entry") /\ dropped' = dropped + 1 /\ UNCHANGED pending
    BY <1>1, <2>2 DEF take, Resource
  <2>3. CASE /\ held' = [held EXCEPT !["node"] = held["node"] - 1]
             /\ pending' = pending - 1 /\ pending > 0 /\ UNCHANGED dropped
    BY <1>1, <2>3 DEF Resource
  <2>. QED
    BY <2>1, <2>2, <2>3 DEF Forward, AnsweredOrExpired
<1>3. Types'
  BY <1>1, <1>2 DEF Types
<1>4. HeldByPlace'
  <2>1. held["node"] = pending /\ held["entry"] = dropped
    BY <1>1 DEF HeldByPlace, WithMap, WithSocket
  <2>2. held["node"] \in Int /\ held["entry"] \in Int
        /\ held'["node"] \in Int /\ held'["entry"] \in Int
    BY <1>1, <1>2 DEF Resource
  <2>3. held'["node"] = pending' /\ held'["entry"] = dropped'
    BY <1>1, <1>2, <2>1, <2>2
  <2>. QED
    BY <1>1, <1>2, <2>3 DEF HeldByPlace, Resource, WithMap, WithSocket
<1>5. NothingYet' /\ ListRead'
  BY <1>1, ListStays DEF NothingYet
<1>. QED
  BY <1>3, <1>4, <1>5 DEF IInv

LEMMA StepEnd ==
    ASSUME IInv, UNCHANGED disk, LoopEnds \/ Cleanup
    PROVE  IInv'
<1>1. /\ UNCHANGED <<cfg, table, unread, pending, dropped>> /\ unread \in Seq(Text)
      /\ Types /\ HeldByPlace
  BY DEF LoopEnds, Cleanup, IInv, Types
<1>2. CASE LoopEnds
  BY <1>1, <1>2, HeldInRun, ReturnsWithNothing DEF LoopEnds, WithSocket
<1>3. CASE Cleanup
  <2>1. pc = "returned" /\ pc' = "exited" /\ free({"winsock"})
    BY <1>3 DEF Cleanup, platform_cleanup
  <2>2. /\ held' \in [Resource -> Int]
        /\ \A r \in Resource : held'[r] =
              IF r = "winsock" THEN held[r] - 1 ELSE held[r]
    BY <1>1, <2>1 DEF free, without, Types, Resource
  <2>3. Types'
    BY <1>1, <2>1, <2>2 DEF Types, Place
  <2>4. HeldByPlace'
    BY <1>1, <2>1, <2>2
    DEF HeldByPlace, counted, WithWinsock, WithSocket, WithMap, WithTable, Resource
  <2>5. NothingYet' /\ ListRead'
    BY <2>1 DEF NothingYet, ListRead
  <2>. QED
    BY <2>3, <2>4, <2>5 DEF IInv
<1>. QED
  BY <1>2, <1>3

LEMMA StepIInv == IInv /\ [Next]_vars => IInv'
<1>. SUFFICES ASSUME IInv, [Next]_vars PROVE IInv'
  OBVIOUS
<1>1. CASE Main /\ UNCHANGED disk
  BY <1>1, StepStart, StepOpenFile, StepLoadLine, StepTableLoaded, StepLoop, StepEnd
  DEF Main
<1>2. ASSUME UNCHANGED <<pc, held, table, unread, pending, dropped, cfg, disk>>
      PROVE  IInv'
  <2>1. Types' /\ HeldByPlace' /\ NothingYet'
    BY <1>2 DEF IInv, Types, HeldByPlace, NothingYet
  <2>2. ListRead'
    BY <1>2, ListStays DEF IInv
  <2>. QED
    BY <2>1, <2>2 DEF IInv
<1>3. CASE CtrlC /\ UNCHANGED disk
  BY <1>2, <1>3 DEF CtrlC
<1>4. CASE UNCHANGED vars
  BY <1>2, <1>4 DEF vars
<1>. QED
  BY <1>1, <1>3, <1>4 DEF Next

\* At every place the process holds what the places before it allocated, and
\* the table says what was read.
THEOREM StartupInvariant == Spec => []IInv
<1>. QED
  BY InitIInv, StepIInv, PTL DEF Spec

\* Whatever fails in main, relay_run and dns_table_load_file, and whenever
\* the user stops the program, everything allocated is freed exactly once,
\* except the entries that relay_forward drops.
THEOREM StartupNothingLeaks == Spec => []NothingLeaks
<1>. QED
  BY StartupInvariant, HeldMeansNoLeak, PTL

\* The list that dns_table_load_file made says of every name what the last
\* row for it says, in any file of lines that fgets takes whole.
THEOREM StartupTableAsWritten == Spec => []TableAsWritten
<1>. QED
  BY StartupInvariant, ReadMeansWritten, PTL

(***************************************************************************)
(* THE CODEC: any limit on names and any size of the reply's buffer.       *)
(***************************************************************************)

(***************************************************************************)
(* The datagram and the numbers in it.                                     *)
(***************************************************************************)

\* What the work on a datagram leaves alone.
Datagram == job \in Job /\ pkt = job.pkt

LEMMA DatagramType ==
    ASSUME Datagram
    PROVE  pkt \in Seq(Byte) /\ len \in Nat
<1>1. pkt \in Seq(Byte)
  BY JobType DEF Datagram
<1>. QED
  BY <1>1, LenProperties DEF len

\* Reading a byte or a word of the datagram gives a natural number.
LEMMA Bytes ==
    ASSUME Datagram
    PROVE  \A i \in Nat : byte(i) \in 0 .. 255 /\ byte(i) \in Nat /\ word(i) \in Nat
<1>1. \A n \in Nat : byte(n) \in Byte
  <2>. SUFFICES ASSUME NEW n \in Nat PROVE byte(n) \in Byte
    OBVIOUS
  <2>1. CASE n < len
    <3>1. n + 1 \in 1 .. Len(pkt)
      BY <2>1, DatagramType DEF len
    <3>2. pkt[n + 1] \in Byte
      BY <3>1, DatagramType, ElementOfSeq
    <3>. QED
      BY <2>1, <3>2 DEF byte
  <2>2. CASE ~(n < len)
    BY <2>2 DEF byte, Byte
  <2>. QED
    BY <2>1, <2>2
<1>2. \A n \in Nat : word(n) \in Nat
  <2>. SUFFICES ASSUME NEW n \in Nat PROVE word(n) \in Nat
    OBVIOUS
  <2>1. byte(n) \in Nat /\ byte(n + 1) \in Nat
    BY <1>1 DEF Byte
  <2>2. 256 * byte(n) + byte(n + 1) \in Nat
    BY <2>1
  <2>. QED
    BY <2>2 DEF word
<1>. QED
  BY <1>1, <1>2 DEF Byte

LEMMA PointerInNat ==
    ASSUME Datagram, cur.pos \in Nat
    PROVE  ptr \in Nat
<1>0. cur.pos + 1 \in Nat
  OBVIOUS
<1>1. byte(cur.pos) \in Nat /\ byte(cur.pos + 1) \in Nat
  BY <1>0, Bytes
<1>2. byte(cur.pos) % 64 \in Nat
  BY <1>1
<1>. QED
  BY <1>1, <1>2 DEF ptr

\* The text stays a text when a label is added.
LEMMA LongerText ==
    ASSUME Datagram, cur.pos \in Nat, cur.out \in Seq(Byte)
    PROVE  longer \in Seq(Byte)
<1>1. byte(cur.pos) \in Nat
  BY Bytes
<1>2. \A n \in 1 .. byte(cur.pos) : byte(cur.pos + n) \in Byte
  <2>1. \A n \in 1 .. byte(cur.pos) : cur.pos + n \in Nat
    BY <1>1
  <2>. QED
    BY <2>1, Bytes DEF Byte
<1>3. label \in Seq(Byte)
  <2>. DEFINE e(n) == byte(cur.pos + n)
  <2>1. \A n \in 1 .. byte(cur.pos) : e(n) \in Byte
    BY <1>2
  <2>2. [n \in 1 .. byte(cur.pos) |-> e(n)] \in [1 .. byte(cur.pos) -> Byte]
    BY <2>1
  <2>. QED
    BY <1>1, <2>2, SeqDef DEF label
<1>4. Append(cur.out, 46) \in Seq(Byte)
  BY AppendProperties DEF Byte
<1>5. Append(cur.out, 46) \o label \in Seq(Byte)
  BY <1>3, <1>4, ConcatProperties
<1>. QED
  BY <1>3, <1>5 DEF longer

(***************************************************************************)
(* The length of a reply.                                                  *)
(***************************************************************************)

LEMMA TwoParts ==
    \A a, b \in Seq(Int) : a \o b \in Seq(Int) /\ Len(a \o b) = Len(a) + Len(b)
OBVIOUS

\* A reply without records is as long as the query up to its question's end.
LEMMA ReplyLength ==
    ASSUME Datagram, NEW qend \in Nat, 12 <= qend, qend <= len,
           NEW n \in 0 .. 1, NEW rcode \in Nat
    PROVE  /\ header_and_question(qend, n, rcode) \in Seq(Int)
           /\ Len(header_and_question(qend, n, rcode)) = qend
<1>. DEFINE flags == << 128 + 8 * ((byte(2) % 128) \div 8) + (byte(2) % 2),
                        16 * (byte(3) \div 16) + rcode >>
            zeros == <<0, n, 0, 0, 0, 0>>
<1>1. \A i, k \in Nat : (1 <= i /\ i <= k /\ k <= len) =>
          /\ SubSeq(pkt, i, k) \in Seq(Int)
          /\ Len(SubSeq(pkt, i, k)) = k - i + 1
  <2>. SUFFICES ASSUME NEW i \in Nat, NEW k \in Nat, 1 <= i, i <= k, k <= len
                PROVE  /\ SubSeq(pkt, i, k) \in Seq(Int)
                       /\ Len(SubSeq(pkt, i, k)) = k - i + 1
    OBVIOUS
  <2>1. \A x \in i .. k : pkt[x] \in Int
    <3>. SUFFICES ASSUME NEW x \in i .. k PROVE pkt[x] \in Int
      OBVIOUS
    <3>1. x \in 1 .. Len(pkt)
      BY DatagramType DEF len
    <3>2. pkt[x] \in Byte
      BY <3>1, DatagramType, ElementOfSeq
    <3>. QED
      BY <3>2 DEF Byte
  <2>. QED
    BY <2>1, SubSeqProperties
<1>2. SubSeq(pkt, 13, qend) \in Seq(Int) /\ Len(SubSeq(pkt, 13, qend)) = qend - 12
  <2>1. CASE qend = 12
    <3>1. \A x \in 13 .. 12 : pkt[x] \in Int
      OBVIOUS
    <3>. QED
      BY <2>1, <3>1, SubSeqProperties
  <2>2. CASE 13 <= qend
    BY <1>1, <2>2
  <2>. QED
    BY <2>1, <2>2
<1>3. id \in Seq(Int) /\ Len(id) = 2
  <2>1. SubSeq(pkt, 1, 2) \in Seq(Int) /\ Len(SubSeq(pkt, 1, 2)) = 2 - 1 + 1
    <3>1. 1 <= 1 /\ 1 <= 2 /\ 2 <= len /\ 1 \in Nat /\ 2 \in Nat
      BY DatagramType
    <3>. QED
      BY <1>1, <3>1, Zenon
  <2>. QED
    BY <2>1 DEF id
<1>4. SubSeq(pkt, 5, 6) \in Seq(Int) /\ Len(SubSeq(pkt, 5, 6)) = 2
  BY <1>1, DatagramType
<1>5. flags \in Seq(Int) /\ Len(flags) = 2
  <2>1. byte(2) \in 0 .. 255 /\ byte(3) \in 0 .. 255
    BY Bytes
  <2>2. /\ 128 + 8 * ((byte(2) % 128) \div 8) + (byte(2) % 2) \in Int
        /\ 16 * (byte(3) \div 16) + rcode \in Int
    BY <2>1
  <2>. QED
    BY <2>2
<1>6. zeros \in Seq(Int) /\ Len(zeros) = 6
  OBVIOUS
<1>. DEFINE counts == SubSeq(pkt, 5, 6)
            question == SubSeq(pkt, 13, qend)
<1>7. header_and_question(qend, n, rcode) = id \o flags \o counts \o zeros \o question
  BY DEF header_and_question
<1>8. counts \in Seq(Int) /\ Len(counts) = 2
  BY <1>4
<1>9. question \in Seq(Int) /\ Len(question) = qend - 12
  BY <1>2
<1>. HIDE DEF flags, zeros, counts, question
<1>10. id \o flags \in Seq(Int) /\ Len(id \o flags) = Len(id) + Len(flags)
  BY <1>3, <1>5, TwoParts, Zenon
<1>11. /\ (id \o flags) \o counts \in Seq(Int)
       /\ Len((id \o flags) \o counts) = Len(id \o flags) + Len(counts)
  BY <1>8, <1>10, TwoParts, Zenon
<1>12. /\ ((id \o flags) \o counts) \o zeros \in Seq(Int)
       /\ Len(((id \o flags) \o counts) \o zeros)
            = Len((id \o flags) \o counts) + Len(zeros)
  BY <1>6, <1>11, TwoParts, Zenon
<1>13. /\ (((id \o flags) \o counts) \o zeros) \o question \in Seq(Int)
       /\ Len((((id \o flags) \o counts) \o zeros) \o question)
            = Len(((id \o flags) \o counts) \o zeros) + Len(question)
  BY <1>9, <1>12, TwoParts, Zenon
<1>14. Len((((id \o flags) \o counts) \o zeros) \o question) = qend
  BY <1>3, <1>5, <1>6, <1>8, <1>9, <1>10, <1>11, <1>12, <1>13
<1>. QED
  BY <1>7, <1>13, <1>14

\* No reply is longer than the buffer it is built in.
LEMMA BuiltFits ==
    ASSUME Datagram, NEW qend \in Nat, 12 <= qend, qend <= len
    PROVE  Len(built(qend)) <= UDP_BUF_SIZE
<1>. USE BufferSize
<1>1. Len(<<>>) <= UDP_BUF_SIZE
  OBVIOUS
<1>2. CASE job.verdict = <<>>
  <2>1. Len(header_and_question(qend, 0, 3)) = qend
    BY ReplyLength
  <2>. QED
    BY <1>1, <1>2, <2>1 DEF built
<1>3. CASE job.verdict # <<>>
  <2>1. job.verdict \in Seq(Int) /\ Len(job.verdict) = 4
    <3>1. job.verdict \in {v \in Seq(Byte) : Len(v) = 4}
      BY <1>3, JobType DEF Datagram
    <3>2. job.verdict \in Seq(Byte) /\ Len(job.verdict) = 4
      BY <3>1
    <3>3. Byte \subseteq Int
      BY DEF Byte
    <3>. QED
      BY <3>2, <3>3, SeqMonotonic
  <2>. DEFINE fixed == <<192, 12, 0, 1, 0, 1, 0, 0, 0, 60, 0, 4>>
  <2>2. fixed \in Seq(Int) /\ Len(fixed) = 12
    OBVIOUS
  <2>6. a_record(job.verdict) = fixed \o job.verdict
    BY DEF a_record
  <2>. HIDE DEF fixed
  <2>7. /\ fixed \o job.verdict \in Seq(Int)
        /\ Len(fixed \o job.verdict) = Len(fixed) + Len(job.verdict)
    BY <2>1, <2>2, TwoParts, Zenon
  <2>3. a_record(job.verdict) \in Seq(Int) /\ Len(a_record(job.verdict)) = 16
    BY <2>1, <2>2, <2>6, <2>7
  <2>4. /\ header_and_question(qend, 1, 0) \in Seq(Int)
        /\ Len(header_and_question(qend, 1, 0)) = qend
    BY ReplyLength
  <2>5. Len(header_and_question(qend, 1, 0) \o a_record(job.verdict)) = qend + 16
    BY <2>3, <2>4, TwoParts
  <2>. QED
    BY <1>1, <1>3, <2>5 DEF built
<1>. QED
  BY <1>2, <1>3

(***************************************************************************)
(* The inductive invariant.                                                *)
(***************************************************************************)

\* A name ends behind its beginning: until the first jump the cursor only
\* goes on, and the first pointer lies behind the beginning.
CursorAhead == cur.offset <= (IF cur.jump_return = 0 THEN cur.pos ELSE cur.jump_return)

\* A query has one name, at the end of the header, and is not read as an
\* answer is.
QueryPhase ==
    /\ job.kind = "query" => stage \in {"header", "question", "done"}
    /\ stage = "question" => cur.offset = 12

MessageInv == Datagram /\ InBounds /\ CursorAhead /\ QueryPhase

\* The bytes behind a name begin at or after its offset.
LEMMA AfterName ==
    ASSUME CursorType, CursorAhead
    PROVE  after_name \in Nat /\ cur.offset <= after_name
BY DEF CursorType, CursorAhead, after_name, consumed

LEMMA Started ==
    ASSUME NEW at \in Nat
    PROVE  /\ start(at) \in [offset : Nat, pos : Nat, out : Seq(Byte), jumps : Nat,
                             jump_return : Nat, status : {"reading", "read", "failed"}]
           /\ start(at).offset = at /\ start(at).pos = at
           /\ start(at).out = <<>> /\ Len(start(at).out) = 0
           /\ start(at).jumps = 0 /\ start(at).jump_return = 0
<1>1. <<>> \in Seq(Byte) /\ Len(<<>>) = 0
  OBVIOUS
<1>. QED
  BY <1>1 DEF start

LEMMA InitMessageInv == MessageInit => MessageInv
<1>. SUFFICES ASSUME MessageInit PROVE MessageInv
  OBVIOUS
<1>1. Datagram
  BY DEF MessageInit, Datagram
<1>2. len \in Nat
  BY <1>1, DatagramType
<1>3. cur = start(0) /\ 0 \in Nat
  BY DEF MessageInit
<1>. QED
  BY <1>1, <1>2, <1>3, Started, NameLimits
  DEF MessageInit, MessageInv, InBounds, CursorType, Phase, CursorAhead, QueryPhase

\* A loop that begins a name inside the datagram keeps the invariant.
LEMMA NameBegins ==
    ASSUME MessageInv, UNCHANGED <<pkt, job>>, NEW at \in Nat, at <= len,
           NEW loop \in {"question", "skip", "cnames", "target", "addresses"},
           NEW i, read_name(loop, i, at),
           next' \in Nat, next' <= len, ans_offset' \in Nat, ans_offset' <= len,
           loop = "question" => at = 12,
           loop # "question" => job.kind # "query"
    PROVE  MessageInv'
<1>1. Datagram' /\ len' = len /\ len \in Nat
  BY DatagramType DEF MessageInv, Datagram, len
<1>2. cur' = start(at) /\ stage' = loop
  BY DEF read_name
<1>3. CursorType'
  BY <1>2, Started DEF CursorType
<1>4. InBounds'
  BY <1>1, <1>2, <1>3, Started, NameLimits DEF InBounds, Phase
<1>5. CursorAhead'
  BY <1>2, Started DEF CursorAhead
<1>6. QueryPhase'
  BY <1>2, Started DEF QueryPhase
<1>. QED
  BY <1>1, <1>4, <1>5, <1>6 DEF MessageInv

\* So does the end of the work, with nothing or with a result that fits.
LEMMA WorkEnds ==
    ASSUME MessageInv, UNCHANGED <<pkt, job>>, NEW r, return(r),
           (job.kind = "query" /\ r # Dropped) => Len(r.reply) <= UDP_BUF_SIZE
    PROVE  MessageInv'
<1>1. Datagram' /\ len' = len
  BY DEF MessageInv, Datagram, len
<1>2. /\ stage' = "done" /\ result' = r /\ job' = job
      /\ UNCHANGED <<cur, next, ans_offset>>
  BY DEF return
<1>3. InBounds'
  BY <1>1, <1>2 DEF MessageInv, InBounds, CursorType, Phase
<1>4. CursorAhead' /\ QueryPhase'
  BY <1>2 DEF MessageInv, CursorAhead, QueryPhase
<1>. QED
  BY <1>1, <1>3, <1>4 DEF MessageInv

LEMMA Dropping ==
    ASSUME MessageInv, UNCHANGED <<pkt, job>>, drop
    PROVE  MessageInv'
BY WorkEnds DEF drop

(***************************************************************************)
(* A turn of the loop that reads a name.                                   *)
(***************************************************************************)
LEMMA TurnKeepsInv ==
    ASSUME MessageInv, UNCHANGED <<pkt, job>>, NameTurn
    PROVE  MessageInv'
<1>. DEFINE keeps == stage # "skip"
<1>1. Datagram' /\ Datagram /\ len' = len /\ len \in Nat
  BY DatagramType DEF MessageInv, Datagram, len
<1>2. /\ UNCHANGED <<stage, next, ans_offset, result, job>>
      /\ stage \in {"question", "skip", "cnames", "target", "addresses"}
      /\ reading /\ NameStep(keeps)
  BY DEF NameTurn, NameStep
<1>3. /\ CursorType /\ CursorAhead /\ cur.pos \in Nat /\ cur.out \in Seq(Byte)
      /\ cur.jumps \in Nat /\ cur.jump_return \in Nat /\ cur.offset \in Nat
      /\ Len(cur.out) < NAME_CAP
  BY <1>2 DEF MessageInv, InBounds, CursorType, reading
<1>4. SUFFICES /\ CursorType' /\ CursorAhead'
               /\ cur'.pos <= len /\ cur'.offset = cur.offset
               /\ cur'.jump_return <= len /\ cur'.jumps <= DNS_NAME_JUMP_MAX
               /\ cur'.status # "failed" => Len(cur'.out) < NAME_CAP
  <2>1. InBounds'
    BY <1>1, <1>2, <1>4 DEF MessageInv, InBounds, Phase
  <2>2. QueryPhase'
    BY <1>2, <1>4 DEF MessageInv, QueryPhase
  <2>. QED
    BY <1>1, <1>4, <2>1, <2>2 DEF MessageInv
<1>5. /\ cur.pos <= len /\ cur.offset <= len /\ cur.jump_return <= len
      /\ cur.jumps <= DNS_NAME_JUMP_MAX
  BY DEF MessageInv, InBounds
<1>6. byte(cur.pos) \in Nat
  BY <1>1, <1>3, Bytes
<1>7. CASE FollowPointer
  <2>1. /\ cur' = [cur EXCEPT !.pos = ptr, !.jumps = @ + 1,
                   !.jump_return = IF @ = 0 THEN cur.pos + 2 ELSE @]
        /\ cur.pos + 1 < len /\ cur.jumps < DNS_NAME_JUMP_MAX /\ ptr < len
    BY <1>7 DEF FollowPointer, may_jump
  <2>2. ptr \in Nat
    BY <1>1, <1>3, PointerInNat
  <2>. DEFINE behind == IF cur.jump_return = 0 THEN cur.pos + 2 ELSE cur.jump_return
  <2>6. behind \in Nat /\ cur.jumps + 1 \in Nat
    BY <1>3
  <2>7. cur' = [cur EXCEPT !.pos = ptr, !.jumps = cur.jumps + 1, !.jump_return = behind]
    BY <2>1
  <2>. HIDE DEF behind
  <2>3. CursorType'
    BY <1>3, <2>2, <2>6, <2>7 DEF CursorType
  <2>. USE DEF behind
  <2>4. /\ cur'.pos = ptr /\ cur'.jumps = cur.jumps + 1 /\ cur'.offset = cur.offset
        /\ cur'.jump_return = IF cur.jump_return = 0 THEN cur.pos + 2
                              ELSE cur.jump_return
        /\ cur'.out = cur.out /\ cur'.status = cur.status
    BY <1>3, <2>1 DEF CursorType
  <2>5. CursorAhead'
    BY <1>3, <2>4 DEF CursorAhead
  <2>. QED
    BY <1>1, <1>3, <1>5, <2>1, <2>2, <2>3, <2>4, <2>5, NameLimits
<1>8. CASE TakeLabel(keeps)
  <2>1. /\ cur' = [cur EXCEPT !.pos = @ + 1 + byte(@),
                              !.out = IF keeps THEN longer ELSE @]
        /\ cur.pos + 1 + byte(cur.pos) <= len
        /\ keeps => Len(longer) < NAME_CAP
    BY <1>8 DEF TakeLabel, whole, has_room
  <2>2. longer \in Seq(Byte)
    BY <1>1, <1>3, LongerText
  <2>. HIDE DEF keeps
  <2>. DEFINE text == IF keeps THEN longer ELSE cur.out
  <2>6. text \in Seq(Byte) /\ cur.pos + 1 + byte(cur.pos) \in Nat
    BY <1>3, <1>6, <2>2
  <2>7. cur' = [cur EXCEPT !.pos = cur.pos + 1 + byte(cur.pos), !.out = text]
    BY <2>1
  <2>. HIDE DEF text
  <2>3. CursorType'
    BY <1>3, <2>6, <2>7 DEF CursorType
  <2>. USE DEF text
  <2>4. /\ cur'.pos = cur.pos + 1 + byte(cur.pos) /\ cur'.offset = cur.offset
        /\ cur'.jumps = cur.jumps /\ cur'.jump_return = cur.jump_return
        /\ cur'.out = (IF keeps THEN longer ELSE cur.out)
        /\ cur'.status = cur.status
    BY <1>3, <2>1 DEF CursorType
  <2>5. CursorAhead'
    BY <1>3, <1>6, <2>4 DEF CursorAhead
  <2>. QED
    BY <1>1, <1>3, <1>5, <1>6, <2>1, <2>2, <2>3, <2>4, <2>5
<1>9. CASE NameEnds
  BY <1>3, <1>5, <1>9 DEF NameEnds, CursorType, CursorAhead
<1>10. CASE NameFails(keeps)
  <2>1. PICK rest \in Garbage :
            cur' = [cur EXCEPT !.status = "failed",
                               !.out = IF dot_written(keeps)
                                       THEN Append(@, 46) \o rest ELSE @]
    BY <1>10 DEF NameFails
  <2>2. Append(cur.out, 46) \o rest \in Seq(Byte)
    <3>1. Append(cur.out, 46) \in Seq(Byte)
      BY <1>3, AppendProperties DEF Byte
    <3>2. rest \in Seq(Byte)
      BY NameLimits
    <3>. QED
      BY <3>1, <3>2, ConcatProperties
  <2>. QED
    BY <1>3, <1>5, <2>1, <2>2 DEF CursorType, CursorAhead
<1>. QED
  BY <1>2, <1>7, <1>8, <1>9, <1>10 DEF NameStep

(***************************************************************************)
(* The other actions.                                                      *)
(***************************************************************************)

\* The fixed part of a record lies behind its name.
LEMMA RecordFields ==
    ASSUME MessageInv
    PROVE  after_name \in Nat /\ rdata \in Nat /\ rdlen \in Nat
<1>1. after_name \in Nat
  BY AfterName DEF MessageInv, InBounds
<1>2. rdlen \in Nat
  BY <1>1, Bytes DEF rdlen, MessageInv
<1>. QED
  BY <1>1, <1>2 DEF rdata

LEMMA HeaderKeepsInv ==
    ASSUME MessageInv, UNCHANGED <<pkt, job>>, HeaderRead
    PROVE  MessageInv'
<1>1. CASE drop
  BY <1>1, Dropping
<1>2. CASE header_ok /\ ~drop
  <2>1. len \in Nat /\ 12 <= len
    BY <1>2, DatagramType DEF header_ok, MessageInv
  <2>2. /\ read_name(IF job.kind = "query" THEN "question" ELSE "skip", 0, 12)
        /\ UNCHANGED <<next, ans_offset>>
    BY <1>2 DEF HeaderRead
  <2>3. next \in Nat /\ next <= len /\ ans_offset \in Nat /\ ans_offset <= len
    BY DEF MessageInv, InBounds
  <2>. QED
    BY <2>1, <2>2, <2>3, NameBegins
<1>. QED
  BY <1>1, <1>2 DEF HeaderRead

LEMMA UnreadableKeepsInv ==
    ASSUME MessageInv, UNCHANGED <<pkt, job>>, NameUnreadable
    PROVE  MessageInv'
BY Dropping DEF NameUnreadable

LEMMA QuestionKeepsInv ==
    ASSUME MessageInv, UNCHANGED <<pkt, job>>, QuestionRead
    PROVE  MessageInv'
<1>. DEFINE at == after_name
<1>1. at \in Nat /\ 12 <= at
  BY AfterName DEF QuestionRead, MessageInv, InBounds, QueryPhase
<1>2. CASE drop
  BY <1>2, Dropping
<1>3. CASE ~drop
  <2>. DEFINE r == [id |-> id, qname |-> qname_to_lower(cur.out),
                    qtype |-> word(at), qclass |-> word(at + 2),
                    reply |-> IF word(at) = 1 /\ word(at + 2) = 1
                              THEN built(at + 4) ELSE <<>>]
  <2>1. at + 4 <= len /\ return(r)
    BY <1>3 DEF QuestionRead
  <2>2. Len(built(at + 4)) <= UDP_BUF_SIZE
    <3>1. at + 4 \in Nat /\ 12 <= at + 4
      BY <1>1
    <3>. QED
      BY <2>1, <3>1, BuiltFits DEF MessageInv
  <2>3. Len(r.reply) <= UDP_BUF_SIZE
    <3>1. r.reply = built(at + 4) \/ r.reply = <<>>
      OBVIOUS
    <3>2. Len(<<>>) <= UDP_BUF_SIZE
      BY BufferSize
    <3>. QED
      BY <2>2, <3>1, <3>2
  <2>. HIDE DEF r
  <2>. QED
    BY <2>1, <2>3, WorkEnds
<1>. QED
  BY <1>2, <1>3

LEMMA SkippedKeepsInv ==
    ASSUME MessageInv, UNCHANGED <<pkt, job>>, QuestionSkipped
    PROVE  MessageInv'
<1>. DEFINE at == after_name + 4
<1>1. at \in Nat
  BY AfterName DEF MessageInv, InBounds
<1>2. CASE drop
  BY <1>2, Dropping
<1>3. CASE ~drop
  <2>1. /\ at <= len /\ job.kind # "query"
        /\ \/ read_name("skip", count + 1, at) /\ UNCHANGED <<next, ans_offset>>
           \/ read_name("cnames", 0, at) /\ ans_offset' = at /\ UNCHANGED next
    BY <1>3 DEF QuestionSkipped, MessageInv, QueryPhase
  <2>2. /\ next' \in Nat /\ next' <= len /\ ans_offset' \in Nat /\ ans_offset' <= len
    BY <1>1, <2>1, DatagramType DEF MessageInv, InBounds
  <2>. HIDE DEF at
  <2>. QED
    BY <1>1, <2>1, <2>2, NameBegins
<1>. QED
  BY <1>2, <1>3

\* The first pass over the records goes on, or the second begins.
LEMMA PassGoesOn ==
    ASSUME MessageInv, UNCHANGED <<pkt, job>>, NEW at \in Nat, at <= len,
           next_cname_record(at), UNCHANGED <<next, ans_offset>>,
           job.kind # "query"
    PROVE  MessageInv'
<1>1. next' \in Nat /\ next' <= len /\ ans_offset' \in Nat /\ ans_offset' <= len
  BY DatagramType DEF MessageInv, InBounds
<1>2. CASE read_name("cnames", count + 1, at)
  BY <1>1, <1>2, NameBegins
<1>3. CASE read_name("addresses", 0, ans_offset)
  BY <1>1, <1>3, NameBegins
<1>. QED
  BY <1>2, <1>3 DEF next_cname_record

LEMMA CnameKeepsInv ==
    ASSUME MessageInv, UNCHANGED <<pkt, job>>, CnameRecord
    PROVE  MessageInv'
<1>1. CASE drop
  BY <1>1, Dropping
<1>2. CASE ~drop
  <2>1. /\ record_whole /\ UNCHANGED ans_offset /\ job.kind # "query"
        /\ \/ read_name("target", count, rdata) /\ next' = rdata + rdlen
           \/ next_cname_record(rdata + rdlen) /\ UNCHANGED next
    BY <1>2 DEF CnameRecord, MessageInv, QueryPhase
  <2>2. /\ rdata \in Nat /\ rdata <= len
        /\ rdata + rdlen \in Nat /\ rdata + rdlen <= len
    BY <2>1, RecordFields DEF record_whole
  <2>3. CASE read_name("target", count, rdata) /\ next' = rdata + rdlen
    <3>1. ans_offset' \in Nat /\ ans_offset' <= len /\ next' \in Nat /\ next' <= len
      BY <2>1, <2>2, <2>3, DatagramType DEF MessageInv, InBounds
    <3>. QED
      BY <2>1, <2>2, <2>3, <3>1, NameBegins
  <2>4. CASE next_cname_record(rdata + rdlen) /\ UNCHANGED next
    BY <2>1, <2>2, <2>4, PassGoesOn
  <2>. QED
    BY <2>1, <2>3, <2>4
<1>. QED
  BY <1>1, <1>2

LEMMA TargetKeepsInv ==
    ASSUME MessageInv, UNCHANGED <<pkt, job>>, TargetRead
    PROVE  MessageInv'
<1>1. next_cname_record(next) /\ UNCHANGED <<next, ans_offset>> /\ job.kind # "query"
  BY DEF TargetRead, MessageInv, QueryPhase
<1>2. next \in Nat /\ next <= len
  BY DatagramType DEF MessageInv, InBounds
<1>. QED
  BY <1>1, <1>2, PassGoesOn

LEMMA AddressKeepsInv ==
    ASSUME MessageInv, UNCHANGED <<pkt, job>>, AddressRecord
    PROVE  MessageInv'
<1>. job.kind # "query"
  BY DEF AddressRecord, MessageInv, QueryPhase
<1>1. CASE drop
  BY <1>1, Dropping
<1>2. CASE return([ip |-> SubSeq(pkt, rdata + 1, rdata + 4), ttl |-> ttl])
  BY <1>2, WorkEnds
<1>3. CASE /\ record_whole /\ read_name("addresses", count + 1, rdata + rdlen)
           /\ UNCHANGED <<next, ans_offset>>
  <2>1. rdata + rdlen \in Nat /\ rdata + rdlen <= len
    BY <1>3, RecordFields DEF record_whole
  <2>2. next' \in Nat /\ next' <= len /\ ans_offset' \in Nat /\ ans_offset' <= len
    BY <1>3, DatagramType DEF MessageInv, InBounds
  <2>. QED
    BY <1>3, <2>1, <2>2, NameBegins
<1>. QED
  BY <1>1, <1>2, <1>3 DEF AddressRecord

LEMMA NextMessageInv == MessageInv /\ [MessageNext]_mvars => MessageInv'
<1>. SUFFICES ASSUME MessageInv, [MessageNext]_mvars PROVE MessageInv'
  OBVIOUS
<1>1. CASE UNCHANGED mvars
  BY <1>1 DEF mvars, MessageInv, Datagram, InBounds, CursorType, CursorAhead, QueryPhase, len
<1>2. CASE MessageNext
  <2>. UNCHANGED <<pkt, job>>
    BY <1>2 DEF MessageNext
  <2>1. CASE HeaderRead
    BY <2>1, HeaderKeepsInv
  <2>2. CASE NameTurn
    BY <2>2, TurnKeepsInv
  <2>3. CASE NameUnreadable
    BY <2>3, UnreadableKeepsInv
  <2>4. CASE QuestionRead
    BY <2>4, QuestionKeepsInv
  <2>5. CASE QuestionSkipped
    BY <2>5, SkippedKeepsInv
  <2>6. CASE CnameRecord
    BY <2>6, CnameKeepsInv
  <2>7. CASE TargetRead
    BY <2>7, TargetKeepsInv
  <2>8. CASE AddressRecord
    BY <2>8, AddressKeepsInv
  <2>. QED
    BY <1>2, <2>1, <2>2, <2>3, <2>4, <2>5, <2>6, <2>7, <2>8 DEF MessageNext
<1>. QED
  BY <1>1, <1>2

(***************************************************************************)
(* dns_packet.c stays inside the datagram, the name buffers and the reply  *)
(* buffer: for a datagram of any length and content, any limit on pointers *)
(* and names, and any size of the reply's buffer.                          *)
(***************************************************************************)
THEOREM StaysInBounds == MessageSpec => []InBounds
<1>1. MessageInv => InBounds
  BY DEF MessageInv
<1>. QED
  BY <1>1, InitMessageInv, NextMessageInv, PTL DEF MessageSpec

(***************************************************************************)
(* Every turn of decode_name and skip_name_at ends the name, or follows    *)
(* one of the DNS_NAME_JUMP_MAX pointers a name may have, or follows none  *)
(* and gets closer to the end of the datagram.  So a name takes at most    *)
(* (DNS_NAME_JUMP_MAX + 1) * (len + 1) turns, whatever its pointers are.   *)
(***************************************************************************)
TurnsAreLimited ==
    NameTurn =>
        \/ cur'.status # "reading"
        \/ cur.jumps < cur'.jumps /\ cur'.jumps <= DNS_NAME_JUMP_MAX
        \/ cur'.jumps = cur.jumps /\ cur.pos < cur'.pos /\ cur'.pos <= len

\* The two loops of dns_packet.c that read a name end, for every datagram.
THEOREM NamesEnd == MessageSpec => [][TurnsAreLimited]_mvars
<1>1. ASSUME MessageInv, NameTurn
      PROVE  \/ cur'.status # "reading"
             \/ cur.jumps < cur'.jumps /\ cur'.jumps <= DNS_NAME_JUMP_MAX
             \/ cur'.jumps = cur.jumps /\ cur.pos < cur'.pos /\ cur'.pos <= len
  <2>1. /\ CursorType /\ cur.pos \in Nat /\ cur.jumps \in Nat
        /\ len \in Nat /\ byte(cur.pos) \in Nat
    BY <1>1, DatagramType, Bytes DEF MessageInv, InBounds, CursorType
  <2>2. CASE FollowPointer
    <3>1. cur'.jumps = cur.jumps + 1 /\ cur.jumps < DNS_NAME_JUMP_MAX
      BY <2>1, <2>2 DEF FollowPointer, may_jump, CursorType
    <3>. QED
      BY <2>1, <3>1, NameLimits
  <2>3. ASSUME NEW keeps, TakeLabel(keeps)
        PROVE  cur'.jumps = cur.jumps /\ cur.pos < cur'.pos /\ cur'.pos <= len
    <3>1. /\ cur'.pos = cur.pos + 1 + byte(cur.pos) /\ cur'.jumps = cur.jumps
          /\ cur.pos + 1 + byte(cur.pos) <= len
      BY <2>1, <2>3 DEF TakeLabel, whole, CursorType
    <3>. QED
      BY <2>1, <3>1
  <2>4. ASSUME NEW keeps, NameEnds \/ NameFails(keeps)
        PROVE  cur'.status # "reading"
    BY <2>1, <2>4 DEF NameEnds, NameFails, CursorType
  <2>. QED
    BY <1>1, <2>2, <2>3, <2>4 DEF NameTurn, NameStep
<1>2. MessageInv /\ [MessageNext]_mvars => [TurnsAreLimited]_mvars
  BY <1>1 DEF TurnsAreLimited
<1>. QED
  BY <1>2, InitMessageInv, NextMessageInv, PTL DEF MessageSpec
=============================================================================
