----------------------------- MODULE MCDnsCache -----------------------------
(***************************************************************************)
(* A cache of two entries for three names, two of which share a bucket.    *)
(***************************************************************************)
EXTENDS DnsCache

CONSTANTS x, y, z, X, b1, b2

\* Two of the names collide.
Hash == x :> b1 @@ y :> b1 @@ z :> b2
\* One of the names is also written in capitals.
Lower == x :> x @@ X :> x @@ y :> y @@ z :> z

\* Which address and which memory cell is used makes no difference.
Symmetry == Permutations(Ipv4) \cup Permutations(Node)
=============================================================================
