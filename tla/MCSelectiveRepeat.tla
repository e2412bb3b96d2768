------------------------- MODULE MCSelectiveRepeat -------------------------
(***************************************************************************)
(* Small instances of SelectiveRepeat for TLC.                             *)
(***************************************************************************)
EXTENDS SelectiveRepeat, TLC

\* More packets than there are numbers one way, acknowledgements on data
\* frames the other way.
PastWrap == A :> 5 @@ B :> 1
\* One packet more than the window holds.
WindowPlusOne == A :> 3 @@ B :> 0
=============================================================================
