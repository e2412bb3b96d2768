------------------------- MODULE MCGoBackNPiggy -------------------------
(***************************************************************************)
(* A small instance of GoBackNPiggy for TLC.                               *)
(***************************************************************************)
EXTENDS GoBackNPiggy, TLC

\* More packets than there are numbers one way, acknowledgements on data
\* frames the other way.
PastWrap == A :> 5 @@ B :> 1
=============================================================================
