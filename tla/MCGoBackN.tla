------------------------------ MODULE MCGoBackN ------------------------------
(***************************************************************************)
(* Small instances of GoBackN for TLC.  The directions do not share        *)
(* anything but flow control: data frames carry no acknowledgement.        *)
(***************************************************************************)
EXTENDS GoBackN, TLC

\* More packets than there are numbers.
PastWrap == A :> 9 @@ B :> 0
\* One packet more than the window of two holds.
WindowPlusOne == A :> 3 @@ B :> 0
=============================================================================
