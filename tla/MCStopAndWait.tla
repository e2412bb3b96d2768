---------------------------- MODULE MCStopAndWait ----------------------------
(***************************************************************************)
(* Both stations send: acknowledgements also travel on data frames.        *)
(***************************************************************************)
EXTENDS StopAndWait, TLC

BothWays == A :> 3 @@ B :> 2
=============================================================================
