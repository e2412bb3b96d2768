-------------------------- MODULE MCPhysicalLayer --------------------------
(***************************************************************************)
(* A small instance of PhysicalLayer for TLC.                              *)
(***************************************************************************)
EXTENDS PhysicalLayer
=============================================================================
