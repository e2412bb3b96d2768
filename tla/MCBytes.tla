------------------------------ MODULE MCBytes ------------------------------
(***************************************************************************)
(* The code that works on bytes, of either program: DnsMessage on its      *)
(* messages, and Checksum on its frames.  The two have nothing to do with  *)
(* each other, so TLC takes one or the other: no frames are put next to a  *)
(* message, and next to frames the message is the one of no bytes, which   *)
(* is dropped before they are put.                                         *)
(***************************************************************************)
EXTENDS MCDnsMessage, MCChecksum

BytesInit == MessageInit /\ Init /\ (frames = <<>> \/ job = NoBytes)

MessageRead == MessageNext /\ UNCHANGED vars
FramesChecked == stage = "done" /\ Next /\ UNCHANGED mvars

BytesNext == MessageRead \/ FramesChecked

BytesSpec == /\ BytesInit /\ [][BytesNext]_<<mvars, vars>>
             /\ WF_<<mvars, vars>>(MessageRead)
=============================================================================
