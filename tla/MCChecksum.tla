----------------------------- MODULE MCChecksum -----------------------------
(***************************************************************************)
(* Frames for TLC: short ones, and data frames of which the data is five   *)
(* bytes, so that the longest frame is a byte shorter than the buffer, as  *)
(* in the protocols, and two short ones that noise joins fill it.          *)
(***************************************************************************)
EXTENDS Checksum

Full == data_frame(0, 1, [n \in 1 .. 5 |-> uchar(<<255, 16, 129, 74, 255>>[n])])
Zero == data_frame(1, 0, <<{}, {}, {}, {}, {}>>)

MCTraffic == {<<>>, <<ack_frame(0), ack_frame(1)>>, <<nak_frame(7), ack_frame(1)>>,
              <<Full>>, <<Zero, ack_frame(0)>>}

=============================================================================
