---------------------------- MODULE MCFramedPeer ----------------------------
(* The two ends of one connection, messages of a small and of a          *)
(* compressed size.                                                       *)
EXTENDS FramedPeer

CONSTANTS a, b

MCEnds == {a, b}
MCSizes == {3, 1001}
=============================================================================
