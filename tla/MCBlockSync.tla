---------------------------- MODULE MCBlockSync ----------------------------
(* Model-checking instance of BlockSync: one observer, node peers as     *)
(* model values, windows of two heights.                                 *)
EXTENDS BlockSync

CONSTANTS p1, p2, o1

MCPeers == {p1}
MCTwoPeers == {p1, p2}
MCByzantine == {p2}
MCObs == {o1}

=============================================================================
