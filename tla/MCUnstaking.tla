---------------------------- MODULE MCUnstaking ----------------------------
(* Model-checking instance of Unstaking and the vault: two addresses, one *)
(* hyper formulator and one formulator of another type.                   *)
EXTENDS Unstaking

CONSTANTS x1, x2, hy, fo

MCAddrs == {x1, x2}
MCHypers == {hy}
MCOthers == {fo}

=============================================================================
