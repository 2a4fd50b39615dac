------------------------------ MODULE MCTxPool ------------------------------
(* Model-checking instance of TxPool: one sender, two variants of each   *)
(* of two sequence numbers; one transaction worker (MCOneWorker) for the *)
(* passing run, two for the race runs.                                   *)
EXTENDS TxPool

CONSTANTS a1, x, y, w1, w2

MCAccounts == {a1}
MCIds == {x, y}
MCWorkers == {w1, w2}
MCOneWorker == {w1}

=============================================================================
