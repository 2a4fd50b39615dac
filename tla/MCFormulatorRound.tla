------------------------- MODULE MCFormulatorRound -------------------------
(* Model-checking instance of FormulatorRound: one observer, a chain of  *)
(* three heights, rounds of up to two blocks.                            *)
EXTENDS FormulatorRound

CONSTANTS o1, o2

MCObservers == {o1}

=============================================================================
