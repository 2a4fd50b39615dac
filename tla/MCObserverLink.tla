--------------------------- MODULE MCObserverLink ---------------------------
EXTENDS ObserverLink

CONSTANTS o1, o2, s1, s2, s3

MCObs == {o1}
MCTwoObs == {o1, o2}
MCSlots == {s1, s2, s3}
=============================================================================
