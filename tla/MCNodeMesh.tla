----------------------------- MODULE MCNodeMesh -----------------------------
EXTENDS NodeMesh

CONSTANTS n1, n2, s1, s2, s3, s4

MCIds == {n1}
MCTwoIds == {n1, n2}
MCSlots == {s1, s2, s3, s4}

MCSymmetry == Permutations(MCSlots)
=============================================================================
