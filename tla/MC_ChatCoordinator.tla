------------------------ MODULE MC_ChatCoordinator ------------------------
\* Small instances of ChatCoordinator for TLC.
EXTENDS ChatInvariant, TLC

CONSTANTS t1, t2, m1, m2

OneTurn  == {t1}
TwoTurns == {t1, t2}
NoMutation  == {}
OneMutation == {m1}
TwoMutations == {m1, m2}

\* Turns are interchangeable: no property compares them.
TurnSymmetry == Permutations(TwoTurns)
=============================================================================
