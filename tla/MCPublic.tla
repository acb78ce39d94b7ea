------------------------------ MODULE MCPublic ------------------------------
EXTENDS Public, TLC
CONSTANTS a, b, on1, on2, call1, call2

OneProject == {a}
TwoProjects == {a, b}
TwoTurns == {on1, on2}
OneCall == {call1}
TwoCalls == {call1, call2}
AllKinds == {"off", "delete", "sign_out"}
Alike == Permutations(TwoProjects) \cup Permutations(TwoTurns)

JustOff == {"off"}
=============================================================================
