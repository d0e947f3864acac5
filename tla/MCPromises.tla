------------------------------ MODULE MCPromises ------------------------------
EXTENDS PromisesProperties, TLC

CONSTANTS p1, p2, p3, p4, v1, v2

ThenPair    == [fulfilled |-> "unary",   rejected |-> "absent"]
CatchPair   == [fulfilled |-> "absent",  rejected |-> "unary"]
FinallyPair == [fulfilled |-> "nullary", rejected |-> "nullary"]
EmptyPair   == [fulfilled |-> "absent",  rejected |-> "absent"]

MCPairs     == {ThenPair, CatchPair, FinallyPair}
MCWidePairs == {ThenPair, EmptyPair}

MCSymmetry == Permutations(Promises) \cup Permutations(Values)
=============================================================================
