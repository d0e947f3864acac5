--------------------------------- MODULE MCGC ---------------------------------
EXTENDS GCProperties, TLC

CONSTANTS o1, o2, t1, r1

MCSizeOf == [o \in Objects |-> IF o \in TimerObjects THEN 2 ELSE 1]

(* The objects that are no timers are all alike. *)
Interchangeable == Permutations(Objects \ TimerObjects)
===============================================================================
