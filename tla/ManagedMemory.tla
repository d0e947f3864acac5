----------------------------- MODULE ManagedMemory -----------------------------
(***************************************************************************)
(* What a collected memory promises, with no collector in sight: the heap  *)
(* grows when the program allocates; what the program can get at is in it; *)
(* what the program has lost it never gets back; and now and then, in one  *)
(* step, the heap becomes exactly what roots and timers keep.  What the    *)
(* program holds besides, in temporaries, is taken from it only while it   *)
(* waits for the runtime.                                                  *)
(***************************************************************************)
CONSTANT Objects

VARIABLES
  heap,    (* the allocated objects                                     *)
  live,    (* those the program can still get at                        *)
  kept,    (* those it can get at from roots and timers                 *)
  waiting  (* a callback of the program waits: it has called collect()  *)
           (* or runs the loop                                          *)

vars == <<heap, live, kept, waiting>>

Init == heap = {} /\ live = {} /\ kept = {} /\ waiting = FALSE

(* The program runs: it may allocate, and it may lose what it had.          *)
Run ==
  /\ heap \subseteq heap'
  /\ live' \subseteq live \cup (heap' \ heap)

Collect ==
  /\ kept \subseteq live
  /\ waiting \/ live = kept
  /\ heap' = kept
  /\ live' = kept
  /\ UNCHANGED kept

Next == Run \/ Collect

Spec == Init /\ [][Next]_vars
===============================================================================
