----------------------------- MODULE GeneratedCode ----------------------------
(***************************************************************************)
(* Runs the blocks that ControlFlow has emitted for an accepted function:  *)
(* any outcome of a condition, any call may throw.  Besides the position,  *)
(* the run knows which resources are held, and which were held when the    *)
(* same instruction acquired its resource again, and so can never be       *)
(* released: a variable of a loop's body is a new root in each iteration.  *)
(***************************************************************************)
EXTENDS ControlFlow

VARIABLES
  pos,     \* the instruction to be executed, or how the function was left
  held,    \* resources acquired and not released
  lost     \* resources overwritten while they were held

runVars == <<pos, held, lost>>
allVars == <<vars, runVars>>

Outside == <<"outside">>
ReturnedNormally == <<"returned">>
LeftByException == <<"raised">>

At(block, i) == <<block, i>>
Running == pos \notin {Outside, ReturnedNormally, LeftByException}
Instruction == code[pos[1]][pos[2]]

RunInit == Init /\ pos = Outside /\ held = {} /\ lost = {}

Compile == Next /\ UNCHANGED runVars

Enter ==
  /\ phase = "accepted" /\ pos = Outside
  /\ Families[family].run
  /\ pos' = At(Blk(1, "entry"), 1)
  /\ UNCHANGED <<vars, held, lost>>

Proceed == pos' = At(pos[1], pos[2] + 1)

Evaluate ==
  /\ Running /\ Instruction.op = "eval"
  /\ Proceed
  /\ UNCHANGED <<vars, held, lost>>

(* A call without a landing pad: an exception leaves the function. *)
CallReturns ==
  /\ Running /\ Instruction.op = "call"
  /\ Proceed
  /\ UNCHANGED <<vars, held, lost>>

CallThrows ==
  /\ Running /\ Instruction.op = "call"
  /\ pos' = LeftByException
  /\ UNCHANGED <<vars, held, lost>>

Take ==
  /\ Running /\ Instruction.op = "acquire"
  /\ held' = held \cup Instruction.res
  /\ lost' = lost \cup (held \cap Instruction.res)
  /\ Proceed
  /\ UNCHANGED vars

Drop ==
  /\ Running /\ Instruction.op = "release"
  /\ held' = held \ Instruction.res
  /\ Proceed
  /\ UNCHANGED <<vars, lost>>

Jump ==
  /\ Running /\ Instruction.op = "br"
  /\ \E b \in Instruction.to : pos' = At(b, 1)
  /\ UNCHANGED <<vars, held, lost>>

Leave ==
  /\ Running
  /\ \/ Instruction.op = "ret" /\ pos' = ReturnedNormally
     \/ Instruction.op = "raise" /\ pos' = LeftByException
  /\ UNCHANGED <<vars, held, lost>>

Execute == Enter \/ Evaluate \/ CallReturns \/ CallThrows \/ Take \/ Drop \/ Jump \/ Leave

RunSpec == RunInit /\ [][Compile \/ Execute]_allVars
=============================================================================
