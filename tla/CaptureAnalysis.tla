--------------------------- MODULE CaptureAnalysis ----------------------------
(***************************************************************************)
(* Which variables the compiler gives to a function in its environment     *)
(* (src/compiler/src/ts/concisebody.ts).  The analysis knows names, not    *)
(* declarations: it collects the names that occur in the body, in the      *)
(* bodies of the functions declared there, and in everything those call.   *)
(***************************************************************************)
EXTENDS Programs

(* The names that count as local: what the body declares outside of its    *)
(* blocks and of the functions declared in it.                             *)
FakeVariables(p) == Locals(p)

(* A name that refers to a parameter, of whichever function, is skipped    *)
(* when the function that is analysed has a parameter of this name.        *)
IsParameter(prog, f, x) ==
  LET b == Binder(prog, f, x) IN b # "" /\ x \in ParamNames(prog[b])

NonLocal(prog, owner, f) ==
  {x \in Occurring(prog[f], Using) :
     /\ x \notin FakeVariables(prog[owner])
     /\ ~(IsParameter(prog, f, x) /\ x \in ParamNames(prog[owner]))}
  \cup (BlockNames(prog[f]) \ FakeVariables(prog[owner]))

DefaultParameters(p) ==
  UNION {ExpressionNames(p.params[i].init) : i \in 1..Len(p.params)}

BodyVariables(prog, owner) ==
  UNION {NonLocal(prog, owner, f) : f \in {owner} \cup Nested(prog, owner)}
  \cup DefaultParameters(prog[owner])

(* The bodies that the analysis of f goes through: those of the functions  *)
(* called in f, in the functions declared in f, and in these bodies again. *)
RECURSIVE Handled(_, _)
Handled(prog, fs) ==
  LET within == fs \cup UNION {Nested(prog, f) : f \in fs}
      more == fs \cup UNION {Called(prog, f) : f \in within}
  IN IF more = fs THEN fs ELSE Handled(prog, more)

EnvironmentVariables(prog, f) ==
  UNION {BodyVariables(prog, g) : g \in Handled(prog, {f})}
=============================================================================
