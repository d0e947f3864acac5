----------------------------- MODULE HeldResources ----------------------------
(***************************************************************************)
(* The roots and the exceptions that the compiled blocks hold while they   *)
(* run, against the scopes of the program.  Each property names the        *)
(* programs for which the compiler keeps it.                               *)
(***************************************************************************)
EXTENDS GeneratedCode

Source == INSTANCE SourceSemantics

Nodes == 1..Len(tree)
OfKind(kind) == {n \in Nodes : tree[n].kind = kind}
Inside(n, m) == m \in Ancestors[n]

(* A loop was completed between the loop of a continue and the continue. *)
LatchIsStale(c) ==
  \E m \in Nodes : /\ tree[m].kind \in LoopKinds /\ m < c /\ ~Inside(c, m)
                   /\ Inside(m, Nearest(c, LoopKinds))

(* A switch was completed between the statement a break leaves and it, or  *)
(* a function expression with one.                                         *)
LeavesExit == {"switch", "closure"}
ExitIsStale(b) ==
  \E m \in Nodes : /\ tree[m].kind \in LeavesExit /\ m < b /\ ~Inside(b, m)
                   /\ Inside(m, Nearest(b, LoopKinds \cup {"switch"}))

CoveredByTry(n) == \E a \in Source!Around[n] : a[1] # 0 /\ a[2] = 1 /\ tree[a[1]].kind = "try"

(* What the scopes around a node keep: the counters of a for loop and      *)
(* their copies, the element of a for..of loop, the locals of blocks, the  *)
(* exception a catch clause handles and its variable.                      *)
KeptBy(a, slot) ==
  LET node == tree[a]
  IN CASE node.kind \in {"function", "block"} /\ node.decl -> {Blk(a, "local")}
       [] node.kind = "for" /\ node.decl -> {Blk(a, "counter"), Blk(a, "copy")}
       [] node.kind \in {"forof", "forin"} -> {Blk(a, "element")}
       [] node.kind = "try" /\ slot = 2 ->
            {Blk(a, "caught")} \cup (IF "var" \in node.opts THEN {Blk(a, "e")} ELSE {})
       [] OTHER -> {}

InScope(n) == UNION {KeptBy(a[1], a[2]) : a \in {b \in Source!Around[n] : b[1] # 0}}

(* The body exit handler of a for loop is called by a continue of another  *)
(* loop inside it.                                                         *)
HandlerIsStray(c) ==
  /\ tree[Nearest(c, LoopKinds)].kind # "for"
  /\ Within(c, {"for"}) /\ tree[Nearest(c, {"for"})].decl

(* It is called by a continue of a function inside the loop.              *)
HandlerIsForeign(c) == "outer" \in tree[1].opts /\ ~Within(c, {"for"})

StacksMatch ==
  /\ \A c \in OfKind("continue") : ~LatchIsStale(c) /\ ~HandlerIsStray(c) /\ ~HandlerIsForeign(c)
  /\ \A b \in OfKind("break") : ~ExitIsStale(b)

(* Whatever a scope declares is rooted whenever an expression inside that  *)
(* scope is evaluated: a collection in the midst of a function never takes *)
(* a variable the function still uses.                                     *)
AliveInScope ==
  StacksMatch /\ Running =>
    (Instruction.op \in {"eval", "call"} => InScope(Instruction.what[1]) \subseteq held)

(* Where a jump or an exception goes, the exception of a call only if it   *)
(* is known to throw, and the scopes it leaves without their knowing: all  *)
(* but the one a return or a throw stands in.                              *)
Unwinds(n) == tree[n].kind = "throw" \/ (tree[n].kind = "call" /\ "known" \in tree[n].opts)
TargetOf(n) ==
  CASE tree[n].kind = "break" -> Nearest(n, LoopKinds \cup {"switch"})
    [] tree[n].kind = "continue" -> Nearest(n, LoopKinds)
    [] Unwinds(n) /\ CoveredByTry(n) -> Source!CaughtBy(n)[1]
    [] OTHER -> 0

Forgotten(n) ==
  LET between == {a \in Source!Around[n] : a[1] # 0 /\ (TargetOf(n) = 0 \/ Inside(a[1], TargetOf(n)))}
      own == IF tree[n].kind \in {"return", "throw"}
             THEN {a \in between : a[1] = tree[n].parent /\ tree[a[1]].kind \in {"block", "function"}}
             ELSE {}
  IN UNION {KeptBy(a[1], a[2]) : a \in between \ own}

Tidy ==
  /\ StacksMatch
  /\ \A n \in Nodes : tree[n].kind \in JumpKinds \cup {"call"} => Forgotten(n) = {}

(* A function that has returned has released all it acquired, in each      *)
(* iteration of each loop, if no jump crosses a scope that keeps anything. *)
NothingStaysHeld ==
  pos \in {ReturnedNormally, LeftByException} /\ Tidy => held = {} /\ lost = {}
=============================================================================
