------------------------- MODULE ControlFlowProperties ------------------------
(***************************************************************************)
(* What the compiled blocks owe the program besides what HeldResources     *)
(* says: that there are well-formed blocks at all, and that they keep the  *)
(* order of its evaluations.  Translated names the programs for which the  *)
(* compiler does.                                                          *)
(***************************************************************************)
EXTENDS HeldResources

-----------------------------------------------------------------------------
(* The graph of the code, and what can be evaluated next in a graph *)

EdgesFrom(b, k) ==
  LET i == code[b][k]  here == <<b, k>>
  IN CASE i.op = "br" -> {<<here, <<t, 1>>>> : t \in i.to}
       [] i.op = "ret" -> {<<here, Source!Returned>>}
       [] i.op = "raise" -> {<<here, Source!Uncaught>>}
       [] i.op = "call" -> {<<here, <<b, k + 1>>>>, <<here, Source!Uncaught>>}
       [] OTHER -> {<<here, <<b, k + 1>>>>}

CodeEdges ==
  {<<Outside, <<Blk(1, "entry"), 1>>>>}
  \cup UNION {UNION {EdgesFrom(b, k) : k \in 1..Len(code[b])} : b \in DOMAIN code}

(* The visible positions of the code carry the name of what they evaluate. *)
IsEvent(p) == p \in {Source!Returned, Source!Uncaught} \/ code[p[1]][p[2]].op \in {"eval", "call"}
EventAt(p) == IF p \in {Source!Returned, Source!Uncaught} THEN p ELSE code[p[1]][p[2]].what

NextOf(edges, p) == {e[2] : e \in {d \in edges : d[1] = p}}

(* Everything that these edges connect with the positions `reached'. *)
Spread(edges, reached) ==
  LET all == reached \cup {e[2] : e \in edges}
      grown[S \in SUBSET all] ==
        LET more == S \cup {e[2] : e \in {d \in edges : d[1] \in S}}
        IN IF more = S THEN S ELSE grown[more]
  IN grown[reached]

SourceSilent(p) == p[2] \notin Source!Visible
SourceNext(edges, p) ==
  {q \in Spread({e \in edges : SourceSilent(e[1])}, NextOf(edges, p)) : ~SourceSilent(q)}

CodeNext(edges, p) ==
  LET silent == {e \in edges : e[1] = Outside \/ ~IsEvent(e[1])}
  IN {EventAt(q) : q \in {r \in Spread(silent, NextOf(edges, p)) : IsEvent(r)}}

-----------------------------------------------------------------------------
(* What the compiler is known not to translate faithfully *)

(* Control runs from one clause into the next and a default clause that is *)
(* not the last one has been moved.                                        *)
DefaultMoved(n) ==
  /\ Ordered(tree[n].clauses) # [i \in 1..Len(tree[n].clauses) |-> i]
  /\ \E i \in 1..Len(tree[n].clauses) : Kids(n, i) = {} \/ Completes[LastKid(n, i)]

(* The discriminant is evaluated for each case, or for none.               *)
EvaluatesOnce(n) ==
  "effect" \in tree[n].opts => Cardinality({i \in 1..Len(tree[n].clauses) : tree[n].clauses[i] # "default"}) = 1

(* A case whose text contains the word default is taken for the default    *)
(* clause.                                                                 *)
HasNamedCase(n) == \E i \in 1..Len(tree[n].clauses) : tree[n].clauses[i] = "named"

Translated ==
  /\ OfKind("logic") = {}
  /\ \A c \in OfKind("continue") : ~LatchIsStale(c)
  /\ \A b \in OfKind("break") : ~ExitIsStale(b)
  /\ \A n \in OfKind("switch") : ~DefaultMoved(n) /\ EvaluatesOnce(n) /\ ~HasNamedCase(n)
  /\ \A n \in OfKind("try") : "finally" \notin tree[n].opts
  /\ \A n \in OfKind("call") : "known" \notin tree[n].opts => ~CoveredByTry(n)

(* What makes the compiler, or the verifier of LLVM, turn a program down.  *)
NoPadIsLeft(n) ==
  /\ Unwinds(n)
  /\ Within(n, {"try"}) /\ ~CoveredByTry(n)

Declares(n) ==
  \/ tree[n].decl
  \/ /\ tree[n].parent \in OfKind("try") /\ tree[n].slot = 2
     /\ "var" \in tree[tree[n].parent].opts

(* A jump that is the last statement of b, or of the last block of b, ...  *)
EndsBlock(j, b) ==
  /\ Inside(j, b)
  /\ \A m \in Ancestors[j] : m = b \/ Inside(m, b) => tree[m].kind \in {"block", "function"}

(* What the handlers, or the check that each block ends, turn down: a      *)
(* continue that is not the statement of an if, a try statement without a  *)
(* catch clause, something that throws in a catch clause with no try       *)
(* around it, and a jump out of a block that declares variables.           *)
HasReason ==
  \/ \E c \in OfKind("continue") : ~\/ tree[tree[c].parent].kind = "if"
                                     \/ /\ tree[tree[c].parent].kind = "block"
                                        /\ tree[tree[tree[c].parent].parent].kind = "if"
  \/ \E n \in OfKind("try") : "catch" \notin tree[n].opts
  \/ \E n \in Nodes : NoPadIsLeft(n)
  \/ \E j \in Nodes, b \in OfKind("block") \cup OfKind("function") :
       /\ tree[j].kind \in JumpKinds /\ Declares(b) /\ EndsBlock(j, b)
       /\ tree[j].kind \in {"return", "throw"} => tree[j].parent # b

(* The blocks are as they should be, but one uses a value that is not made *)
(* on every way to it, or that another function has made.                  *)
ValueIsMissing == EndsOnce(code) /\ ~Defined(code)

(* The compiler turns down no program that does not have a reason for it,  *)
(* but one that gets blocks that all end exactly once, with a value used   *)
(* where it has not been made.                                             *)
RejectionHasReason == phase = "rejected" => HasReason \/ ValueIsMissing

(* And a value is only missing behind a break or a continue that finds the *)
(* block of another statement on the stacks, or the handler of a loop of   *)
(* another function.  Every other sequence of handlers leaves each block   *)
(* with exactly one end, and makes each value before it is used, however   *)
(* the statements are nested.                                              *)
RejectionIsExplained ==
  phase = "rejected" =>
    \/ HasReason
    \/ /\ ValueIsMissing
       /\ \/ \E c \in OfKind("continue") : LatchIsStale(c) \/ HandlerIsForeign(c)
          \/ \E b \in OfKind("break") : ExitIsStale(b)

(* Generated code does what the source says: after each evaluation that    *)
(* can happen, and from the entry, exactly those evaluations can come next *)
(* that can in TypeScript, whatever the conditions.  The stacks of exiting *)
(* blocks, landing pads and handlers and the insertion point all have to   *)
(* be right for that.                                                      *)
FollowsSource ==
  phase = "accepted" /\ pos = Outside /\ Translated =>
    LET inCode == CodeEdges
        inSource == Source!SourceEdges
    IN /\ CodeNext(inCode, Outside) = SourceNext(inSource, Source!Start(1))
       /\ \A p \in Spread(inCode, {Outside}) \ {Outside, Source!Returned, Source!Uncaught} :
            IsEvent(p) => CodeNext(inCode, p) = SourceNext(inSource, EventAt(p))
=============================================================================
