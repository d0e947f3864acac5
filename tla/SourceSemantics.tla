---------------------------- MODULE SourceSemantics ---------------------------
(***************************************************************************)
(* What the statements of a program mean in TypeScript: a graph whose      *)
(* positions are the evaluations of the program's expressions and the      *)
(* silent points between them.  Conditions may turn out either way, an     *)
(* expression that throws goes to the catch clause around it.  The module  *)
(* is the reference against which the compiled blocks are compared.        *)
(***************************************************************************)
EXTENDS Naturals, Sequences, FiniteSets

CONSTANT tree   \* a complete program of ControlFlow

Nodes == 1..Len(tree)

P(n, what) == <<n, what, 0>>
ClauseAt(n, i) == <<n, "clause", i>>
TestAt(n, i) == <<n, "test", i>>

Start(n) == P(n, "start")
End(n) == P(n, "end")
Returned == P(0, "returned")
Uncaught == P(0, "uncaught")

KidsOf(n, slot) == {k \in Nodes : tree[k].parent = n /\ tree[k].slot = slot}

(* A list of statements between two positions. *)
ListEdges(from, n, slot, to) ==
  LET kids == KidsOf(n, slot)
      first == CHOOSE k \in kids : \A j \in kids : k <= j
      last == CHOOSE k \in kids : \A j \in kids : j <= k
      After(k) == CHOOSE j \in kids : j > k /\ \A i \in kids : i > k => j <= i
  IN IF kids = {} THEN {<<from, to>>}
     ELSE {<<from, Start(first)>>, <<End(last), to>>}
          \cup {<<End(k), Start(After(k))>> : k \in kids \ {last}}

(* The statements around a node, each with the slot the node lies in. *)
Around[n \in 0..Len(tree)] ==
  IF n = 0 THEN {} ELSE {<<tree[n].parent, tree[n].slot>>} \cup Around[tree[n].parent]

Innermost(found) == CHOOSE a \in found : \A b \in found : b[1] <= a[1]

EnclosingLoop(n) ==
  Innermost({a \in Around[n] : a[1] # 0 /\ tree[a[1]].kind \in {"while", "do", "for", "forof", "forin"}})[1]
EnclosingBreakable(n) ==
  Innermost({a \in Around[n] :
               a[1] # 0 /\ tree[a[1]].kind \in {"while", "do", "for", "forof", "forin", "switch"}})[1]

(* Only the body of a try statement is covered by its catch clause. *)
CaughtBy(n) ==
  LET tries == {a \in Around[n] : /\ a[1] # 0 /\ a[2] = 1
                                  /\ tree[a[1]].kind = "try" /\ "catch" \in tree[a[1]].opts}
  IN IF tries = {} THEN Uncaught ELSE P(Innermost(tries)[1], "catch")

(* Where an iteration of a loop begins. *)
Iteration(n) ==
  CASE tree[n].kind = "do" -> P(n, "cond")
    [] tree[n].kind = "for" /\ "cond" \notin tree[n].opts -> P(n, "iterate")
    [] OTHER -> P(n, "cond")
Again(n) == IF tree[n].kind = "for" /\ "inc" \in tree[n].opts THEN P(n, "inc") ELSE Iteration(n)

SwitchEdges(n) ==
  LET clauses == tree[n].clauses
      cases == {i \in 1..Len(clauses) : clauses[i] # "default"}
      defaults == 1..Len(clauses) \ cases
      otherwise == IF defaults = {} THEN End(n) ELSE ClauseAt(n, CHOOSE i \in defaults : TRUE)
      TestAfter(i) == LET later == {j \in cases : j > i}
                      IN IF later = {} THEN otherwise
                         ELSE TestAt(n, CHOOSE j \in later : \A k \in later : j <= k)
      Below(i) == IF i < Len(clauses) THEN ClauseAt(n, i + 1) ELSE End(n)
      discriminant == P(n, "discriminant")
  IN (IF "effect" \in tree[n].opts THEN {<<Start(n), discriminant>>, <<discriminant, TestAfter(0)>>}
                                   ELSE {<<Start(n), TestAfter(0)>>})
     \cup UNION {{<<TestAt(n, i), ClauseAt(n, i)>>, <<TestAt(n, i), TestAfter(i)>>} : i \in cases}
     \cup UNION {ListEdges(ClauseAt(n, i), n, i, Below(i)) : i \in 1..Len(clauses)}

EdgesOf(n) ==
  LET node == tree[n]
      eval == P(n, "eval")  cond == P(n, "cond")  lhs == P(n, "lhs")  rhs == P(n, "rhs")
      afterTry == IF "finally" \in node.opts THEN P(n, "finally") ELSE End(n)
  IN CASE node.kind = "function" -> ListEdges(Start(n), n, 1, Returned)
       [] node.kind = "block" -> ListEdges(Start(n), n, 1, End(n))
       [] node.kind \in {"expr", "closure"} -> {<<Start(n), eval>>, <<eval, End(n)>>}
       [] node.kind = "call" -> {<<Start(n), eval>>, <<eval, End(n)>>, <<eval, CaughtBy(n)>>}
       [] node.kind = "logic" -> {<<Start(n), lhs>>, <<lhs, rhs>>, <<lhs, End(n)>>, <<rhs, End(n)>>}
       [] node.kind = "ternary" ->
            {<<Start(n), cond>>, <<cond, lhs>>, <<cond, rhs>>, <<lhs, End(n)>>, <<rhs, End(n)>>}
       [] node.kind = "break" -> {<<Start(n), End(EnclosingBreakable(n))>>}
       [] node.kind = "continue" -> {<<Start(n), Again(EnclosingLoop(n))>>}
       [] node.kind = "return" -> {<<Start(n), eval>>, <<eval, Returned>>}
       [] node.kind = "throw" -> {<<Start(n), eval>>, <<eval, CaughtBy(n)>>}
       [] node.kind = "if" -> {<<Start(n), cond>>} \cup ListEdges(cond, n, 1, End(n))
                                                 \cup ListEdges(cond, n, 2, End(n))
       [] node.kind = "do" -> {<<cond, End(n)>>} \cup ListEdges(Start(n), n, 1, cond)
                              \cup ListEdges(cond, n, 1, cond)
       [] node.kind \in {"while", "forof", "forin"} ->
            {<<Start(n), cond>>, <<cond, End(n)>>} \cup ListEdges(cond, n, 1, cond)
       [] node.kind = "for" ->
            {<<Start(n), Iteration(n)>>, <<P(n, "inc"), Iteration(n)>>, <<cond, P(n, "iterate")>>,
             <<cond, End(n)>>}
            \cup ListEdges(P(n, "iterate"), n, 1, Again(n))
       [] node.kind = "switch" -> SwitchEdges(n)
       [] node.kind = "try" ->
            {<<P(n, "finally"), End(n)>>} \cup ListEdges(Start(n), n, 1, afterTry)
                                          \cup ListEdges(P(n, "catch"), n, 2, afterTry)

SourceEdges == UNION {EdgesOf(n) : n \in Nodes}

(* What can be evaluated, and how a call of the function can end. *)
Visible == {"eval", "cond", "inc", "discriminant", "test", "finally", "lhs", "rhs", "returned", "uncaught"}
=============================================================================
