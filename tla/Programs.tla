------------------------------- MODULE Programs -------------------------------
(***************************************************************************)
(* The TypeScript programs of which the modules on functions speak: a      *)
(* module and some functions, whose bodies are straight lines of           *)
(* statements on variables, closures and calls, and what the checker of    *)
(* TypeScript knows of such a program: which declaration a name refers to. *)
(*                                                                         *)
(* A call is one that the program repeats while it nests less deep than    *)
(* MaxDepth, and skips after that, as if a condition stood before it.      *)
(***************************************************************************)
EXTENDS Naturals, Sequences, FiniteSets, SequencesExt

CONSTANTS Main,       \* the module, which is not the name of a function
          MaxDepth    \* activations at a time (bound)

ASSUME MaxDepthAssumption == MaxDepth \in Nat \ {0}

(* Statements.  The kind of an expression is "lit" (a new number), "array" *)
(* (a new array of two numbers), "name", "inc" (++x), or "spread" (...x).  *)
Lit == [kind |-> "lit", x |-> ""]
ArrayLit == [kind |-> "array", x |-> ""]
Name(x) == [kind |-> "name", x |-> x]
Inc(x) == [kind |-> "inc", x |-> x]
Spread(x) == [kind |-> "spread", x |-> x]

Statement(kind, x, e, args) == [kind |-> kind, x |-> x, e |-> e, args |-> args]
Let(x, e) == Statement("let", x, e, <<>>)              \* let x = e;
Assign(x, e) == Statement("assign", x, e, <<>>)        \* x = e;
Block(x) == Statement("block", x, Lit, <<>>)           \* { let x = 1; x; }
Eval(e) == Statement("eval", "", e, <<>>)              \* e;
Fun(f) == Statement("fun", f, Lit, <<>>)               \* function f ... here
Call(x, g, args) == Statement("call", x, Name(g), args)   \* x = g(args); or g(args);
Bind(x, g, args) == Statement("bind", x, Name(g), args)   \* let x = g.bind(null, args);
Arrow(f) == Statement("arrow", f, Lit, <<>>)           \* let f = (...) => ... here
Expression(f) == Statement("expression", f, Lit, <<>>) \* let f = function (...) ... here
Swap(x, y) == Statement("swap", x, Name(y), <<>>)      \* [x, y] = [y, x];
Return(e) == Statement("return", "", e, <<>>)

(* Parameters: required, optional (x?: number), with a default, or rest.   *)
Param(x, kind, init) == [x |-> x, kind |-> kind, init |-> init]
Required(x) == Param(x, "required", Lit)
Optional(x) == Param(x, "optional", Lit)
Default(x, init) == Param(x, "default", init)
Rest(x) == Param(x, "rest", Lit)

(* A program: funs, and for each of them and Main: its parent, its sort    *)
(* ("closure", "generic", or "static" for a static method), parameters and *)
(* body.  `text' is the text of the declaration.                           *)
Function(parent, sort, params, body) ==
  [parent |-> parent, sort |-> sort, params |-> params, body |-> body, text |-> ""]
Module(body) == Function("", "closure", <<>>, body)

-----------------------------------------------------------------------------
(* What a function declares *)

(* Statements that make a function, and those in which names are used.     *)
Making == {"fun", "arrow", "expression"}
Using == {"let", "assign", "swap", "eval", "call", "bind", "return"}

Of(p, kinds) == {i \in 1..Len(p.body) : p.body[i].kind \in kinds}
ParamNames(p) == {p.params[i].x : i \in 1..Len(p.params)}

(* The names of the scope of the body, in the order of the hoisting.       *)
LocalNames(p) ==
  LET declaring == SelectSeq(p.body, LAMBDA s : s.kind \in {"let", "bind"} \cup Making)
  IN [i \in 1..Len(declaring) |-> declaring[i].x]
Locals(p) == ToSet(LocalNames(p))
Declared(p) == Locals(p) \cup ParamNames(p)
BlockNames(p) == {p.body[i].x : i \in Of(p, {"block"})}

Functions(prog) == DOMAIN prog \ {Main}

RECURSIVE Enclosing(_, _)
Enclosing(prog, f) == IF f = Main THEN {} ELSE {prog[f].parent} \cup Enclosing(prog, prog[f].parent)
Nested(prog, f) == {g \in Functions(prog) : f \in Enclosing(prog, g)}

(* The function whose declaration a use of x in f refers to, "" if none.   *)
RECURSIVE Binder(_, _, _)
Binder(prog, f, x) ==
  IF x \in Declared(prog[f]) THEN f
  ELSE IF f = Main THEN "" ELSE Binder(prog, prog[f].parent, x)

(* The names that occur in a body, outside the functions declared there.   *)
ExpressionNames(e) == IF e.kind \in {"lit", "array"} THEN {} ELSE {e.x}
StatementNames(s) ==
  ({s.x} \ (IF s.kind \in Making THEN {s.x} ELSE {""})) \cup ExpressionNames(s.e)
  \cup UNION {ExpressionNames(s.args[i]) : i \in 1..Len(s.args)}
Occurring(p, kinds) == UNION {StatementNames(p.body[i]) : i \in Of(p, kinds)}

(* The functions that a body calls by their names.                         *)
Called(prog, f) == {p \in Functions(prog) : \E i \in Of(prog[f], {"call"}) : prog[f].body[i].e.x = p}

(* What the checker of TypeScript accepts: a scope declares a name once,   *)
(* and every name that is used is declared.                                *)
Accepted(prog) ==
  \A f \in DOMAIN prog :
    LET names == LocalNames(prog[f]) \o [i \in 1..Len(prog[f].params) |-> prog[f].params[i].x]
    IN /\ Cardinality(ToSet(names)) = Len(names)
       /\ \A x \in Occurring(prog[f], Using) :
            Binder(prog, f, x) # "" \/ (x \in Functions(prog) /\ prog[x].sort = "static")
=============================================================================
