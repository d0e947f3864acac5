----------------------------- MODULE MCControlFlow ----------------------------
EXTENDS ControlFlowProperties, Values

Plain(kind) == [kind |-> kind, decl |-> FALSE, opts |-> {}, clauses |-> <<>>]
Declaring(kind) == [Plain(kind) EXCEPT !.decl = TRUE]
With(kind, opts) == [Plain(kind) EXCEPT !.opts = opts]
Switch(cs) == [Plain("switch") EXCEPT !.clauses = cs]
EffectSwitch(cs) == [With("switch", {"effect"}) EXCEPT !.clauses = cs]

Functions == {Plain("function"), Declaring("function")}
Blocks == {Plain("block"), Declaring("block")}
Fors == {With("for", {"cond", "inc"}), With("for", {"cond"}), With("for", {}),
         [With("for", {"cond", "inc"}) EXCEPT !.decl = TRUE],
         [With("for", {}) EXCEPT !.decl = TRUE]}
Loops == Fors \cup {Plain("while"), Plain("do"), Plain("forin"), Plain("forof"), With("forof", {"tuple"})}
Ifs == {Plain("if"), With("if", {"else"})}
Tries == {With("try", {"catch"}), With("try", {"catch", "var"}), With("try", {"finally"})}

(* Every statement beside and inside the others. *)
LoopShapes == Blocks \cup Loops \cup Ifs
              \cup {Plain("function"), Plain("ternary"), Plain("break"), Plain("continue"),
                    Plain("return")}

(* Loops and switches inside each other. *)
NestedShapes == {Plain("function"), With("for", {"cond", "inc"}), Plain("while"),
                 Plain("if"), Plain("break"), Plain("continue"), Switch(<<"case">>)}

SwitchShapes == {Plain("function"), Plain("if"), Plain("expr"), Plain("break"),
                 Switch(<<"default", "case">>), Switch(<<"case", "default", "case">>)}

(* Discriminants with an effect, cases that mention the word default.      *)
DiscriminantShapes == {Plain("function"), Plain("expr"), Plain("break"), EffectSwitch(<<"default">>),
                       EffectSwitch(<<"case">>), EffectSwitch(<<"case", "default">>),
                       EffectSwitch(<<"case", "case">>), Switch(<<"case", "named">>),
                       Switch(<<"default", "named", "case">>)}

(* Blocks of other statements, and of other functions, on the stacks.      *)
StaleShapes == {Plain("function"), With("function", {"outer"}), Plain("while"), With("if", {"else"}),
                Plain("forof"), [With("for", {"cond", "inc"}) EXCEPT !.decl = TRUE], Plain("closure"),
                Plain("break"), Plain("continue")}

ThrowShapes == {Plain("function"), Plain("block")} \cup Tries
               \cup {Plain("if"), Plain("logic"), Plain("throw"), Plain("call"), With("call", {"known"})}

(* Statements that keep something while they are run. *)
RootShapes == Functions \cup Blocks \cup
              {[With("for", {"cond", "inc"}) EXCEPT !.decl = TRUE], With("for", {}), Plain("while"),
               Plain("forof"), With("forof", {"tuple"}), Plain("forin"), Plain("if"), Plain("break"),
               Plain("continue"), Plain("return"), Plain("expr")}

ThrowRootShapes == Functions \cup Blocks \cup
              {With("try", {"catch"}), With("try", {"catch", "var"}), Plain("throw"),
               Plain("return"), Plain("call"), With("call", {"known"})}

Family(shapes, nodes, run) == [shapes |-> shapes, nodes |-> nodes, run |-> run]

MCFamilies ==
  <<Family(LoopShapes, 4, FALSE), Family(NestedShapes, 6, FALSE), Family(SwitchShapes, 5, FALSE),
   Family(DiscriminantShapes, 4, FALSE), Family(StaleShapes, 6, FALSE),
   Family(ThrowShapes, 5, FALSE), Family(RootShapes, 4, TRUE), Family(ThrowRootShapes, 5, TRUE),
   Family({Plain("function")}, 1, FALSE)>>

-----------------------------------------------------------------------------
(* What the statements compute is independent of how they branch: straight *)
(* code runs in the place of the function without statements, the last     *)
(* family.                                                                 *)

MCPlaces == {{"x", "y"}, {"x", "u", "v"}, {"x", "o.p", "o.q"}, {"u", "o.p", "o.q"}, {"x", "u", "a.0"}}

MCRank ==
  LET order == <<"x", "y", "u", "v", "o.p", "o.q", "a.0">>
  IN [p \in {order[i] : i \in 1..7} |-> CHOOSE i \in 1..7 : order[i] = p]

Straight == family = Len(Families)

MCInit == RunInit /\ \E places \in IF Straight THEN PlaceSets ELSE {{}} : Begin(places)

MCNext ==
  \/ (Compile \/ Execute) /\ UNCHANGED valuesVars
  \/ Straight /\ phase = "compiling" /\ ValuesNext /\ UNCHANGED allVars

MCSpec == MCInit /\ [][MCNext]_<<allVars, valuesVars>>
=============================================================================
