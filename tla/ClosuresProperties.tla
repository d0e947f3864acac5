--------------------------- MODULE ClosuresProperties --------------------------
(***************************************************************************)
(* What the generated code owes the program: it observes the values the    *)
(* program observes.  The properties name, on the text of the program,     *)
(* every construct for which the compiler does not keep this.              *)
(***************************************************************************)
EXTENDS Closures

-----------------------------------------------------------------------------
(* Constructs for which the generated code is not the program *)

Uses(f) == Occurring(prog[f], Using)
Within(f) == {f} \cup Nested(prog, f)
BoundOutside(f, x) == IF f = Main THEN "" ELSE Binder(prog, prog[f].parent, x)

(* The calls and binds in c, and their callees that are declared.          *)
Sites == UNION {{<<c, i>> : i \in Of(prog[c], {"call", "bind"})} : c \in DOMAIN prog}
At(site) == prog[site[1]].body[site[2]]
To(site) == At(site).e.x
KnownSites == {s \in Sites : To(s) \in Functions(prog)}
Formal(site, k) == prog[To(site)].params[k]
Missing(site) == (Len(At(site).args) + 1)..Len(prog[To(site)].params)

(* A variable of a block hides a variable that is not of the same body.    *)
BlockShadows ==
  \E f \in DOMAIN prog : \E x \in BlockNames(prog[f]) :
    x \notin Locals(prog[f]) /\ Binder(prog, f, x) # ""

(* A local variable hides one that a function called from there uses: it   *)
(* takes its place in the environment.                                     *)
LocalShadows ==
  \E f \in Functions(prog) : \E x \in Locals(prog[f]) :
    /\ BoundOutside(f, x) # ""
    /\ \E g \in Handled(prog, {f}) \ {f} : \E h \in Within(g) : x \in Uses(h)

(* A parameter is assigned while a closure has it: each has a copy.        *)
CapturedParameterAssigned ==
  \E f \in Functions(prog) : \E x \in ParamNames(prog[f]) :
    /\ \E g \in Nested(prog, f) : x \in Uses(g) /\ Binder(prog, g, x) = f
    /\ \E g \in Within(f) : \E i \in Of(prog[g], {"assign", "call"}) :
         prog[g].body[i].x = x /\ Binder(prog, g, x) = f

(* Variables are swapped that are not of the same body: only the scopes    *)
(* are searched for them, which hold nothing of other functions.           *)
SwapsElsewhere ==
  \E f \in DOMAIN prog : \E i \in Of(prog[f], {"swap"}) :
    ~({prog[f].body[i].x, prog[f].body[i].e.x} \subseteq Locals(prog[f]))

(* A function is called above its declaration, in the body of another.     *)
CalledEarly ==
  \E f \in Functions(prog) : \E i \in Of(prog[f], {"call"}), j \in Of(prog[f], {"fun"}) :
    i < j /\ prog[f].body[j].x = prog[f].body[i].e.x

(* A parameter is used after a call that enters the function again: the    *)
(* arguments of all its activations are in one environment.                *)
ReadAfterReentry ==
  \E s \in KnownSites :
    LET f == s[1]
        reached == UNION {Called(prog, g) : g \in UNION {Within(h) : h \in Handled(prog, {To(s)})}}
    IN /\ f # Main /\ f \in {To(s)} \cup reached
       /\ \E j \in (s[2] + 1)..Len(prog[f].body) :
            StatementNames(prog[f].body[j]) \cap ParamNames(prog[f]) # {}

(* An initializer is evaluated by the caller: a name in it is not what it  *)
(* was at the declaration, or the value is not copied.                     *)
DefaultOfCaller ==
  \E s \in KnownSites : \E k \in 1..Len(prog[To(s)].params) :
    LET p == Formal(s, k)
        there == IF p.init.x \in ParamNames(prog[To(s)]) THEN To(s) ELSE BoundOutside(To(s), p.init.x)
    IN p.kind = "default" /\ p.init.kind = "name" /\ Binder(prog, s[1], p.init.x) \notin {"", there}
DefaultIncremented ==
  \E f \in Functions(prog) : \E k \in 1..Len(prog[f].params), i \in 1..Len(prog[f].body) :
    LET p == prog[f].params[k]
    IN p.kind = "default" /\ p.init.kind = "name" /\ prog[f].body[i].e \in {Inc(p.x), Inc(p.init.x)}

(* An optional parameter is missing before one with an initializer.        *)
MissingBeforeDefault ==
  \E s \in KnownSites : \E k, l \in Missing(s) :
    k < l /\ Formal(s, k).kind = "optional" /\ Formal(s, l).kind = "default"

(* ...x stands beside other arguments of the rest parameter.               *)
SpreadNotAlone ==
  \E s \in KnownSites :
    /\ \E k \in 1..Len(At(s).args) : At(s).args[k].kind = "spread"
    /\ Len(At(s).args) > Fixed(prog[To(s)].params) + 1

(* An argument has the name of a parameter before it.                      *)
ArgumentNamesParameter ==
  \E s \in KnownSites : \E j \in 1..Len(At(s).args) : \E k \in 1..(j - 1) :
    k <= Len(prog[To(s)].params) /\ At(s).args[j].x # "" /\ At(s).args[j].x = Formal(s, k).x

(* A function that is bound is used again, or bound with a default, or the *)
(* result is used other than by calling the variable declared with it.     *)
BoundWithDefault ==
  \E s \in KnownSites : At(s).kind = "bind" /\ \E k \in Missing(s) : Formal(s, k).kind = "default"
BoundAndUsed == \E s, t \in Sites : s # t /\ At(s).kind = "bind" /\ To(s) = To(t)
BoundPassed ==
  \E s \in KnownSites : At(s).kind = "bind" /\
    \E d \in DOMAIN prog : Binder(prog, d, At(s).x) = s[1] /\
      \E i \in Of(prog[d], Using \ {"bind"}) :
        /\ At(s).x \in StatementNames(prog[d].body[i])
        /\ d = s[1] => prog[d].body[i].e.x # At(s).x \/ prog[d].body[i].kind # "call"

(* A generic function or a static method is generated among the variables  *)
(* of the caller, and the arguments of the first are evaluated twice.      *)
GeneratedElsewhere ==
  \E s \in KnownSites : prog[To(s)].sort \in {"generic", "static"} /\
    \E x \in Uses(To(s)) : Binder(prog, To(s), x) \notin {To(s), Binder(prog, s[1], x)}
ArgumentsTwice ==
  \E s \in KnownSites : prog[To(s)].sort = "generic" /\
    \E k \in 1..Len(At(s).args) : At(s).args[k].kind = "inc"

Unfaithful ==
  \/ BlockShadows \/ LocalShadows \/ CapturedParameterAssigned \/ SwapsElsewhere \/ CalledEarly \/ ReadAfterReentry
  \/ DefaultOfCaller \/ DefaultIncremented \/ MissingBeforeDefault \/ SpreadNotAlone
  \/ ArgumentNamesParameter \/ BoundWithDefault \/ BoundAndUsed \/ BoundPassed
  \/ GeneratedElsewhere \/ ArgumentsTwice

-----------------------------------------------------------------------------
(* Properties *)

(* Whatever a program looks at, in whichever function and activation, has  *)
(* in the generated code the value it has in the program; no variable is   *)
(* missing from an environment, and no call enters another function.       *)
FollowsProgram == status \in {"differs", "rejected"} => Unfaithful

(* A call changes the parameters of its callee and no other variable: the  *)
(* arguments, which are stored by their number into the environment, never *)
(* get past the parameters into the variables captured behind them.        *)
ArgumentsStayInParameters ==
  [][ /\ ~BoundWithDefault
      /\ AtStatement("call") /\ Len(frames') > Len(frames)
      /\ SortOfCallee = "closure" /\ Cell(Ctx, Callee) # None
      => LET k == clos[objs[Load(Mem, Cell(Ctx, Callee))].v]
         IN \A c \in 1..Len(cells) :
              cells'[c].obj # cells[c].obj => \E i \in 1..Len(prog[k.f].params) : k.env[i] = c ]_vars
=============================================================================
