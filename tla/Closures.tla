------------------------------- MODULE Closures -------------------------------
(***************************************************************************)
(* Functions, closures and calls: the code that the compiler generates for *)
(* them, run side by side with the program it is generated from.           *)
(*                                                                         *)
(* A variable of the generated code is a cell (a ** of LLVM) that points   *)
(* to an object.  The environment of a closure is an array of cells; its   *)
(* layout, the names, is known when the code is generated.  Arguments are  *)
(* not passed: the caller writes them into the environment of the closure. *)
(* A variable of the program is a location of `store', and an activation   *)
(* knows the locations of the names in its scope.                          *)
(***************************************************************************)
EXTENDS CaptureAnalysis, TLC

CONSTANT Families    \* sequence of sets of programs that are compiled and run

VARIABLES
  prog,      \* the program
  frames,    \* its activations, innermost last, with what both sides know
  cells,     \* generated code: cell -> object and MetaInfoStorage.fixedArgs
  objs,      \* generated code: object -> value
  clos,      \* generated code: closure -> function and environment
  registry,  \* MetaInfoStorage.functionExpressionEnv: text -> layout
  code,      \* layouts with which the bodies of static methods were generated
  store,     \* program: location -> value
  fns,       \* program: function object -> function, scope, bound arguments
  steps,     \* statements run, from which new numbers are made
  status     \* "running", "done", or why the run ended before

vars == <<prog, frames, cells, objs, clos, registry, code, store, fns, steps, status>>

-----------------------------------------------------------------------------
(* Values *)

Number(n) == [type |-> "number", v |-> n]
Closure(c) == [type |-> "closure", v |-> c]
Array(s) == [type |-> "array", v |-> s]
Undefined == [type |-> "undefined", v |-> 0]
Uninitialized == [type |-> "uninitialized", v |-> 0]

(* The number that a literal makes at position i of the current statement. *)
NewNumber(i) == Number(100 * steps + 10 * i)
NewValue(kind, i) ==
  IF kind = "lit" THEN NewNumber(i) ELSE Array(<<NewNumber(i), NewNumber(i + 1)>>)
Incremented(v) == IF v.type = "number" THEN Number(v.v + 1) ELSE v

-----------------------------------------------------------------------------
(* Memory of the generated code *)

(* What an expression works on: cells and objects. *)
Mem == [cells |-> cells, objs |-> objs]

AllocateObject(m, v) == [m EXCEPT !.objs = Append(@, v)]
AllocateCell(m, o) == [m EXCEPT !.cells = Append(@, [obj |-> o, fixed |-> 0])]
LastObject(m) == Len(m.objs)
LastCell(m) == Len(m.cells)
Store(m, c, o) == [m EXCEPT !.cells[c].obj = o]
Load(m, c) == m.cells[c].obj

AllocateDummies(m, n) ==
  [objs |-> m.objs \o [i \in 1..n |-> Undefined],
   cells |-> m.cells \o [i \in 1..n |-> [obj |-> Len(m.objs) + i, fixed |-> 0]]]
NewCells(m, n) == [i \in 1..n |-> Len(m.cells) + i]

(* LLVMValue.clone of a primitive: numbers have the semantics of values.   *)
Clone(m, o) ==
  IF m.objs[o].type = "number" THEN [mem |-> AllocateObject(m, m.objs[o]), obj |-> Len(m.objs) + 1]
  ELSE [mem |-> m, obj |-> o]
CloneOf(v) == IF v.obj = 0 THEN v ELSE Clone(v.mem, v.obj)

-----------------------------------------------------------------------------
(* Scopes and environments *)

(* ctx: names and cells of the environment, which of them are parameters,  *)
(* and the chain of scopes, innermost first, of which the first `own' ones *)
(* hold values of the function that is being generated.                    *)
Context(names, env, params, chain, own) ==
  [names |-> names, env |-> env, params |-> params, chain |-> chain, own |-> own]

Index(s, x) == CHOOSE i \in 1..Len(s) : s[i] = x /\ \A j \in 1..(i - 1) : s[j] # x
Find(s, x) == IF \E i \in 1..Len(s) : s[i] = x THEN Index(s, x) ELSE 0

(* No cell: no such variable, or an instruction of another function.       *)
None == 0

CellAt(cs, i) == IF i \in 1..Len(cs) THEN cs[i] ELSE None

FindInsideScopes(ctx, x) ==
  CellAt([k \in 1..ctx.own |-> ctx.chain[k][2]], Find([k \in 1..ctx.own |-> ctx.chain[k][1]], x))

FindInsideEnv(ctx, x) == CellAt(ctx.env, Find(ctx.names, x))

(* VariableFinder, IdentifierHandler: the environment comes first. *)
Cell(ctx, x) ==
  IF Find(ctx.names, x) # 0 THEN FindInsideEnv(ctx, x) ELSE FindInsideScopes(ctx, x)

(* Scope.set in the scope ctx of new variables. *)
Push(ctx, x, c) == [ctx EXCEPT !.chain = <<<<x, c>>>> \o @, !.own = @ + 1]

(* Scope.setOrAssign of a variable that is hoisted; how many arguments are *)
(* bound is remembered with the variable.                                  *)
SetOrAssign(m, ctx, x, o, fixed) ==
  LET c == FindInsideScopes(ctx, x)
  IN [Store(m, c, o) EXCEPT !.cells[c].fixed = fixed]

(* VariableHandler: the environment is told too.                           *)
Declare(m, ctx, x, o, fixed) ==
  LET scoped == SetOrAssign(m, ctx, x, o, fixed)
  IN IF FindInsideEnv(ctx, x) # None THEN Store(scoped, FindInsideEnv(ctx, x), o) ELSE scoped

(* Scope.assignThroughParentChain finds a variable of another function     *)
(* too, which cannot be stored to from here.                               *)
AssignThroughParentChain(m, ctx, x, o) == Store(m, FindInsideScopes(ctx, x), o)

(* populateContext: the variables of the chain, the innermost of a name.   *)
PopulateContext(ctx, wanted) ==
  LET named(i) == ctx.chain[i][1]
      first(i) == \A j \in 1..(i - 1) : named(j) # named(i)
      is == SelectSeq([i \in 1..Len(ctx.chain) |-> i], LAMBDA i : named(i) \in wanted /\ first(i))
  IN [k \in 1..Len(is) |-> <<named(is[k]), IF is[k] <= ctx.own THEN ctx.chain[is[k]][2] ELSE None>>]

(* Fault: the parameters of the outer function are shared. *)
CopyNothing(ctx, is) == <<>>

(* Of the places `is' of the environment those that an inner function gets *)
(* a copy of.                                                              *)
CopiedPlaces(ctx, is) == SelectSeq(is, LAMBDA i : ctx.names[i] \in ctx.params)

Positions(q) == [i \in 1..Len(q) |-> i]
NamesIn(entries) == [i \in 1..Len(entries) |-> entries[i][1]]
CellsIn(entries) == [i \in 1..Len(entries) |-> entries[i][2]]

(* The parameters for which there are cells already.                       *)
GivenParameters(params, args) ==
  [i \in 1..(IF Len(args) < Len(params) THEN Len(args) ELSE Len(params)) |-> <<params[i].x, args[i]>>]

(* What the places `taken' of the outer environment give to an inner       *)
(* function: new cells for the copied ones, the same cell otherwise.       *)
TakenCells(m, ctx, taken, copied) ==
  [k \in 1..Len(taken) |-> <<ctx.names[taken[k]],
     IF Find(copied, taken[k]) # 0 THEN Len(m.cells) + Find(copied, taken[k]) ELSE ctx.env[taken[k]]>>]

(* The parameters, then the variables of the scopes, for which cells of    *)
(* the outer environment are preferred, then what only that one has.       *)
Layout(given, context, taken) ==
  given \o [k \in 1..Len(context) |->
              LET t == Find(NamesIn(taken), context[k][1])
              IN IF t # 0 THEN taken[t] ELSE context[k]]
        \o SelectSeq(taken, LAMBDA e : Find(NamesIn(context), e[1]) = 0)

Environment(m, ctx, copied, entries, paramNames) ==
  [mem |-> [m EXCEPT !.cells = @ \o [k \in 1..Len(copied) |->
               [obj |-> Load(m, ctx.env[copied[k]]), fixed |-> 0]]],
   names |-> NamesIn(entries), env |-> CellsIn(entries), params |-> paramNames]

EnvironmentTaking(m, ctx, given, context, taken, copied, paramNames) ==
  Environment(m, ctx, copied, Layout(given, context, TakenCells(m, ctx, taken, copied)), paramNames)

EnvironmentWith(m, ctx, given, context, taken, paramNames) ==
  EnvironmentTaking(m, ctx, given, context, taken, CopiedPlaces(ctx, taken), paramNames)

(* createEnvironment, in the context ctx of the code that creates it, for  *)
(* a function with these parameters of which `args' are the first cells.   *)
(* A parameter of the outer function is copied, anything else is shared.   *)
CreateEnvironment(m, ctx, wanted, params, args) ==
  LET paramNames == {params[i].x : i \in 1..Len(params)}
      given == GivenParameters(params, args)
  IN EnvironmentWith(m, ctx, given,
                     SelectSeq(PopulateContext(ctx, wanted), LAMBDA e : Find(NamesIn(given), e[1]) = 0),
                     SelectSeq(Positions(ctx.names), LAMBDA i : ctx.names[i] \in wanted \ paramNames),
                     paramNames)

(* Environment.merge of a base with one environment: of a name that both   *)
(* have the cell of the base is kept, and only the parameters of the other.*)
MergeNew(base, e, new) ==
  [base EXCEPT !.names = @ \o [k \in 1..Len(new) |-> e.names[new[k]]],
               !.env = @ \o [k \in 1..Len(new) |-> CellAt(e.env, new[k])],
               !.params = e.params]
Merge(base, e) ==
  MergeNew(base, e, SelectSeq(Positions(e.names), LAMBDA i : Find(base.names, e.names[i]) = 0))

-----------------------------------------------------------------------------
(* Expressions *)

Top == frames[Len(frames)]
Ctx == Top.ctx
Current == prog[Top.f].body[Top.at]

(* Generated code: the object of an expression, and the memory after it.   *)
(* Object 0 stands for a use of something that is not there.               *)
Use(m, e, o) ==
  [mem |-> IF e.kind = "inc" /\ o # 0 THEN [m EXCEPT !.objs[o] = Incremented(@)] ELSE m, obj |-> o]
LoadIfThere(m, c) == IF c = None THEN 0 ELSE Load(m, c)
HandleExpression(m, ctx, e, i) ==
  IF e.kind \in {"lit", "array"}
  THEN [mem |-> AllocateObject(m, NewValue(e.kind, i)), obj |-> Len(m.objs) + 1]
  ELSE Use(m, e, LoadIfThere(m, Cell(ctx, e.x)))

(* The program: value and store.                                           *)
Evaluate(s, names, e, i) ==
  IF e.kind \in {"lit", "array"} THEN [store |-> s, value |-> NewValue(e.kind, i)]
  ELSE LET l == names[e.x]
           v == IF e.kind = "inc" THEN Incremented(s[l]) ELSE s[l]
       IN [store |-> [s EXCEPT ![l] = v], value |-> v]

-----------------------------------------------------------------------------
(* Arguments *)

HasRest(params) == params # <<>> /\ Last(params).kind = "rest"
Fixed(params) == IF HasRest(params) THEN Len(params) - 1 ELSE Len(params)

(* handleCallArguments for one argument: a parameter is a variable of the  *)
(* scope in which the arguments that follow are evaluated.                 *)
Pass(params, r, c, i) ==
  [mem |-> AllocateCell(c.mem, c.obj), args |-> Append(r.args, c.obj),
   ctx |-> IF i <= Fixed(params) THEN Push(r.ctx, params[i].x, Len(c.mem.cells) + 1) ELSE r.ctx]
HandleArgument(params, r, arg, i) ==
  Pass(params, r, CloneOf(HandleExpression(r.mem, r.ctx, arg, i)), i)

(* handleCallRestArguments for one argument: an array takes the place of   *)
(* the array of the rest parameter, anything else is pushed to it.         *)
Gather(r, v) ==
  IF v.obj = 0 THEN [r EXCEPT !.args = Front(@) \o <<0>>]
  ELSE IF v.mem.objs[v.obj].type = "array"
  THEN [r EXCEPT !.mem = v.mem, !.args = Append(Front(@), v.obj)]
  ELSE [r EXCEPT !.mem = [v.mem EXCEPT !.objs[Last(r.args)].v = Append(@, v.mem.objs[v.obj])]]
HandleRestArgument(r, arg, i) == Gather(r, HandleExpression(r.mem, r.ctx, arg, i))

(* handleCallDefaultArguments for parameter i: what is missing and has an  *)
(* initializer is appended.                                                *)
HandleDefaultArgument(params, r, i) ==
  IF params[i].kind # "default" THEN r
  ELSE Pass(params, r, HandleExpression(r.mem, r.ctx, params[i].init, i), i)

Indexes(from, to) == [k \in 1..(IF to < from THEN 0 ELSE to - from + 1) |-> from + k - 1]

FixedArguments(m, ctx, params, args, n) ==
  FoldLeft(LAMBDA r, i : HandleArgument(params, r, args[i], i),
           [mem |-> m, args |-> <<>>, ctx |-> ctx], Indexes(1, n))
WithEmptyArray(r) ==
  [r EXCEPT !.mem = AllocateObject(@, Array(<<>>)), !.args = Append(@, Len(r.mem.objs) + 1)]
HandleCallRestArguments(r, args, n) ==
  FoldLeft(LAMBDA q, i : HandleRestArgument(q, args[i], i), WithEmptyArray(r), Indexes(n + 1, Len(args)))
HandleCallDefaultArguments(r, params) ==
  FoldLeft(LAMBDA q, i : HandleDefaultArgument(params, q, i), r, Indexes(Len(r.args) + 1, Len(params)))
WithRest(r, params, args, n) == IF HasRest(params) THEN HandleCallRestArguments(r, args, n) ELSE r

HandleCallArguments(m, ctx, params, args) ==
  LET n == IF HasRest(params) /\ Len(args) > Fixed(params) THEN Fixed(params) ELSE Len(args)
  IN HandleCallDefaultArguments(WithRest(FixedArguments(m, ctx, params, args, n), params, args, n), params)

(* The program: the arguments, and then the parameters in a new scope.     *)
EvaluateArguments(s, names, args) ==
  LET one(r, i) ==
        LET v == Evaluate(r.store, names, args[i], i)
        IN [store |-> v.store,
            values |-> r.values \o (IF args[i].kind = "spread" THEN v.value.v ELSE <<v.value>>)]
  IN FoldLeft(one, [store |-> s, values |-> <<>>], Indexes(1, Len(args)))

Parameters(s, names, params, values) ==
  LET one(r, i) ==
        LET p == params[i]
            given == i <= Len(values)
            v == IF p.kind = "rest"
                 THEN [store |-> r.store, value |-> Array(SubSeq(values, i, Len(values)))]
                 ELSE IF given \/ p.kind # "default"
                 THEN [store |-> r.store, value |-> IF given THEN values[i] ELSE Undefined]
                 ELSE Evaluate(r.store, r.names, p.init, i)
        IN [store |-> Append(v.store, v.value), names |-> (p.x :> Len(v.store) + 1) @@ r.names]
  IN FoldLeft(one, [store |-> s, names |-> names], Indexes(1, Len(params)))

-----------------------------------------------------------------------------
(* Activations *)

(* FunctionHandler.handleFunctionBody: the variables of the body are       *)
(* hoisted into a scope of its own.                                        *)
HandleFunctionBody(m, f, names, env, params, chain) ==
  LET locals == LocalNames(prog[f])
      fresh == NewCells(m, Len(locals))
  IN [mem |-> AllocateDummies(m, Len(locals)),
      ctx |-> Context(names, env, params,
                      [i \in 1..Len(locals) |-> <<locals[i], fresh[i]>>] \o chain, Len(locals))]

(* The program: variables are uninitialized, functions are there.          *)
Enter(s, fs, f, names) ==
  LET locals == LocalNames(prog[f])
      scope == [x \in ToSet(locals) |-> Len(s) + Index(locals, x)] @@ names
      isFun(x) == \E i \in Of(prog[f], {"fun"}) : prog[f].body[i].x = x
      funs == SelectSeq(locals, isFun)
      value(x) == IF isFun(x) THEN Closure(Len(fs) + Index(funs, x)) ELSE Uninitialized
  IN [store |-> s \o [i \in 1..Len(locals) |-> value(locals[i])],
      fns |-> fs \o [i \in 1..Len(funs) |-> [f |-> funs[i], names |-> scope, bound |-> <<>>]],
      names |-> scope]

(* The statements in the order in which they are handled: those of the     *)
(* module with its function declarations first.                            *)
NextAt(f, at) ==
  LET funs == {i \in 1..Len(prog[f].body) : prog[f].body[i].kind = "fun"}
      others == (1..Len(prog[f].body)) \ funs
      after(is) == {i \in is : i > at}
      least(is) == CHOOSE i \in is : \A j \in is : i <= j
  IN IF f # Main
     THEN at + 1
     ELSE IF (at = 0 \/ at \in funs) /\ after(funs) # {} THEN least(after(funs))
     ELSE LET rest == IF at \in funs THEN others ELSE after(others)
          IN IF rest = {} THEN Len(prog[f].body) + 1 ELSE least(rest)

Advanced(fr) == [fr EXCEPT !.at = NextAt(fr.f, fr.at)]

AtStatement(kind) ==
  /\ status = "running"
  /\ Top.at <= Len(prog[Top.f].body)
  /\ Current.kind = kind

Run(m, s, f) ==
  /\ cells' = m.cells /\ objs' = m.objs /\ store' = s /\ fns' = f

Init ==
  /\ \E i \in DOMAIN Families : prog \in {p \in Families[i] : Accepted(p)}
  /\ steps = 1 /\ status = "running"
  /\ registry = <<>> /\ code = <<>> /\ clos = <<>>
  /\ LET body == HandleFunctionBody([cells |-> <<>>, objs |-> <<>>], Main, <<>>, <<>>, {}, <<>>)
         js == Enter(<<>>, <<>>, Main, <<>>)
     IN /\ cells = body.mem.cells /\ objs = body.mem.objs
        /\ store = js.store /\ fns = js.fns
        /\ frames = <<[f |-> Main, at |-> NextAt(Main, 0), ctx |-> body.ctx, names |-> js.names]>>

(* A run that ends before the program does. *)
Stop(why) ==
  /\ status' = why
  /\ UNCHANGED <<prog, frames, cells, objs, clos, registry, code, store, fns, steps>>

Continue(fs) ==
  /\ frames' = fs
  /\ steps' = steps + 1
  /\ UNCHANGED <<prog, status>>

Next1 == Front(frames) \o <<Advanced(Top)>>

-----------------------------------------------------------------------------
(* Statements *)

(* e, as a statement: what both sides evaluate it to is observed.          *)
EvalStatement ==
  /\ AtStatement("eval")
  /\ LET c == HandleExpression(Mem, Ctx, Current.e, 1)
         v == Evaluate(store, Top.names, Current.e, 1)
     IN IF v.value.type = "uninitialized" THEN Stop("throws")
        ELSE IF c.obj = 0 THEN Stop("rejected")
        ELSE IF v.value.type # "closure" /\ c.mem.objs[c.obj] # v.value THEN Stop("differs")
        ELSE /\ Run(c.mem, v.store, fns)
             /\ Continue(Next1)
             /\ UNCHANGED <<clos, registry, code>>

(* let x = e *)
LetStatement ==
  /\ AtStatement("let")
  /\ LET c == HandleExpression(Mem, Ctx, Current.e, 1)
         o == Clone(c.mem, c.obj)
         v == Evaluate(store, Top.names, Current.e, 1)
     IN IF v.value.type = "uninitialized" THEN Stop("throws")
        ELSE IF c.obj = 0 THEN Stop("rejected")
        ELSE /\ Run(Declare(o.mem, Ctx, Current.x, o.obj, 0),
                    [v.store EXCEPT ![Top.names[Current.x]] = v.value], fns)
             /\ Continue(Next1)
             /\ UNCHANGED <<clos, registry, code>>

(* x = e *)
AssignStatement ==
  /\ AtStatement("assign")
  /\ LET c == HandleExpression(Mem, Ctx, Current.e, 1)
         o == Clone(c.mem, c.obj)
         v == Evaluate(store, Top.names, Current.e, 1)
         l == Top.names[Current.x]
     IN IF "uninitialized" \in {v.value.type, store[l].type} THEN Stop("throws")
        ELSE IF c.obj = 0 \/ Cell(Ctx, Current.x) = None THEN Stop("rejected")
        ELSE /\ Run(Store(o.mem, Cell(Ctx, Current.x), o.obj), [v.store EXCEPT ![l] = v.value], fns)
             /\ Continue(Next1)
             /\ UNCHANGED <<clos, registry, code>>

(* { let x = 1; x; } *)
BlockStatement ==
  /\ AtStatement("block")
  /\ LET hoisted == AllocateDummies(Mem, 1)
         inner == Push(Ctx, Current.x, LastCell(hoisted))
         c == HandleExpression(hoisted, inner, Lit, 1)
         m == Declare(c.mem, inner, Current.x, c.obj, 0)
     IN IF m.objs[Load(m, Cell(inner, Current.x))] # NewNumber(1) THEN Stop("differs")
        ELSE /\ Run(m, store, fns)
             /\ Continue(Next1)
             /\ UNCHANGED <<clos, registry, code>>

(* [x, y] = [y, x]: through a tuple of the two objects.                   *)
SwapStatement ==
  /\ AtStatement("swap")
  /\ LET x == Current.x
         y == Current.e.x
         names == Top.names
         swapped == AssignThroughParentChain(AssignThroughParentChain(Mem, Ctx, x, Load(Mem, Cell(Ctx, y))),
                                             Ctx, y, Load(Mem, Cell(Ctx, x)))
     IN IF "uninitialized" \in {store[names[x]].type, store[names[y]].type} THEN Stop("throws")
        ELSE IF \E n \in {x, y} : Cell(Ctx, n) = None \/ FindInsideScopes(Ctx, n) = None THEN Stop("rejected")
        ELSE /\ Run(swapped, [store EXCEPT ![names[x]] = store[names[y]], ![names[y]] = store[names[x]]], fns)
             /\ Continue(Next1)
             /\ UNCHANGED <<clos, registry, code>>

(* The environment of function f, with dummies for its arguments, and the  *)
(* closure, or what stands for a generic function until it is called.      *)
EnvironmentOf(f) ==
  LET params == prog[f].params
  IN CreateEnvironment(AllocateDummies(Mem, Len(params)), Ctx, EnvironmentVariables(prog, f),
                       params, NewCells(Mem, Len(params)))

RegisterClosure(e, f) ==
  /\ clos' = Append(clos, [f |-> f, names |-> e.names, env |-> e.env,
                           params |-> e.params, chain |-> Ctx.chain])
  /\ registry' = IF prog[f].sort = "generic"
                 THEN (prog[f].text :> [names |-> e.names, params |-> e.params]) @@ registry
                 ELSE registry
  /\ Continue(Next1)
  /\ UNCHANGED code

(* function f(...) { ... } *)
FunStatement ==
  /\ AtStatement("fun")
  /\ \E e \in {EnvironmentOf(Current.x)} :
       LET o == AllocateObject(e.mem, Closure(Len(clos) + 1))
       IN IF None \in ToSet(e.env) THEN Stop("rejected")
          ELSE /\ Run(SetOrAssign(o, Ctx, Current.x, LastObject(o), 0), store, fns)
               /\ RegisterClosure(e, Current.x)

(* let f = (...) => ... and let f = function (...) ...: the variable is    *)
(* declared with the closure.                                              *)
LetFunction ==
  \E f \in {Current.x} : \E e \in {EnvironmentOf(f)} :
    LET o == AllocateObject(e.mem, Closure(Len(clos) + 1))
    IN IF None \in ToSet(e.env) THEN Stop("rejected")
       ELSE /\ Run(Declare(o, Ctx, f, LastObject(o), 0),
                   [store EXCEPT ![Top.names[f]] = Closure(Len(fns) + 1)],
                   Append(fns, [f |-> f, names |-> Top.names, bound |-> <<>>]))
            /\ RegisterClosure(e, f)

ArrowStatement == AtStatement("arrow") /\ LetFunction
ExpressionStatement == AtStatement("expression") /\ LetFunction

-----------------------------------------------------------------------------
(* Calls *)

Callee == Current.e.x
IsDeclared == Callee \in Functions(prog)
ParamsAtCall == IF IsDeclared THEN prog[Callee].params
                ELSE [i \in 1..Len(Current.args) |-> Required("")]
SortOfCallee == IF IsDeclared THEN prog[Callee].sort ELSE "closure"

(* MetaInfoStorage.getFixedArgsCount: known of a variable of the scope     *)
(* only, not of a value that is taken out of an environment.               *)
FixedArgs ==
  LET c == FindInsideScopes(Ctx, Callee)
  IN IF Find(Ctx.names, Callee) # 0 \/ c = None THEN 0 ELSE cells[c].fixed

AtCall(sort) == AtStatement("call") /\ SortOfCallee = sort /\ Len(frames) < MaxDepth

(* Fault: the first place is left out. *)
StoreOneFurther(m, env, args, fixed) ==
  LET at(i) == IF i + fixed < Len(env) THEN i + fixed + 1 ELSE i + fixed
  IN FoldLeft(LAMBDA r, i : Store(r, env[at(i)], args[i]), m, Indexes(1, Len(args)))

(* FunctionHandler.storeActualArguments; nothing if the environment is     *)
(* too short for them.                                                     *)
StoreActualArguments(m, env, args, fixed) ==
  FoldLeft(LAMBDA r, i : Store(r, env[i + fixed], args[i]), m, Indexes(1, Len(args)))

(* The program's function: its function object, and the activation.        *)
ProgramFn ==
  IF SortOfCallee = "static" THEN [f |-> Callee, names |-> frames[1].names, bound |-> <<>>]
  ELSE fns[store[Top.names[Callee]].v]
ProgramCalls == SortOfCallee = "static" \/ store[Top.names[Callee]].type = "closure"

ProgramCall ==
  LET a == EvaluateArguments(store, Top.names, Current.args)
      p == Parameters(a.store, ProgramFn.names, prog[ProgramFn.f].params, ProgramFn.bound \o a.values)
  IN Enter(p.store, fns, ProgramFn.f, p.names)

Activate(body, f) ==
  \E js \in {ProgramCall} :
    /\ Run(body.mem, js.store, js.fns)
    /\ Continue(Append(frames, [f |-> f, at |-> NextAt(f, 0), ctx |-> body.ctx, names |-> js.names]))

(* handleTSClosureCall: what is missing of n arguments is undefined.       *)
Fill(a, missing) ==
  [mem |-> [a.mem EXCEPT !.objs = @ \o [i \in 1..missing |-> Undefined]],
   args |-> a.args \o [i \in 1..missing |-> Len(a.mem.objs) + i]]
WithMissing(a, params) ==
  Fill(a, IF HasRest(params) \/ Len(a.args) >= Len(params) THEN 0 ELSE Len(params) - Len(a.args))

(* Variables for the arguments, of which an environment is made.           *)
AllocateArguments(a) ==
  [a.mem EXCEPT !.cells = @ \o [i \in 1..Len(a.args) |-> [obj |-> a.args[i], fixed |-> 0]]]
EnvironmentOfCall(a, p) ==
  CreateEnvironment(AllocateArguments(a), Ctx, EnvironmentVariables(prog, Callee), p.params,
                    NewCells(a.mem, Len(a.args)))

(* handleCallExpression, handleTSClosureCall: the arguments are stored     *)
(* into the environment of the closure.                                    *)
CallClosure ==
  /\ AtCall("closure")
  /\ \E fn \in {HandleExpression(Mem, Ctx, Name(Callee), 0)} :
     \E a \in {WithMissing(HandleCallArguments(fn.mem, Ctx, ParamsAtCall, Current.args), ParamsAtCall)} :
       IF ~ProgramCalls THEN Stop("throws")
       ELSE IF fn.obj = 0 \/ 0 \in ToSet(a.args) THEN Stop("rejected")
       ELSE IF objs[fn.obj].type # "closure" THEN Stop("differs")
       ELSE \E k \in {clos[objs[fn.obj].v]} :
              IF k.f # ProgramFn.f \/ FixedArgs + Len(a.args) > Len(k.env) THEN Stop("differs")
              ELSE /\ Activate(HandleFunctionBody(StoreActualArguments(a.mem, k.env, a.args, FixedArgs),
                                                  k.f, k.names, k.env, k.params, k.chain), k.f)
                   /\ UNCHANGED <<clos, registry, code>>

(* handleLazyClosureCall, after handleCallExpression has handled the       *)
(* arguments already: a generic function is generated anew for each call,  *)
(* in the scopes and with the environment of the caller.                   *)
CallGeneric ==
  /\ AtCall("generic")
  /\ \E fn \in {HandleExpression(Mem, Ctx, Name(Callee), 0)}, p \in {prog[Callee]} :
     \E once \in {HandleCallArguments(fn.mem, Ctx, p.params, Current.args)} :
     \E a \in {HandleCallArguments(once.mem, Ctx, p.params, Current.args)} :
       IF ~ProgramCalls THEN Stop("throws")
       ELSE IF fn.obj = 0 \/ 0 \in ToSet(a.args) THEN Stop("rejected")
       ELSE IF objs[fn.obj].type # "closure" THEN Stop("differs")
       ELSE \E made \in {EnvironmentOfCall(a, p)} :
            \E e \in {Merge(made, [env |-> clos[objs[fn.obj].v].env] @@ registry[p.text])} :
              IF None \in ToSet(e.env) THEN Stop("rejected")
              ELSE /\ Activate(HandleFunctionBody(made.mem, Callee, e.names, e.env, e.params, Ctx.chain), Callee)
                   /\ UNCHANGED <<clos, registry, code>>

(* handleStaticMethodCall: an environment for each call, but one body, for *)
(* the layout of the call that was generated first.                        *)
CallStatic ==
  /\ AtCall("static")
  /\ \E a \in {HandleCallArguments(Mem, Ctx, prog[Callee].params, Current.args)} :
       IF 0 \in ToSet(a.args) THEN Stop("rejected")
       ELSE \E e \in {EnvironmentOfCall(a, prog[Callee])} :
              LET first == IF Callee \in DOMAIN code THEN code[Callee]
                           ELSE [names |-> e.names, chain |-> Ctx.chain]
              IN IF None \in ToSet(e.env) THEN Stop("rejected")
                 ELSE /\ Activate(HandleFunctionBody(e.mem, Callee, first.names, e.env, e.params, first.chain),
                                  Callee)
                      /\ code' = (Callee :> first) @@ code
                      /\ UNCHANGED <<clos, registry>>

(* A call at the bound of activations is one that the program skips.       *)
SkipCall ==
  /\ AtStatement("call")
  /\ Len(frames) >= MaxDepth
  /\ Run(Mem, store, fns)
  /\ Continue(Next1)
  /\ UNCHANGED <<clos, registry, code>>

(* handleFunctionBind: the arguments are stored into the environment of    *)
(* the function that is bound, which is also the result; how many they are *)
(* is known of the variable that is declared with it.                      *)
BindStatement ==
  /\ AtStatement("bind")
  /\ \E a \in {HandleCallArguments(Mem, Ctx, prog[Callee].params, Current.args)} :
     \E fn \in {HandleExpression(a.mem, Ctx, Name(Callee), 0)} :
     \E js \in {EvaluateArguments(store, Top.names, Current.args)} :
       IF ~ProgramCalls THEN Stop("throws")
       ELSE IF fn.obj = 0 \/ 0 \in ToSet(a.args) THEN Stop("rejected")
       ELSE IF objs[fn.obj].type # "closure" THEN Stop("differs")
       ELSE LET k == clos[objs[fn.obj].v]
                old == fns[store[Top.names[Callee]].v]
            IN IF Len(a.args) > Len(k.env) THEN Stop("differs")
               ELSE /\ Run(Declare(StoreActualArguments(a.mem, k.env, a.args, 0), Ctx, Current.x, fn.obj, Len(a.args)),
                           [js.store EXCEPT ![Top.names[Current.x]] = Closure(Len(fns) + 1)],
                           Append(fns, [old EXCEPT !.bound = @ \o js.values]))
                    /\ Continue(Next1)
                    /\ UNCHANGED <<clos, registry, code>>

-----------------------------------------------------------------------------
(* Returns *)

Ended == status = "running" /\ Top.at > Len(prog[Top.f].body)

(* The result is assigned to the variable of the call, if it has one.      *)
ReturnTo(m, s, o, v) ==
  LET caller == frames[Len(frames) - 1]
      x == prog[caller.f].body[caller.at].x
      c == Clone(m, o)
      fs == SubSeq(frames, 1, Len(frames) - 2) \o <<Advanced(caller)>>
  IN IF x = "" THEN Run(m, s, fns) /\ Continue(fs) /\ UNCHANGED <<clos, registry, code>>
     ELSE IF s[caller.names[x]].type = "uninitialized" THEN Stop("throws")
     ELSE IF Cell(caller.ctx, x) = None THEN Stop("rejected")
     ELSE /\ Run(Store(c.mem, Cell(caller.ctx, x), c.obj), [s EXCEPT ![caller.names[x]] = v], fns)
          /\ Continue(fs)
          /\ UNCHANGED <<clos, registry, code>>

ReturnStatement ==
  /\ AtStatement("return")
  /\ LET c == HandleExpression(Mem, Ctx, Current.e, 1)
         v == Evaluate(store, Top.names, Current.e, 1)
     IN IF v.value.type = "uninitialized" THEN Stop("throws")
        ELSE IF c.obj = 0 THEN Stop("rejected")
        ELSE ReturnTo(c.mem, v.store, c.obj, v.value)

EndOfBody ==
  /\ Ended
  /\ IF Top.f = Main THEN Stop("done")
     ELSE LET m == AllocateObject(Mem, Undefined) IN ReturnTo(m, store, LastObject(m), Undefined)

Next ==
  \/ EvalStatement \/ LetStatement \/ AssignStatement \/ BlockStatement \/ SwapStatement
  \/ FunStatement \/ ArrowStatement \/ ExpressionStatement
  \/ CallClosure \/ CallGeneric \/ CallStatic \/ SkipCall \/ BindStatement
  \/ ReturnStatement \/ EndOfBody

Spec == Init /\ [][Next]_vars
=============================================================================
