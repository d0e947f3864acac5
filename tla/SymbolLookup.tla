----------------------------- MODULE SymbolLookup -----------------------------
(***************************************************************************)
(* How code generation finds the C++ symbol of a declared method: by the   *)
(* name of its class and its own, and by one of two patterns of parameters, *)
(* those of the declaration and those computed from the arguments.         *)
(***************************************************************************)
EXTENDS RuntimeLibrary

(* A request: classes are those to search in turn, targs and fargs the     *)
(* arguments of the class template and of the method's (empty: any), passes *)
(* is the number of values the generated call has.  meant is the member a   *)
(* reader of the program expects.                                          *)
Request(class, name, declared, args, passes, meant) ==
  [classes |-> <<class[1]>>, targs |-> Tail(class), name |-> name, declared |-> declared, args |-> args, fargs |-> <<>>,
   passes |-> passes, meant |-> meant]

(* A request for a method of a builtin class with a pattern, or with two.  *)
Known(class, name, declared, args) == Request(class, name, declared, args, Len(args) + 1, Member(class, name, args, <<>>))
Builtins(class, name, params) == Known(class, name, params, params)
StaticOf(class, name) == Request(class, name, <<>>, <<>>, 0, Member(class, name, <<>>, <<>>))
Calls(class, names, params) == [i \in DOMAIN names |-> Builtins(class, names[i], params)]

GetOrCreate(table, methods, name) ==
  {m \in PlainClasses \cup methods : m.class[1] = name} \cup UNION {Members(c) : c \in {d \in table : d[1] = name}}

IsMatching(r, s) ==
  /\ \/ s.params = r.declared
     \/ (r.args # <<>> \/ s.name = "constructor") /\ s.params = r.args
  /\ r.targs # <<>> => Tail(s.class) = r.targs
  /\ r.fargs # <<>> => s.fargs = r.fargs

(* Instances of templates have pointers for arguments.                     *)
HasPointer(s) == Len(s.class) > 1 \/ \E i \in DOMAIN s.params : s.params[i] \notin Plain

HandleDeclarationWithPredicate(r, range) ==
  LET candidates == {s \in range : s.name = r.name /\ IsMatching(r, s)}
  IN IF Cardinality(candidates) > 1 /\ \E s \in candidates : HasPointer(s) THEN {s \in candidates : HasPointer(s)} ELSE candidates

(* The candidates: none when nothing is found, more than one is an error.  *)
TryGet(r, table, methods) ==
  LET InClass(i) == HandleDeclarationWithPredicate(r, GetOrCreate(table, methods, r.classes[i]))
      some == {i \in DOMAIN r.classes : InClass(i) # {}}
  IN IF some = {} THEN {} ELSE InClass(Min(some))

(* One member, whatever it returns.                                        *)
SameMember(s, m) == s.class = m.class /\ s.name = m.name /\ s.params = m.params /\ s.fargs = m.fargs

-----------------------------------------------------------------------------
(* The pattern of a call's arguments: types has one type for an argument   *)
(* and one for every optional parameter; args are the nodes.               *)
ComputeRestArgumentsType(params, types, args) ==
  LET start == Len(params)
      spreads == {i \in start..Len(args) : args[i].kind = "spread"}
  IN CASE params[start][2] = AnyType -> <<"Array", CObject>>
       [] spreads # {} -> Cpp(types[Min(spreads)])
       [] OTHER -> <<"Array", Cpp(types[start])>>

HasRest(params) == params # <<>> /\ Last(params)[1] = "rest"

ComputeArguments(params, types, args) ==
  LET before == IF HasRest(params) THEN Min({Len(types), Len(params) - 1}) ELSE Len(types)
  IN [i \in 1..before |-> Cpp(types[i])]
     \o (IF ~HasRest(params) THEN <<>>
         ELSE IF Len(types) >= Len(params) THEN <<ComputeRestArgumentsType(params, types, args)>>
         ELSE <<<<"Array", CObject>>>>)

(* The type of an argument: of a variable the declared one.                *)
ArgumentType(arg) ==
  CASE arg.kind = "name" -> arg.decl[1]
    [] arg.kind = "spread" -> arg.kids[1].type
    [] OTHER -> arg.type

GetArgumentTypes(params, args) ==
  LET fixed == IF HasRest(params) THEN Len(params) - 1 ELSE Len(params)
      given == {i \in 1..fixed : params[i][1] = "union" \/ i \in DOMAIN args}
  IN [i \in 1..Cardinality(given) |-> IF params[i][1] = "union" THEN params[i] ELSE ArgumentType(args[i])]
     \o (IF HasRest(params) THEN [i \in 1..(Len(args) - fixed) |-> ArgumentType(args[fixed + i])] ELSE <<>>)

(* Fault: what the caller leaves out is left out.                          *)
PopulateNothing(params, count) == count

(* Missing optional arguments are passed, the others are one array.        *)
PopulateOptionals(params, count) == IF HasRest(params) THEN Max({count, Len(params) - 1}) ELSE Max({count, Len(params)})
HandleCallArguments(params, args) ==
  LET passed == IF HasRest(params) THEN Min({Len(args), Len(params) - 1}) ELSE Len(args)
  IN PopulateOptionals(params, passed) + (IF HasRest(params) THEN 1 ELSE 0)

FindConstructor(type, args) ==
  LET Upcastable(a, p) == a.type = p \/ p = AnyType
      fits == {i \in DOMAIN Constructors(type) :
                 LET ps == Constructors(type)[i]
                 IN Len(args) <= Len(ps) /\ \A k \in DOMAIN ps : ps[k][1] = "union" \/ (k \in DOMAIN args /\ Upcastable(args[k], ps[k]))}
  IN Constructors(type)[Min(fits)]
=============================================================================
