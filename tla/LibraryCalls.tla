----------------------------- MODULE LibraryCalls -----------------------------
(***************************************************************************)
(* The members of C++ classes that code generation asks for: those of the  *)
(* builtin classes, which are the same for every program, and those the    *)
(* nodes of a program need, in the order they are met.                     *)
(***************************************************************************)
EXTENDS SymbolLookup, TemplateInstantiator

(* The builtin classes.                                                    *)
NumberCtor == <<Known(CNumber, "constructor", <<CObject>>, <<<<"double">>>>)>>
NumberInit == NumberCtor \o Calls(CNumber, <<"toString", "unboxed">>, <<>>)
NumberClone == <<[Builtins(CNumber, "clone", <<>>) EXCEPT !.args = <<CNumber>>]>>
NumberMath == Calls(CNumber, Arithmetic, <<CNumber>>) \o Calls(CNumber, Steps, <<>>)
NumberBoolean == Calls(CNumber, Comparisons, <<CNumber>>)
NumberConstants == <<StaticOf(CNumber, "NaN"), StaticOf(CNumber, "POSITIVE_INFINITY")>>

BooleanInit ==
  <<Known(CBoolean, "constructor", <<CObject>>, <<<<"bool">>>>)>> \o Calls(CBoolean, <<"unboxed", "negate", "toString">>, <<>>)
BooleanClone == <<[Builtins(CBoolean, "clone", <<>>) EXCEPT !.args = <<CBoolean>>]>>

ClosureInit ==
  <<Known(CClosure, "constructor", <<CObject, CObject, CNumber, CNumber, CNumber>>, <<CVoid, CVoid, CNumber, CNumber, CNumber>>)>>
ClosureCalls == Calls(CClosure, <<"call", "getEnvironment">>, <<>>)
LazyClosureInit == <<Known(<<"TSLazyClosure">>, "constructor", <<CObject>>, <<CVoid>>)>>
LazyClosureEnvironment == <<Builtins(<<"TSLazyClosure">>, "getEnvironment", <<>>)>>

ObjectInit ==
  <<Known(CObject, "constructor", <<CObject>>, <<>>), Builtins(CObject, "set", <<CString, CObject>>), Builtins(CObject, "get", <<CString>>)>>
ObjectOperations ==
  <<[Builtins(CObject, "keys", <<CObject>>) EXCEPT !.passes = 1, !.meant = Static(CObject, "keys", <<CObject>>, <<>>)],
    [Builtins(CObject, "isUndefined_CompilerAPI", <<>>) EXCEPT !.args = <<CObject>>],
    Builtins(CObject, "copyPropsTo", <<CObject>>), Builtins(CObject, "operatorIn", <<CString>>)>>

UnionOperations ==
  <<Builtins(CUnion, "constructor", <<CObject>>), Builtins(CUnion, "getValue", <<>>), Builtins(CUnion, "setValue", <<CObject>>),
    Builtins(CUnion, "toBool", <<>>)>>

TupleOperations ==
  LET c == <<"Tuple">>
  IN <<Builtins(c, "constructor", <<>>), Builtins(c, "[]", <<CNumber>>), Builtins(c, "push", <<CObject>>),
       Builtins(c, "setElementAtIndex", <<CNumber, CObject>>)>>

StringCtor(param) == <<Known(CString, "constructor", <<CObject>>, <<param>>)>>
StringInit ==
  <<Builtins(CString, "concat", <<CString>>), Builtins(CString, "length", <<>>),
    [Builtins(CString, "clone", <<>>) EXCEPT !.args = <<CString>>], [Builtins(CString, "negate", <<>>) EXCEPT !.args = <<CString>>]>>
StringSubscription == <<Builtins(CString, "[]", <<CNumber>>)>>

ArgsToArrayCtor == <<Builtins(<<"ArgsToArray">>, "constructor", <<<<"Array", CObject>>>>)>>
AddObject == <<Builtins(<<"ArgsToArray">>, "addObject", <<CObject, CBoolean>>)>>

UndefinedInit == <<StaticOf(CUndefined, "instance")>>
NullInit == <<StaticOf(<<"Null">>, "instance")>>
GCRoots == <<Known(<<"GC">>, "addRoot", <<CObject, CObject>>, <<CVoid, CVoid>>), Known(<<"GC">>, "removeRoot", <<CObject>>, <<CVoid>>)>>
GCAllocations ==
  <<Known(<<"GC">>, "allocate", <<CObject>>, <<<<"double">>>>), Known(<<"GC">>, "allocateObject", <<CObject>>, <<<<"double">>>>)>>
GetGC == <<StaticOf(<<"Runtime">>, "getGC")>>
GetLoop == <<StaticOf(<<"Runtime">>, "getLoop")>>
RunLoop == <<Builtins(<<"EventLoop">>, "run", <<>>)>>

(* What the generator looks up before it reads a program, and around it.   *)
GeneratorInit == NumberInit \o NumberClone \o BooleanInit \o BooleanClone
InitRuntime == GetGC \o GCRoots \o GCAllocations
InitGlobalConstants == GetLoop \o RunLoop \o NullInit \o UndefinedInit \o NumberConstants

(* The operations a statement of a program may need of a builtin class.    *)
OnDemand ==
  [number |-> NumberMath \o NumberBoolean, object |-> ObjectInit \o ObjectOperations, union |-> UnionOperations, tuple |-> TupleOperations,
   string |-> StringInit \o StringCtor(<<"char">>) \o StringCtor(CNumber) \o StringSubscription,
   closure |-> ClosureInit \o ClosureCalls, lazy |-> LazyClosureInit \o LazyClosureEnvironment]

-----------------------------------------------------------------------------
(* The nodes of a program.                                                 *)
Void(c) == IF c = <<"T">> THEN CVoid ELSE c
ThisType(t) == LET c == Cpp(t) IN [i \in DOMAIN c |-> IF i = 1 THEN c[i] ELSE Void(c[i])]
AnyInstance(t) == LET c == Cpp(t) IN [i \in DOMAIN c |-> IF i = 1 THEN c[i] ELSE CVoid]
Of(c, name, declared, args, params) == Request(c, name, declared, args, Len(params) + 1, Member(c, name, params, <<>>))

(* An array literal: an array, and an array of one element for each push.  *)
GetType(n, want) ==
  CASE n.kids # <<>> -> n.type
    [] want # Never -> want
    [] OTHER -> n.type
CallDefaultConstructor(type) == <<Of(ThisType(type), "constructor", <<>>, <<>>, <<>>)>>
FindPush(type) == <<Of(ThisType(type), "push", <<ArrayOf(T)>>, <<ThisType(type)>>, <<ThisType(type)>>)>>
CallPush(type) == FindPush(type) \o CallDefaultConstructor(type) \o ArgsToArrayCtor \o AddObject

CreateSubscription(type) == <<Of(Cpp(type), "[]", <<CNumber>>, <<CNumber>>, <<CNumber>>)>>
SetElementAtIndex(type) == <<Of(Cpp(type), "setElementAtIndex", <<CNumber, T>>, <<CNumber, Cpp(type[2])>>, <<CNumber, Cpp(type[2])>>)>>

(* Accessors: a getter is looked up in the declaration of its class.       *)
HandleGetAccess(n) == <<Of(AnyInstance(Receiver(n).type), n.name, <<>>, <<>>, <<>>)>>
HandleSetAccess(n) == <<Of(Cpp(Receiver(n).type), n.name, <<CNumber>>, <<>>, <<CNumber>>)>>

(* What a declared type means where the template has its arguments.        *)
Meaning(t, class) ==
  CASE t[1] = "rest" -> IF t[2] = AnyType THEN <<"Array", CObject>> ELSE class
    [] t = T -> class[2]
    [] t = <<"V">> -> class[3]
    [] t = ArrayOf(T) -> class
    [] OTHER -> Cpp(t)
MeantMethod(n) ==
  LET class == Cpp(Receiver(n).type)
  IN IF n.name = "map" THEN MapTo(class, Cpp(n.type[2]))
     ELSE Member(Owner(Receiver(n).type, n.name), n.name, [i \in DOMAIN n.decl |-> Meaning(n.decl[i], class)], <<>>)

(* A call of a method of C++: the callback of map decides its instance.    *)
HandleMethodCall(n) ==
  LET type == Receiver(n).type
      declaring == DeclaringClass(type, n.name)
      own == IF type[1] = "subclass" THEN "subclass" ELSE Cpp(type)[1]
  IN <<[Request(Cpp(type), n.name, [i \in DOMAIN n.decl |-> Cpp(n.decl[i])],
                ComputeArguments(n.decl, GetArgumentTypes(n.decl, Args(n)), Args(n)),
                1 + HandleCallArguments(n.decl, Args(n)), MeantMethod(n))
        EXCEPT !.classes = <<own, declaring>> \o Implemented(declaring),
               !.fargs = IF n.name = "map" THEN <<Cpp(Args(n)[1].type[2])>> ELSE <<>>]>>

HandleNewExpression(n) ==
  LET params == FindConstructor(n.type, Args(n))
      meant == [i \in DOMAIN params |-> Cpp(params[i])]
  IN <<Request(Cpp(n.type), "constructor", meant, ComputeArguments(params, [i \in DOMAIN Args(n) |-> Args(n)[i].type], Args(n)),
               1 + HandleCallArguments(params, Args(n)), Member(Cpp(n.type), "constructor", meant, <<>>))>>

(* Arguments of primitive types are copied, those of optional parameters   *)
(* become unions, and the others an array.                                 *)
ConvertTSArg(arg) ==
  CASE arg.kind # "spread" /\ arg.type = Num -> NumberClone
    [] arg.kind # "spread" /\ arg.type = Str -> <<StringInit[3]>>
    [] OTHER -> <<>>
ComputeRestParameters(params) == IF HasRest(params) THEN CallDefaultConstructor(ArrayOf(T)) \o ArgsToArrayCtor \o AddObject ELSE <<>>
Conversions(n) ==
  FlattenSeq([i \in DOMAIN Args(n) |-> ConvertTSArg(Args(n)[i])])
  \o (IF \E i \in DOMAIN n.decl : n.decl[i][1] = "union" THEN <<UnionOperations[1]>> ELSE <<>>)
  \o ComputeRestParameters(n.decl)

(* Loops over an iterator, and over what returns one.                      *)
IsIterator(type) == type[1] = "ArrayIterator"
IteratorOf(type) ==
  CASE IsArray(type) \/ IsIterator(type) -> <<"ArrayIterator", Cpp(type[2])>>
    [] IsSet(type) -> <<"SetIterator", Cpp(type[2])>>
    [] IsMap(type) -> <<"MapIterator", <<"Tuple">>>>
    [] OTHER -> <<"StringIterator", CString>>
CreateIteratorGetterMethod(c) == <<Of(c, "iterator", <<>>, <<>>, <<>>)>>
GetNext(iterator) == <<Of(iterator, "next", <<>>, <<>>, <<>>)>>
DoneGetter(element) == <<Of(<<"IteratorResult", element>>, "done", <<>>, <<>>, <<>>)>>
ValueGetter == <<Of(<<"IteratorResult", CVoid>>, "value", <<>>, <<>>, <<>>)>>

HandleForOf(type) ==
  (IF IsIterator(type) THEN <<>> ELSE CreateIteratorGetterMethod(AnyInstance(type)))
  \o GetNext(IteratorOf(type)) \o DoneGetter(IteratorOf(type)[2]) \o ValueGetter
HandleForIn ==
  <<ObjectOperations[1]>> \o CreateIteratorGetterMethod(<<"Array", CString>>) \o GetNext(<<"ArrayIterator", CString>>) \o DoneGetter(CString) \o ValueGetter

(* want is the type the surroundings of n give to an empty array literal.  *)
Wanted(n, i) ==
  CASE n.kind \in {"let", "as"} -> n.type
    [] n.kind = "assign" -> Receiver(n).type
    [] OTHER -> GetArgumentArrayType(n, i)

RECURSIVE Requests(_, _)
Requests(n, want) ==
  LET OfKids == FlattenSeq([i \in DOMAIN n.kids |-> Requests(n.kids[i], Wanted(n, i))])
      Elements == FlattenSeq([i \in DOMAIN n.kids |-> Requests(n.kids[i], Never) \o CallPush(n.type)])
  IN CASE n.kind = "constant" -> IF n.type = Num THEN NumberCtor ELSE StringCtor(<<"char">>)
       [] n.kind = "literal" -> CallDefaultConstructor(GetType(n, want)) \o Elements
       [] n.kind = "access" -> CreateSubscription(Receiver(n).type) \o OfKids
       [] n.kind = "set element" -> SetElementAtIndex(Receiver(n).type) \o OfKids
       [] n.kind = "get" -> HandleGetAccess(n) \o OfKids
       [] n.kind = "set" -> HandleSetAccess(n) \o OfKids
       [] n.kind = "method" -> HandleMethodCall(n) \o OfKids \o Conversions(n)
       [] n.kind = "new" -> HandleNewExpression(n) \o OfKids \o Conversions(n)
       [] n.kind = "of" -> OfKids \o HandleForOf(Last(n.kids).type)
       [] n.kind = "in" -> OfKids \o HandleForIn
       [] n.kind = "use" -> OnDemand[n.name]
       [] OTHER -> OfKids
=============================================================================
