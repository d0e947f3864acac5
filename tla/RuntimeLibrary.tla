---------------------------- MODULE RuntimeLibrary ----------------------------
(***************************************************************************)
(* What the runtime library and the headers of a project offer to a        *)
(* compiled program: the members of a class, and of an instance of a class *)
(* template, as the C++ compiler exports them, and the parameters the      *)
(* TypeScript declarations made from the same headers give to the methods. *)
(***************************************************************************)
EXTENDS CxxTypes

Member(c, name, params, ret) ==
  [class |-> c, name |-> name, params |-> params, ret |-> ret, fargs |-> <<>>, static |-> FALSE]
Static(c, name, params, ret) == [Member(c, name, params, ret) EXCEPT !.static = TRUE]

Ctor(c, params) == Member(c, "constructor", params, CVoid)

(* The members of a name set that share their parameters and their result. *)
Each(c, names, params, ret) == {Member(c, name, params, ret) : name \in names}

ArrayMembers(c) ==
  {Ctor(c, <<>>), Member(c, "push", <<c>>, CNumber), Member(c, "push", <<c[2]>>, CVoid),
   Member(c, "pop", <<>>, CUnion), Member(c, "setElementAtIndex", <<CNumber, c[2]>>, CVoid),
   Member(c, "length", <<>>, CNumber), Member(c, "length", <<CNumber>>, CVoid),
   Member(c, "[]", <<CNumber>>, c[2]), Member(c, "[]", <<<<"size_t">>>>, c[2]),
   Member(c, "forEach", <<CClosure>>, CVoid), Member(c, "sort", <<CUnion>>, c),
   Member(c, "indexOf", <<c[2]>>, CNumber), Member(c, "indexOf", <<c[2], CUnion>>, CNumber),
   Member(c, "splice", <<CNumber, CUnion>>, c), Member(c, "join", <<CUnion>>, CString),
   Member(c, "concat", <<c>>, c), Member(c, "toString", <<>>, CString)}
  \cup Each(c, {"iterator", "keys", "values"}, <<>>, CVoid)

MapMembers(c) ==
  {Ctor(c, <<>>), Member(c, "set", <<c[2], c[3]>>, c), Member(c, "has", <<c[2]>>, CBoolean),
   Member(c, "get", <<c[2]>>, c[3]), Member(c, "remove", <<c[2]>>, CBoolean), Member(c, "clear", <<>>, CVoid),
   Member(c, "size", <<>>, CNumber), Member(c, "forEach", <<CClosure>>, CVoid)}
  \cup Each(c, {"iterator", "keys", "values"}, <<>>, CVoid)

SetMembers(c) ==
  {Ctor(c, <<>>), Member(c, "add", <<c[2]>>, c), Member(c, "has", <<c[2]>>, CBoolean),
   Member(c, "remove", <<c[2]>>, CBoolean), Member(c, "clear", <<>>, CVoid), Member(c, "size", <<>>, CNumber),
   Member(c, "forEach", <<CClosure>>, CVoid)}
  \cup Each(c, {"iterator", "keys", "values"}, <<>>, CVoid)

Arithmetic == <<"add", "sub", "mul", "div", "mod", "addInplace", "bitwiseAnd", "bitwiseLeftShift">>
Steps == <<"negate", "prefixIncrement", "postfixIncrement", "prefixDecrement", "postfixDecrement">>
Comparisons == <<"lessThan", "lessEqualsThan", "greaterThan", "greaterEqualsThan">>

NumberMembers ==
  {Ctor(CNumber, <<<<"double">>>>), Ctor(CNumber, <<CNumber>>), Member(CNumber, "unboxed", <<>>, <<"double">>),
   Member(CNumber, "clone", <<>>, CNumber), Member(CNumber, "toString", <<>>, CString),
   Member(CNumber, "equals", <<CObject>>, CBoolean),
   Static(CNumber, "NaN", <<>>, CNumber), Static(CNumber, "POSITIVE_INFINITY", <<>>, CNumber)}
  \cup Each(CNumber, Range(Arithmetic), <<CNumber>>, CNumber)
  \cup Each(CNumber, Range(Steps), <<>>, CNumber)
  \cup Each(CNumber, Range(Comparisons), <<CNumber>>, CBoolean)

BooleanMembers ==
  {Ctor(CBoolean, ps) : ps \in {<<>>, <<<<"bool">>>>, <<CNumber>>, <<CString>>}}
  \cup Each(CBoolean, {"negate", "clone"}, <<>>, CBoolean)
  \cup {Member(CBoolean, "toString", <<>>, CString), Member(CBoolean, "unboxed", <<>>, <<"bool">>)}

ObjectMembers ==
  {Ctor(CObject, <<>>), Ctor(CObject, <<<<"TSTypeID">>>>), Static(CObject, "keys", <<CObject>>, <<"Array", CString>>),
   Member(CObject, "isUndefined_CompilerAPI", <<>>, CBoolean), Member(CObject, "copyPropsTo", <<CObject>>, CVoid),
   Member(CObject, "get", <<CString>>, CObject), Member(CObject, "get", <<<<"std::string">>>>, CObject),
   Member(CObject, "set", <<CString, CObject>>, CVoid), Member(CObject, "set", <<<<"std::string">>, CObject>>, CVoid),
   Member(CObject, "operatorIn", <<CString>>, CBoolean), Member(CObject, "operatorIn", <<<<"std::string">>>>, <<"bool">>)}

StringMembers ==
  {Ctor(CString, ps) : ps \in {<<>>, <<CNumber>>, <<<<"std::string">>>>, <<<<"char">>>>}}
  \cup Each(CString, {"startsWith", "endsWith", "includes"}, <<CString, CUnion>>, CBoolean)
  \cup Each(CString, {"indexOf", "lastIndexOf"}, <<CString, CUnion>>, CNumber)
  \cup Each(CString, {"slice", "substring"}, <<CNumber, CUnion>>, CString)
  \cup {Member(CString, "[]", <<CNumber>>, CString), Member(CString, "[]", <<<<"size_t">>>>, CString),
        Member(CString, "concat", <<CString>>, CString), Member(CString, "split", <<CString, CUnion>>, <<"Array", CString>>),
        Member(CString, "length", <<>>, CNumber), Member(CString, "negate", <<>>, CNumber)}
  \cup Each(CString, {"clone", "trim", "iterator"}, <<>>, CString)

UnionMembers ==
  {Ctor(CUnion, <<>>), Ctor(CUnion, <<CObject>>), Member(CUnion, "getValue", <<>>, CObject),
   Member(CUnion, "setValue", <<CObject>>, CVoid), Member(CUnion, "toBool", <<>>, CBoolean)}

TupleMembers ==
  LET c == <<"Tuple">>
  IN {Ctor(c, <<>>), Member(c, "length", <<>>, CNumber), Member(c, "[]", <<CNumber>>, CVoid), Member(c, "[]", <<<<"int">>>>, CVoid),
      Member(c, "push", <<CObject>>, CVoid), Member(c, "setElementAtIndex", <<CNumber, CObject>>, CVoid)}

ClosureMembers ==
  {Ctor(CClosure, <<CVoid, CVoid, CNumber, CNumber, CNumber>>), Ctor(CClosure, <<<<"std::function">>, CVoid, <<"uint32">>, <<"uint32">>>>)}
  \cup Each(CClosure, {"call", "getEnvironment"}, <<>>, CVoid)

RuntimeMembers ==
  {Static(<<"Runtime">>, name, <<>>, CVoid) : name \in {"getGC", "getLoop", "getMemoryDiagnostics", "getCmdArgs"}}
  \cup {Member(<<"EventLoop">>, "run", <<>>, CNumber)}
  \cup Each(<<"GC">>, {"allocate", "allocateObject"}, <<<<"double">>>>, CVoid)
  \cup {Member(<<"GC">>, "addRoot", <<CVoid, CVoid>>, CVoid), Member(<<"GC">>, "removeRoot", <<CVoid>>, CVoid)}

(* The two classes that help a call on its way.                            *)
HelperMembers ==
  {Ctor(<<"ArgsToArray">>, <<<<"Array", CObject>>>>), Member(<<"ArgsToArray">>, "addObject", <<CObject, CBoolean>>, CVoid),
   Ctor(<<"TSLazyClosure">>, <<CVoid>>), Member(<<"TSLazyClosure">>, "getEnvironment", <<>>, CVoid)}

InstanceMembers == {Static(<<name>>, "instance", <<>>, <<name>>) : name \in {"Undefined", "Null"}}

(* A C++ part of the project: Gadget extends Widget and implements         *)
(* Drawable, which in C++ is a second base class.                          *)
ProjectMembers ==
  {Ctor(<<"Widget">>, <<CNumber>>), Ctor(<<"Widget">>, <<CString, CUnion>>), Ctor(<<"Gadget">>, <<CNumber>>),
   Member(<<"Widget">>, "draw", <<CNumber, CUnion>>, CVoid), Member(<<"Widget">>, "area", <<>>, CNumber),
   Member(<<"Gadget">>, "spin", <<<<"Array", CObject>>>>, CVoid), Member(<<"Drawable">>, "paint", <<>>, CVoid)}

PlainClasses ==
  UNION {NumberMembers, BooleanMembers, ObjectMembers, StringMembers, UnionMembers, TupleMembers, ClosureMembers,
         RuntimeMembers, HelperMembers, InstanceMembers, ProjectMembers}

IteratorMembers(c) == {Member(c, "next", <<>>, <<"IteratorResult", c[2]>>)}
ResultMembers(c) == {Member(c, "done", <<>>, CBoolean), Member(c, "value", <<>>, c[2])}

(* What the compilation of an instance of a class template exports.        *)
Members(c) ==
  CASE c[1] = "Array" -> ArrayMembers(c)
    [] c[1] = "Map" -> MapMembers(c)
    [] c[1] = "Set" -> SetMembers(c)
    [] c[1] = "IteratorResult" -> ResultMembers(c)
    [] OTHER -> IteratorMembers(c)

(* The iterators a container is compiled with.                             *)
Emitted(c) ==
  {c} \cup CASE c[1] = "Array" -> {<<"ArrayIterator", c[2]>>, <<"ArrayIterator", CNumber>>}
             [] c[1] = "Set" -> {<<"SetIterator", c[2]>>}
             [] c[1] = "Map" -> {<<"ArrayIterator", c[2]>>, <<"ArrayIterator", c[3]>>, <<"MapIterator", <<"Tuple">>>>}
             [] OTHER -> {}

(* The instances the library itself consists of.                           *)
LibraryInstances ==
  UNION {Emitted(c) : c \in {<<"Array", CString>>, <<"Array", CObject>>, <<"Array", CVoid>>, <<"Map", CVoid, CVoid>>, <<"Set", CVoid>>,
                             <<"IteratorResult", CString>>, <<"IteratorResult", CObject>>, <<"IteratorResult", CVoid>>,
                             <<"StringIterator", CString>>}}

(* The member template of arrays, which needs an instance of its own.      *)
MapTo(c, u) == [Member(c, "map", <<CClosure>>, <<"Array", u>>) EXCEPT !.fargs = <<u>>]

-----------------------------------------------------------------------------
(* The parameters in the declarations of the methods.                      *)
RestOf(t) == <<"rest", t>>
AnyType == <<"any">>

ArrayDeclarations ==
  [push |-> <<RestOf(T)>>, pop |-> <<>>, sort |-> <<Optional(FunctionTo(Num))>>, indexOf |-> <<T, Optional(Num)>>,
   map |-> <<FunctionTo(T)>>, forEach |-> <<FunctionTo(T)>>, splice |-> <<Num, Optional(Num)>>, join |-> <<Optional(Str)>>,
   concat |-> <<ArrayOf(T)>>, toString |-> <<>>, keys |-> <<>>, values |-> <<>>]
MapDeclarations ==
  [set |-> <<T, <<"V">>>>, has |-> <<T>>, get |-> <<T>>, remove |-> <<T>>, clear |-> <<>>, forEach |-> <<FunctionTo(T)>>,
   keys |-> <<>>, values |-> <<>>]
SetDeclarations ==
  [add |-> <<T>>, has |-> <<T>>, remove |-> <<T>>, clear |-> <<>>, forEach |-> <<FunctionTo(T)>>, keys |-> <<>>, values |-> <<>>]
StringDeclarations ==
  [startsWith |-> <<Str, Optional(Num)>>, split |-> <<Str, Optional(Num)>>, slice |-> <<Num, Optional(Num)>>, trim |-> <<>>,
   concat |-> <<Str>>]
ProjectDeclarations ==
  [draw |-> <<Num, Optional(Num)>>, area |-> <<>>, spin |-> <<RestOf(AnyType)>>, paint |-> <<>>]

Declared(type, name) ==
  CASE IsArray(type) -> ArrayDeclarations[name]
    [] IsMap(type) -> MapDeclarations[name]
    [] IsSet(type) -> SetDeclarations[name]
    [] type = Str -> StringDeclarations[name]
    [] OTHER -> ProjectDeclarations[name]

(* The constructors in the declaration of a class, in their order.         *)
Constructors(type) ==
  CASE type[1] = "Widget" -> <<<<Num>>, <<Str, Optional(Num)>>>>
    [] type[1] = "Gadget" -> <<<<Num>>>>
    [] OTHER -> <<<<>>>>

(* The class that declares a method, what that one implements, and the C++ *)
(* class that has the member.                                              *)
DeclaringClass(type, name) ==
  CASE name \in {"draw", "area"} -> "Widget"
    [] name \in {"spin", "paint"} -> "Gadget"
    [] OTHER -> Cpp(type)[1]
Implemented(class) == IF class = "Gadget" THEN <<"Drawable">> ELSE <<>>
Owner(type, name) ==
  CASE name = "paint" -> <<"Drawable">>
    [] name \in {"draw", "area", "spin"} -> <<DeclaringClass(type, name)>>
    [] OTHER -> Cpp(type)
=============================================================================
