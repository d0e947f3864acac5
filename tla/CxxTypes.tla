-------------------------------- MODULE CxxTypes --------------------------------
(***************************************************************************)
(* The types of TypeScript programs and the C++ types that stand for them  *)
(* in the symbols of the runtime library.  A type is a tuple of its name   *)
(* and its arguments, for TypeScript as for C++, where pointers are left   *)
(* out: they are dropped before signatures are compared.                   *)
(***************************************************************************)
EXTENDS Naturals, Sequences, FiniteSets, SequencesExt

Num == <<"number">>
Str == <<"string">>
Bool == <<"boolean">>
Optional(t) == <<"union", t>>          \* t | undefined
ArrayOf(t) == <<"array", t>>
MapOf(k, v) == <<"map", k, v>>
SetOf(t) == <<"set", t>>
FunctionTo(t) == <<"function", t>>     \* (...) => t
Never == <<"never">>                   \* the elements of [] without a context

IsArray(t) == t[1] = "array"
IsMap(t) == t[1] = "map"
IsSet(t) == t[1] = "set"

CNumber == <<"Number">>
CString == <<"String">>
CBoolean == <<"Boolean">>
CObject == <<"Object">>
CUnion == <<"Union">>
CUndefined == <<"Undefined">>
CVoid == <<"void">>
CClosure == <<"TSClosure">>
T == <<"T">>                           \* a parameter of a template

(* Types written in the signatures of the library that are no pointers.    *)
Plain == {<<"double">>, <<"bool">>, <<"size_t">>, <<"std::string">>, <<"TSTypeID">>}

(* The C++ class of a type; an ambient class has its own name.             *)
Builtin ==
  [any |-> "Object", intersection |-> "Object", interface |-> "Object", literal |-> "Object", class |-> "Object",
   subclass |-> "Object", void |-> "Undefined", undefined |-> "Undefined", null |-> "Null", number |-> "Number",
   string |-> "String", boolean |-> "Boolean", enum |-> "Number", array |-> "Array", map |-> "Map", set |-> "Set",
   tuple |-> "Tuple", function |-> "TSClosure", union |-> "Union"]
Templates == {"array", "map", "set"}

RECURSIVE Cpp(_)
Cpp(t) ==
  <<IF t[1] \in DOMAIN Builtin THEN Builtin[t[1]] ELSE t[1]>>
  \o (IF t[1] \in Templates THEN [i \in 1..(Len(t) - 1) |-> Cpp(t[i + 1])] ELSE <<>>)

(* The classes that are named in a C++ type.                               *)
RECURSIVE Named(_)
Named(c) == {c[1]} \cup UNION {Named(c[i]) : i \in 2..Len(c)}

(* The text of a type ends in the arguments of its last template: those of *)
(* its own, unless one of them has arguments.                              *)
RECURSIVE LastArguments(_)
LastArguments(c) ==
  LET nested == {i \in 2..Len(c) : Len(c[i]) > 1}
  IN IF nested = {} THEN Tail(c) ELSE LastArguments(c[CHOOSE i \in nested : \A j \in nested : j <= i])
=============================================================================
