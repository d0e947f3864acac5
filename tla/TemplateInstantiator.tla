------------------------- MODULE TemplateInstantiator -------------------------
(***************************************************************************)
(* The pass of the compiler that reads a program and writes the C++ files  *)
(* with the instances of the class templates and of the methods it needs.  *)
(* A line of such a file is a record; a class line has no name.            *)
(*                                                                         *)
(* A node of a program has a kind, the type the checker gives it where it  *)
(* stands, a name, a list of declared types (of the variable it names or of *)
(* the parameters of what it calls) and its children: of a method call the *)
(* receiver and then the arguments, of `let` the type node and then the    *)
(* initialiser, of a spread element the array.                             *)
(***************************************************************************)
EXTENDS RuntimeLibrary

Node(kind, type, name, decl, kids) == [kind |-> kind, type |-> type, name |-> name, decl |-> decl, kids |-> kids]

Receiver(n) == n.kids[1]
Args(n) == CASE n.kind = "method" -> Tail(n.kids)
             [] n.kind = "call" -> n.kids
             [] n.kind = "new" -> n.kids
             [] OTHER -> <<>>

-----------------------------------------------------------------------------
(* Instances of classes.                                                   *)
ClassLine(c) == [class |-> c, ret |-> <<>>, name |-> "", params |-> <<>>]
Throws == ClassLine(<<"throws">>)     \* the pass ends with an exception

InstantiateIteratorResult(t) == {ClassLine(<<"IteratorResult", Cpp(t)>>), ClassLine(<<"IteratorResult", CNumber>>)}

HandleArrayFromVariableDeclaration(n) ==
  LET init == Last(n.kids)
  IN CASE n.kind = "declare" -> {Throws}
       [] n.kind = "let" /\ init.kind = "literal" /\ init.kids # <<>> ->
            IF \E i \in DOMAIN init.kids : Cpp(init.kids[i].type) # Cpp(init.kids[1].type)
            THEN {Throws}
            ELSE {ClassLine(Cpp(init.type))} \cup InstantiateIteratorResult(init.kids[1].type)
       [] n.kind = "let" /\ init.kind \in {"literal", "call", "method"} ->
            {ClassLine(Cpp(n.type))} \cup InstantiateIteratorResult(n.type)
       [] n.kind = "let" /\ init.kind = "as" -> {ClassLine(Cpp(init.type))} \cup InstantiateIteratorResult(init.type)
       [] OTHER -> {}

(* want is the declared type of the parameter n is the argument for.       *)
HandleArray(n, want) ==
  LET type == IF n.kind = "assign" THEN Receiver(n).type ELSE n.type
  IN CASE n.kind \in {"let", "declare"} -> HandleArrayFromVariableDeclaration(n)
       [] n.kind = "literal" /\ n.kids = <<>> /\ want # Never ->
            IF want[2] = T THEN {} ELSE {ClassLine(Cpp(want))} \cup InstantiateIteratorResult(want)
       [] OTHER -> IF type[2] = Never THEN {} ELSE {ClassLine(Cpp(type))} \cup InstantiateIteratorResult(type[2])

GetArgumentArrayType(n, i) ==
  LET k == IF n.kind = "method" THEN i - 1 ELSE i
  IN IF n.kind \in {"call", "method", "new"} /\ k \in DOMAIN n.decl
     THEN IF n.decl[k][1] = "rest" THEN ArrayOf(n.decl[k][2]) ELSE n.decl[k]
     ELSE Never

(* The children of the arguments of a call are visited twice, an array's   *)
(* children not at all.                                                    *)
RECURSIVE ArrayNodeVisitor(_, _)
ArrayNodeVisitor(n, want) ==
  LET VisitChildren(m) == UNION {ArrayNodeVisitor(m.kids[i], GetArgumentArrayType(m, i)) : i \in DOMAIN m.kids}
  IN (IF n.kind \in {"call", "method"} THEN UNION {VisitChildren(Args(n)[i]) : i \in DOMAIN Args(n)} ELSE {})
     \cup (IF IsArray(n.type) THEN HandleArray(n, want) ELSE VisitChildren(n))

RECURSIVE MapNodeVisitor(_)
MapNodeVisitor(n) ==
  IF IsMap(n.type)
  THEN {ClassLine(Cpp(n.type)), ClassLine(<<"IteratorResult", Cpp(n.type[2])>>),
        ClassLine(<<"IteratorResult", Cpp(n.type[3])>>), ClassLine(<<"IteratorResult", <<"Tuple">>>>)}
  ELSE UNION {MapNodeVisitor(n.kids[i]) : i \in DOMAIN n.kids}

RECURSIVE SetNodeVisitor(_)
SetNodeVisitor(n) ==
  IF IsSet(n.type)
  THEN {ClassLine(Cpp(n.type)), ClassLine(<<"IteratorResult", Cpp(n.type[2])>>)}
  ELSE UNION {SetNodeVisitor(n.kids[i]) : i \in DOMAIN n.kids}

InstantiatedClasses(prog) ==
  UNION {ArrayNodeVisitor(prog[i], Never) \cup MapNodeVisitor(prog[i]) \cup SetNodeVisitor(prog[i]) : i \in DOMAIN prog}

-----------------------------------------------------------------------------
(* Instances of the methods of arrays that no class of the table has.      *)
(* Fault: no argument for the optional parameters a call leaves out.       *)
TypesOfArguments(n) == [i \in DOMAIN Args(n) |-> Cpp(Args(n)[i].type)]

ArgumentTypes(n) ==
  LET ends == {i \in DOMAIN Args(n) : Args(n)[i].kind = "spread" \/ (i <= Len(n.decl) /\ n.decl[i][1] = "rest")}
      count == IF ends = {} THEN Len(Args(n)) ELSE Min(ends)
      OfArgument(i) ==
        CASE i <= Len(n.decl) /\ n.decl[i][1] = "union" -> CUnion
          [] i \in ends -> Cpp(Receiver(n).type)
          [] OTHER -> Cpp(Args(n)[i].type)
  IN [i \in 1..count |-> OfArgument(i)] \o [i \in 1..(Len(n.decl) - Len(Args(n))) |-> CUnion]

HandleArrayMethods(n, symbols) ==
  LET line == [class |-> Cpp(Receiver(n).type), ret |-> Cpp(n.type), name |-> n.name, params |-> ArgumentTypes(n)]
      exists == \E s \in symbols : s.class = line.class /\ s.name = line.name /\ s.params = line.params
  IN IF exists THEN {} ELSE {line}

RECURSIVE MethodsVisitor(_, _)
MethodsVisitor(n, symbols) ==
  LET VisitChildren(m) == UNION {MethodsVisitor(m.kids[i], symbols) : i \in DOMAIN m.kids}
  IN (IF n.kind \in {"call", "method"} THEN UNION {VisitChildren(Args(n)[i]) : i \in DOMAIN Args(n)} ELSE {})
     \cup (IF n.kind = "method" /\ IsArray(Receiver(n).type) THEN HandleArrayMethods(n, symbols) ELSE VisitChildren(n))

InstantiatedFunctions(prog, symbols) == UNION {MethodsVisitor(prog[i], symbols) : i \in DOMAIN prog}

-----------------------------------------------------------------------------
(* The classes a file declares before its first line.  The last template a *)
(* line names is searched in its text, of a method line in the text up to   *)
(* the end of its parameters.                                              *)
LastTemplateArguments(line) ==
  LET parts == <<line.ret, line.class>> \o line.params
      named == {i \in DOMAIN parts : Len(parts[i]) > 1}
  IN IF named = {} THEN <<>> ELSE LastArguments(parts[Max(named)])

RequiredForwardDeclarations(line) ==
  LastTemplateArguments(line)
  \o (IF line.name = "" THEN <<>>
      ELSE line.params \o (IF Len(line.ret) > 1 THEN LastArguments(line.ret) ELSE <<>>))

ForwardDeclarations(lines) ==
  {c[1] : c \in {d \in UNION {Range(RequiredForwardDeclarations(line)) : line \in lines} : Len(d) = 1}}

(* What the C++ compiler makes of a file: headers are those of the library. *)
HeaderClasses == {m.class[1] : m \in PlainClasses \ ProjectMembers} \cup {c[1] : c \in LibraryInstances}

Compiles(lines) ==
  \A line \in lines :
    /\ UNION {Named(c) : c \in {line.class, line.ret} \ {<<>>}} \subseteq HeaderClasses \cup ForwardDeclarations(lines)
    /\ line.name = "" \/ (line.name = "map" /\ line.params = <<CClosure>> /\ line.ret[1] = "Array")
         \/ \E m \in Members(line.class) : m.name = line.name /\ m.params = line.params /\ m.ret = line.ret

ExportedClasses(lines) == UNION {Emitted(line.class) : line \in lines}
ExportedMethods(lines) ==
  {IF line.name = "map" THEN MapTo(line.class, line.ret[2]) ELSE Member(line.class, line.name, line.params, line.ret) : line \in lines}
=============================================================================
