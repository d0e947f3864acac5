------------------------------- MODULE Linking -------------------------------
(***************************************************************************)
(* How a program and the C++ library become one: the classes and then the  *)
(* methods the program needs are instantiated and compiled, and code       *)
(* generation, which reads the program a second time, looks up a C++       *)
(* member wherever it makes a call.                                        *)
(***************************************************************************)
EXTENDS LibraryCalls

CONSTANTS Programs,      \* sequences of statements
          Extras         \* sets of members the library happens to have instantiated for itself

VARIABLES prog,          \* the program
          stage,         \* what is done next; "failed" and "done" are the last
          lines,         \* the file of instances that is compiled next
          table,         \* the instances of class templates whose symbols are known
          methods,       \* the methods with an instance of their own
          pending,       \* what code generation asks for
          call           \* the call that was generated last

vars == <<prog, stage, lines, table, methods, pending, call>>

NoCall == [found |-> <<>>, meant |-> <<>>, passes |-> 0]

Init ==
  /\ prog \in Programs
  /\ \E extra \in Extras : methods = extra /\ table = LibraryInstances \cup {m.class : m \in extra}
  /\ stage = "instantiate classes"
  /\ lines = {}
  /\ pending = <<>>
  /\ call = NoCall

InstantiateClasses ==
  /\ stage = "instantiate classes"
  /\ IF Throws \in InstantiatedClasses(prog)
     THEN stage' = "failed" /\ UNCHANGED lines
     ELSE stage' = "compile classes" /\ lines' = InstantiatedClasses(prog)
  /\ UNCHANGED <<prog, table, methods, pending, call>>

CompileClasses ==
  /\ stage = "compile classes"
  /\ IF Compiles(lines)
     THEN stage' = "instantiate functions" /\ table' = table \cup ExportedClasses(lines)
     ELSE stage' = "failed" /\ UNCHANGED table
  /\ lines' = {}
  /\ UNCHANGED <<prog, methods, pending, call>>

InstantiateFunctions ==
  /\ stage = "instantiate functions"
  /\ lines' = InstantiatedFunctions(prog, methods \cup UNION {Members(c) : c \in table})
  /\ stage' = "compile functions"
  /\ UNCHANGED <<prog, table, methods, pending, call>>

CompileFunctions ==
  /\ stage = "compile functions"
  /\ IF Compiles(lines)
     THEN /\ stage' = "generate"
          /\ methods' = methods \cup ExportedMethods(lines)
          /\ pending' = GeneratorInit \o InitRuntime \o InitGlobalConstants
                        \o FlattenSeq([i \in DOMAIN prog |-> Requests(prog[i], Never)])
     ELSE stage' = "failed" /\ UNCHANGED <<methods, pending>>
  /\ lines' = {}
  /\ UNCHANGED <<prog, table, call>>

(* A call for which nothing is found, or more than one member, ends the    *)
(* compilation, at once or when the program is linked.                     *)
GenerateCall ==
  /\ stage = "generate"
  /\ pending # <<>>
  /\ LET r == Head(pending)
         candidates == TryGet(r, table, methods)
     IN IF Cardinality(candidates) = 1
        THEN /\ call' = [found |-> CHOOSE s \in candidates : TRUE, meant |-> r.meant, passes |-> r.passes]
             /\ pending' = Tail(pending)
             /\ UNCHANGED stage
        ELSE stage' = "failed" /\ UNCHANGED <<call, pending>>
  /\ UNCHANGED <<prog, lines, table, methods>>

Link ==
  /\ stage = "generate"
  /\ pending = <<>>
  /\ stage' = "done"
  /\ UNCHANGED <<prog, lines, table, methods, pending, call>>

Next == InstantiateClasses \/ CompileClasses \/ InstantiateFunctions \/ CompileFunctions \/ GenerateCall \/ Link

Spec == Init /\ [][Next]_vars
=============================================================================
