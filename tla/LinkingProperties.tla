-------------------------- MODULE LinkingProperties --------------------------
(***************************************************************************)
(* What a program may rely on from the three passes over it: that what one *)
(* of them finds the others find too, and that a call reaches the C++      *)
(* member its author wrote.                                                *)
(***************************************************************************)
EXTENDS Linking

RECURSIVE Subtree(_)
Subtree(n) == {n} \cup UNION {Subtree(n.kids[i]) : i \in DOMAIN n.kids}
Nodes == UNION {Subtree(prog[i]) : i \in DOMAIN prog}

OfArray(n) == n.kind = "method" /\ IsArray(Receiver(n).type)

(* The constructs the passes do not agree on, each for its reason.         *)
(* An array variable without an initialiser, as that of a loop `for (const *)
(* row of rows)`: handleArrayFromVariableDeclaration throws.               *)
WithoutInitializer(n) == n.kind = "declare" /\ IsArray(n.type)

(* A literal whose elements are not all of the type of the variable: it is *)
(* instantiated for the type of its own elements, and made with the other. *)
MixedElements(n) ==
  n.kind = "let" /\ Last(n.kids).kind = "literal" /\ \E e \in Range(Last(n.kids).kids) : Cpp(e.type) # Cpp(Last(n.kids).type[2])

(* map below another call of an array's method: methodsVisitor does not    *)
(* look at the receiver, and at the arguments only at their children.      *)
MapWithin(n) == OfArray(n) /\ \E k \in Range(n.kids) : OfArray(k) /\ k.name = "map"

(* map to a type when the library has another instance of it for the array: *)
(* the methods are compared without the argument of their own template.    *)
MapElsewhere(n) == OfArray(n) /\ n.name = "map" /\ \E m \in methods : m.class = Cpp(Receiver(n).type) /\ m.fargs # <<Cpp(n.type)[2]>>

(* An argument whose C++ type is not that of the parameter: its symbol is  *)
(* looked up by the types of the arguments, the declared type of a variable *)
(* where its type is narrowed.                                             *)
OtherType(n) ==
  n.kind = "method" /\ \E i \in DOMAIN n.decl :
     LET meant == Meaning(n.decl[i], Cpp(Receiver(n).type))
         Rest(arg) == IF arg.kind = "spread" THEN Cpp(ArgumentType(arg)) ELSE <<"Array", Cpp(ArgumentType(arg))>>
     IN CASE n.decl[i][1] = "union" -> FALSE
          [] n.decl[i][1] = "rest" -> n.decl[i][2] # AnyType /\ \E k \in i..Len(Args(n)) : Rest(Args(n)[k]) # meant
          [] OTHER -> Cpp(ArgumentType(Args(n)[i])) # meant \/ Cpp(Args(n)[i].type) # meant

(* push of nothing: the pattern of no arguments is that of an array of     *)
(* objects.                                                                *)
PushNothing(n) == OfArray(n) /\ n.name = "push" /\ Args(n) = <<>>

(* An array of maps of arrays: only the arguments of the last template of a *)
(* line are declared in the file that has it.                              *)
DeepArgument(n) == IsArray(n.type) /\ IsMap(n.type[2]) /\ \E k \in {2, 3} : n.type[2][k][1] \in Templates

(* A type of array that only nodes below another array have, or a variable *)
(* made by `new`: arrayNodeVisitor looks no deeper than a node of array    *)
(* type.                                                                   *)
RECURSIVE Uncovered(_)
Uncovered(n) == {n} \cup (IF IsArray(n.type) THEN {} ELSE UNION {Uncovered(n.kids[i]) : i \in DOMAIN n.kids})
MadeByNew(n) == n.kind = "let" /\ Last(n.kids).kind = "new"
Covered(n) ==
  /\ IsArray(n.type) /\ n.type[2] # Never /\ n.kind # "type"
  /\ Cpp(n.type) \notin LibraryInstances
  /\ \A m \in UNION {Uncovered(prog[i]) : i \in DOMAIN prog} : m.type = n.type => MadeByNew(m)

(* A program without these constructs is compiled and linked: whatever     *)
(* member code generation asks for, the two passes before it have made the *)
(* instance, and there is one of that name and parameters and no second.   *)
ProgramsLink ==
  stage = "failed" =>
    \E n \in Nodes : \/ WithoutInitializer(n) \/ MixedElements(n) \/ Covered(n) \/ DeepArgument(n)
                     \/ MapWithin(n) \/ MapElsewhere(n) \/ OtherType(n) \/ PushNothing(n)

(* A call that is generated is one of the member its author wrote: that of *)
(* the class or of the class or interface it comes from, with the types of *)
(* the parameters its declaration has.  And it passes `this` and a value   *)
(* for each parameter, for the optional and rest ones that got no argument *)
(* as well.                                                                *)
MeantIsCalled ==
  call # NoCall => /\ SameMember(call.found, call.meant)
                   /\ call.passes = Len(call.found.params) + (IF call.found.static THEN 0 ELSE 1)
=============================================================================
