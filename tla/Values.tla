-------------------------------- MODULE Values ---------------------------------
(***************************************************************************)
(* Statements that compute with numbers, beside the code they compile to.  *)
(* A number is an object of the heap there, and a place (a variable, a     *)
(* property, an element of an array) points to one: the program copies     *)
(* values, the code copies pointers, clones, or changes objects in place.  *)
(* A variable or property that may be undefined points to a Union, an      *)
(* object that points to the value.  Numbers are counted modulo Modulus.   *)
(***************************************************************************)
EXTENDS Naturals, FiniteSets, FiniteSetsExt

CONSTANTS
  Modulus,     \* of the arithmetic
  Variables,   \* variables of type number
  Optionals,   \* variables of type number | undefined
  Properties,  \* properties of type number, one per object
  OptionalProperties,  \* properties of type number | undefined
  Elements,    \* elements of arrays of numbers, one per array
  Rank,        \* of places, any order
  PlaceSets,   \* the sets of places considered
  undefined    \* the value

ASSUME ModulusAssumption == Modulus \in Nat /\ Modulus > 1 /\ undefined \notin 0..(Modulus - 1)

Places == Variables \cup Optionals \cup Properties \cup OptionalProperties \cup Elements
Unions == Optionals \cup OptionalProperties

ASSUME KindsAssumption ==
  LET kinds == <<Variables, Optionals, Properties, OptionalProperties, Elements>>
  IN \A i, j \in 1..5 : i # j => kinds[i] \cap kinds[j] = {}

ASSUME RankAssumption ==
  /\ Rank \in [Places -> Nat \ {0}]
  /\ \A p, q \in Places : Rank[p] = Rank[q] => p = q

ASSUME PlaceSetsAssumption ==
  \A places \in PlaceSets : places \subseteq Places /\ IsFiniteSet(places)

VARIABLES
  value,    \* the program: what each place holds
  slot,     \* the code: the object each place points to
  content,  \* what the objects are
  last      \* of the last statement: the place it copied a number to, and
            \* whether it is of those for which the code is not the program

valuesVars == <<value, slot, content, last>>

Sum(a, b) == (a + b) % Modulus

-----------------------------------------------------------------------------
(* Expressions of type number, but for a read of a union: narrowed to a    *)
(* number if the target is one.                                            *)

Literal(n) == [kind |-> "number", n |-> n]
Read(p) == [kind |-> "read", p |-> p]
Prefix(p) == [kind |-> "prefix", p |-> p]
Postfix(p) == [kind |-> "postfix", p |-> p]
Assigned(p, n) == [kind |-> "assigned", p |-> p, n |-> n]
Operator(kind, l, r) == [kind |-> kind, left |-> l, right |-> r]

Numeric == DOMAIN value \ Unions
Operands == {Literal(1)}
            \cup {Read(p) : p \in Numeric} \cup {Prefix(p) : p \in Numeric} \cup {Postfix(p) : p \in Numeric}
            \cup {Assigned(p, 1) : p \in Numeric \cap Variables}
Selections == {Operator("or", Read(p), Read(q)) : p \in Numeric, q \in Numeric}

(* An operator whose right operand changes something; the left one may be  *)
(* what it changes.                                                        *)
Expressions ==
  LET changes == Operands \ ({Literal(1)} \cup {Read(p) : p \in Numeric})
      firsts == {Read(p) : p \in Numeric} \cup {Prefix(p) : p \in Numeric}
  IN Operands \cup Selections \cup {Operator(k, l, r) : k \in {"add", "or"}, l \in firsts, r \in changes}

(* The program evaluates from left to right; || only what it needs. *)
Meaning(v, result) == [value |-> v, result |-> result]

OperandMeans(e, v) ==
  CASE e.kind = "number"   -> Meaning(v, e.n)
    [] e.kind = "read"     -> Meaning(v, v[e.p])
    [] e.kind = "prefix"   -> Meaning([v EXCEPT ![e.p] = Sum(@, 1)], Sum(v[e.p], 1))
    [] e.kind = "postfix"  -> Meaning([v EXCEPT ![e.p] = Sum(@, 1)], v[e.p])
    [] e.kind = "assigned" -> Meaning([v EXCEPT ![e.p] = e.n], e.n)

Means(e, v) ==
  IF e.kind \notin {"add", "or"} THEN OperandMeans(e, v)
  ELSE LET l == OperandMeans(e.left, v)
           r == OperandMeans(e.right, l.value)
       IN CASE e.kind = "add" -> [r EXCEPT !.result = Sum(l.result, @)]
            [] e.kind = "or"  -> IF l.result # 0 THEN l ELSE r

-----------------------------------------------------------------------------
(* The code: slots, objects, the object that is the result, those that     *)
(* operands evaluated before point to, and whether one that something else *)
(* points to was changed.                                                  *)

Undefined == 0  \* the object
Number(n) == [type |-> "Number", is |-> n]
Union(o) == [type |-> "Union", is |-> o]

Fresh(objects) == CHOOSE o \in 0..Cardinality(objects) : o \notin objects

Allocate(m, c) ==
  LET o == Fresh(DOMAIN m.content)
  IN [m EXCEPT !.content = [q \in DOMAIN @ \cup {o} |-> IF q = o THEN c ELSE @[q]], !.result = o]

Type(m) == m.content[m.result].type
Clone(m) == Allocate(m, m.content[m.result])
Cloned(m) == IF Type(m) = "Number" THEN Clone(m) ELSE m
UnionCreate(m) == Allocate(m, Union(m.result))
Wrapped(m) == IF Type(m) = "Union" THEN m ELSE UnionCreate(m)
UnionGet(m) == IF Type(m) = "Union" THEN [m EXCEPT !.result = m.content[m.result].is] ELSE m

PointsTo(m, p) == {m.slot[p]} \cup (IF m.content[m.slot[p]].type = "Union" THEN {m.content[m.slot[p]].is} ELSE {})
Pointing(m, o) == {p \in DOMAIN m.slot : o \in PointsTo(m, p)}

(* An object is changed in place. *)
Change(m, o, is) ==
  [m EXCEPT !.content[o].is = is,
            !.disturbed = @ \/ o \in m.held \/ Cardinality(Pointing(m, o)) > 1]

Store(m, p) == [m EXCEPT !.slot[p] = m.result]

(* handleIdentifier, handlePropertyAccessGEP, handleArrayElementAccess: a  *)
(* property that is absent is wrapped.                                     *)
Load(m, p) ==
  LET l == [m EXCEPT !.result = m.slot[p]]
  IN IF p \in OptionalProperties /\ m.slot[p] = Undefined THEN UnionCreate(l) ELSE l

(* Fault: the pointer is assigned, as that of any other object. *)
AssignPointer(m, p) ==
  IF p \in Optionals /\ Type(m) # "Union" THEN Change(m, m.slot[p], m.result)
  ELSE Store(IF p \in Optionals THEN m ELSE UnionGet(m), p)

(* LLVMValue.makeAssignment: a Union takes the pointer, a number is cloned, *)
(* but not one that a Union gives.                                         *)
MakeAssignment(m, p) ==
  IF p \in Optionals /\ Type(m) # "Union" THEN Change(m, m.slot[p], m.result)
  ELSE IF p \in Optionals THEN Store(m, p)
  ELSE IF Type(m) = "Number" THEN Store(Clone(m), p)
  ELSE Store(UnionGet(m), p)

PrefixIncrement(m) == Change(m, m.result, Sum(m.content[m.result].is, 1))

(* Fault: the object itself is the result. *)
PostfixSelf(m) == PrefixIncrement(m)
PostfixIncrement(m) == Allocate(PrefixIncrement(m), m.content[m.result])

Operand(e, m) ==
  CASE e.kind = "number"   -> Allocate(m, Number(e.n))
    [] e.kind = "read"     -> Load(m, e.p)
    [] e.kind = "prefix"   -> PrefixIncrement(Load(m, e.p))
    [] e.kind = "postfix"  -> PostfixIncrement(Load(m, e.p))
    [] e.kind = "assigned" -> Load(MakeAssignment(Allocate(m, Number(e.n)), e.p), e.p)

(* Both operands are objects before the operator is applied, and both are  *)
(* evaluated: || selects one of them.                                      *)
Computed(e, m) ==
  IF e.kind \notin {"add", "or"} THEN Operand(e, m)
  ELSE LET l == Operand(e.left, m)
           r == Operand(e.right, [l EXCEPT !.held = @ \cup {l.result}])
       IN CASE e.kind = "add" -> Allocate(r, Number(Sum(r.content[l.result].is, r.content[r.result].is)))
            [] e.kind = "or"  -> IF r.content[l.result].is # 0 THEN [r EXCEPT !.result = l.result] ELSE r

(* The left operand is the cell of a variable, and is loaded in the end.   *)
Compound(e, m, p) ==
  LET r == Computed(e, [m EXCEPT !.held = {m.slot[p]}])
      o == IF p \in Variables THEN r.slot[p] ELSE m.slot[p]
  IN Change([r EXCEPT !.held = {}, !.disturbed = @ \/ o # m.slot[p]], o, Sum(r.content[o].is, r.content[r.result].is))

-----------------------------------------------------------------------------
(* Statements *)

Machine == [slot |-> slot, content |-> content, result |-> Undefined, held |-> {}, disturbed |-> FALSE]

(* Addresses mean nothing: an object is named after the first place that   *)
(* points to it, directly or through a Union, and forgotten if none does.  *)
Own(p) == 2 * Rank[p]
Through(p) == 2 * Rank[p] + 1
NameOf(m, o) ==
  IF o = Undefined THEN Undefined
  ELSE Min({Own(p) : p \in {p \in DOMAIN m.slot : m.slot[p] = o}}
           \cup {Through(p) : p \in {p \in DOMAIN m.slot : m.content[m.slot[p]] = Union(o)}})

Renamed(m) ==
  LET objects == {Undefined} \cup UNION {PointsTo(m, p) : p \in DOMAIN m.slot}
      name == [o \in objects |-> NameOf(m, o)]
  IN [slot |-> [p \in DOMAIN m.slot |-> name[m.slot[p]]],
      content |-> [n \in {name[o] : o \in objects} |->
                     LET c == m.content[CHOOSE o \in objects : name[o] = n]
                     IN IF c.type = "Union" THEN Union(name[c.is]) ELSE c]]

(* The place of the code is of its kind and holds what the program has.    *)
Agrees(m, p) ==
  LET c == m.content[m.slot[p]]
  IN IF c.type = "Union" THEN p \in Unions /\ m.content[c.is].is = value[p]
     ELSE c.is = value[p]

Follows == \A p \in DOMAIN value : Agrees(Machine, p)

Copying == {"declare", "assign", "literal", "push"}

(* The program and the code after a statement.  The code may differ when   *)
(* it disturbed something, evaluated an operand of || in vain, or stored a *)
(* Union as a member of type number.                                       *)
Becomes(by, to, e, v, m) ==
  /\ value' = v
  /\ LET r == Renamed(m) IN slot' = r.slot /\ content' = r.content
  /\ LET narrowed == e.kind = "read" /\ e.p \in Unions /\ to \notin Unions
         both == e.kind = "or" /\ e.right.kind \notin {"number", "read"}
     IN last' = [copied |-> IF by \in Copying /\ to \notin Unions /\ ~narrowed THEN {to} ELSE {},
                 unlike |-> m.disturbed \/ both \/ (by = "member" /\ narrowed)]

(* A union is narrowed for a number. *)
Fitting(p) ==
  Operands \cup Selections
    \cup {Read(q) : q \in {q \in DOMAIN value \cap Unions : p \in Unions \/ value[q] # undefined}}
Assigning(p, e) == LET s == Means(e, value) IN [s.value EXCEPT ![p] = s.result]

(* let p = e *)
Declare(p, e) ==
  LET r == Computed(e, Machine)
      i == Cloned(IF p \in Variables THEN UnionGet(r) ELSE r)
  IN Becomes("declare", p, e, Assigning(p, e), Store(IF p \in Optionals THEN Wrapped(i) ELSE i, p))

(* p = e; *)
AssignVariable(p, e) ==
  Becomes("assign", p, e, Assigning(p, e), MakeAssignment(Computed(e, Machine), p))

(* o.p = e; and a[i] = e; *)
AssignMember(p, e) ==
  LET r == Computed(e, Machine)
  IN Becomes("member", p, e, Assigning(p, e), Store(IF p \in OptionalProperties THEN Wrapped(r) ELSE r, p))

(* p = undefined; and o.p = undefined; *)
AssignUndefined(p) ==
  LET r == [Machine EXCEPT !.result = Undefined]
  IN Becomes("undefined", p, Literal(0), [value EXCEPT ![p] = undefined],
             IF p \in Optionals THEN MakeAssignment(r, p) ELSE Store(Wrapped(r), p))

(* p += e; *)
CompoundAssign(p, e) ==
  LET s == Means(e, value)
  IN Becomes("compound", p, e, [s.value EXCEPT ![p] = Sum(value[p], s.result)], Compound(e, Machine, p))

(* o = {p: e}; *)
ObjectLiteral(p, e) ==
  LET i == Cloned(Computed(e, Machine))
  IN Becomes("literal", p, e, Assigning(p, e),
             Store(IF p \in OptionalProperties THEN Wrapped(i) ELSE UnionGet(i), p))

(* o = {p}; *)
Shorthand(p, q) == Becomes("shorthand", p, Read(q), Assigning(p, Read(q)), Store(Load(Machine, q), p))

(* a = [e]; *)
ArrayLiteral(p, e) == Becomes("array", p, e, Assigning(p, e), Store(UnionGet(Computed(e, Machine)), p))

(* a.push(e), after which the element is another one *)
Push(p, e) == Becomes("push", p, e, Assigning(p, e), Store(Cloned(Computed(e, Machine)), p))

(* [p, q] = [d, e]; *)
Destructure(p, q, d, e) ==
  LET s == Means(d, value)
      t == Means(e, s.value)
      l == Computed(d, Machine)
      r == Computed(e, [l EXCEPT !.held = {l.result}])
  IN Becomes("destructure", p, e, [t.value EXCEPT ![p] = s.result, ![q] = t.result],
             [r EXCEPT !.slot[p] = l.result, !.slot[q] = r.result])

(* let [p] = a; *)
BindElement(p, q) == Becomes("bind", p, Read(q), Assigning(p, Read(q)), Store(Load(Machine, q), p))

Among(places) == places \cap DOMAIN value

Computation ==
  \/ \E p \in Among(Variables \cup Optionals) : \E e \in Fitting(p) : Declare(p, e) \/ AssignVariable(p, e)
  \/ \E p \in Among(Variables) : \E e \in Expressions : AssignVariable(p, e)
  \/ \E p \in Among(Properties \cup OptionalProperties \cup Elements) : \E e \in Fitting(p) : AssignMember(p, e)
  \/ \E p \in Among(Unions) : AssignUndefined(p)
  \/ \E p \in Numeric : \E e \in Expressions : CompoundAssign(p, e)
  \/ \E p \in Among(Properties \cup OptionalProperties) : \E e \in Fitting(p) : ObjectLiteral(p, e)
  \/ \E p \in Among(Properties), q \in Among(Variables) : Shorthand(p, q)
  \/ \E p \in Among(OptionalProperties), q \in Among(Optionals) : Shorthand(p, q)
  \/ \E p \in Among(Elements) : \E e \in Fitting(p) : ArrayLiteral(p, e)
  \/ \E p \in Among(Elements) : \E e \in Operands : Push(p, e)
  \/ \E p, q \in Among(Variables) : \E d, e \in Operands : p # q /\ Destructure(p, q, d, e)
  \/ \E p \in Among(Variables), q \in Among(Elements) : BindElement(p, q)

(* Numbers begin as 0, optional variables as undefined, optional           *)
(* properties absent.                                                      *)
Begin(places) ==
  /\ value = [p \in places |-> IF p \in Unions THEN undefined ELSE 0]
  /\ slot = [p \in places |-> IF p \in OptionalProperties THEN Undefined ELSE Own(p)]
  /\ content = [o \in {Undefined} \cup {Own(p) : p \in places \ OptionalProperties} |->
                  IF o = Undefined THEN [type |-> "Undefined", is |-> undefined]
                  ELSE IF o \in {Own(p) : p \in places \cap Optionals} THEN Union(Undefined)
                  ELSE Number(0)]
  /\ last = [copied |-> {}, unlike |-> FALSE]

ValuesInit == \E places \in PlaceSets : Begin(places)

(* Once a place is wrong, what follows shows nothing. *)
ValuesNext == Follows /\ Computation

ValuesSpec == ValuesInit /\ [][ValuesNext]_valuesVars

-----------------------------------------------------------------------------

(* Although places share objects that are changed in place, each place     *)
(* holds what the program says, after every sequence of statements, until  *)
(* one changes an object that another place or an operand evaluated before *)
(* it points to, evaluates the right side of || for its effect in vain, or *)
(* stores a narrowed union as a member of type number.                     *)
ValuesAreKept == [][Follows' \/ last'.unlike]_valuesVars

(* Where the compiler clones (declarations, assignments to variables,      *)
(* property assignments of literals, arguments), no other place points to  *)
(* the number, not even through a Union: however it came to be, a later    *)
(* change in place of one is not seen by the other.                        *)
CopiesAreIndependent ==
  [][\A p \in last'.copied : Pointing(Machine', slot'[p]) = {p}]_valuesVars
=============================================================================
