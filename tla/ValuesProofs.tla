----------------------------- MODULE ValuesProofs ------------------------------
(***************************************************************************)
(* Proofs that the code which points to numbers, clones them and changes   *)
(* them in place holds the values of the program, for any variables,       *)
(* properties and arrays and any modulus.  A state is described by what    *)
(* each place stands for (Fits); an operation of the code keeps memory in  *)
(* order (Sound, Kinds, Numbers), and what the places stand for unless it  *)
(* disturbs an object.                                                     *)
(***************************************************************************)
EXTENDS Values, FiniteSetTheorems, WellFoundedInduction, TLAPS

(* The arithmetic is that of the numbers below the modulus.                *)
LEMMA SumType ==
  ASSUME NEW a \in 0..(Modulus - 1), NEW b \in 0..(Modulus - 1)
  PROVE  Sum(a, b) \in 0..(Modulus - 1)
BY ModulusAssumption DEF Sum

LEMMA OneIsANumber == 1 \in 0..(Modulus - 1)
BY ModulusAssumption

(* A set of names has a least one, which is in it.                         *)
LEMMA MinOfNames ==
  ASSUME NEW S \in SUBSET Nat, S # {}
  PROVE  Min(S) \in S
<1> DEFINE T == {0..k : k \in S}
<1>1. IsWellFoundedOn(StrictSubsetOrdering(Nat), FiniteSubsetsOf(Nat))
  BY FS_StrictSubsetOrderingWellFounded
<1>2. T \subseteq FiniteSubsetsOf(Nat) /\ T # {}
  <2>1. \A k \in S : IsFiniteSet(0..k) /\ 0..k \in SUBSET Nat
    BY FS_Interval
  <2> QED BY <2>1 DEF FiniteSubsetsOf
<1>3. PICK s \in T : \A t \in T : <<t, s>> \notin StrictSubsetOrdering(Nat)
  BY <1>1, <1>2, WFMin
<1>4. PICK x \in S : s = 0..x
  BY <1>3
<1>5. ASSUME NEW y \in S, ~ (x <= y)
      PROVE  FALSE
  <2>1. 0..y \subseteq 0..x /\ x \in 0..x /\ x \notin 0..y
    BY <1>5
  <2>2. <<0..y, 0..x>> \in StrictSubsetOrdering(Nat)
    BY <2>1 DEF StrictSubsetOrdering
  <2> QED BY <2>2, <1>3, <1>4
<1> QED BY <1>5 DEF Min

(* A new object is none of those there are.                                *)
LEMMA FreshIsNew ==
  ASSUME NEW S, IsFiniteSet(S)
  PROVE  Fresh(S) \in Nat \ S
<1>1. Cardinality(S) \in Nat
  BY FS_CardinalityType
<1>2. \E o \in 0..Cardinality(S) : o \notin S
  <2>1. SUFFICES ASSUME 0..Cardinality(S) \subseteq S PROVE FALSE
    OBVIOUS
  <2>2. Cardinality(0..Cardinality(S)) <= Cardinality(S)
    BY <2>1, FS_Subset
  <2>3. Cardinality(0..Cardinality(S)) = Cardinality(S) + 1
    BY <1>1, FS_Interval
  <2> QED BY <1>1, <2>2, <2>3
<1> QED BY <1>1, <1>2 DEF Fresh

-----------------------------------------------------------------------------
(* Memory in good order, at any moment of a statement *)

Object(m, o) == o \in DOMAIN m.content
IsUnion(m, o) == m.content[o].type = "Union"

Sound(m) ==
  /\ m = [slot |-> m.slot, content |-> m.content, result |-> m.result,
          held |-> m.held, disturbed |-> m.disturbed]
  /\ m.disturbed \in BOOLEAN
  /\ m.slot = [p \in DOMAIN value |-> m.slot[p]]
  /\ m.content = [o \in DOMAIN m.content |-> m.content[o]]
  /\ IsFiniteSet(DOMAIN m.content) /\ DOMAIN m.content \subseteq Nat
  /\ \A p \in DOMAIN value : Object(m, m.slot[p])
  /\ Object(m, m.result)
  /\ Object(m, Undefined) /\ m.content[Undefined] = [type |-> "Undefined", is |-> undefined]
  /\ \A o \in DOMAIN m.content \ {Undefined} :
       /\ m.content[o] = [type |-> m.content[o].type, is |-> m.content[o].is]
       /\ \/ m.content[o].type = "Number" /\ m.content[o].is \in 0..(Modulus - 1)
          \/ IsUnion(m, o) /\ Object(m, m.content[o].is) /\ ~IsUnion(m, m.content[o].is)

Kinds(m) ==
  /\ \A p \in DOMAIN value \cap Optionals : IsUnion(m, m.slot[p])
  /\ \A p \in DOMAIN value \cap OptionalProperties : m.slot[p] = Undefined \/ IsUnion(m, m.slot[p])

Numbers(m) == \A p \in Numeric : m.content[m.slot[p]].type = "Number"

Proper(m) == Sound(m) /\ Kinds(m) /\ Numbers(m)

(* What an object stands for. *)
Is(m, o) == IF IsUnion(m, o) THEN m.content[m.content[o].is].is ELSE m.content[o].is

Fits(m, v) == \A p \in DOMAIN value : (IsUnion(m, m.slot[p]) => p \in Unions) /\ Is(m, m.slot[p]) = v[p]

Typed(v) ==
  /\ v = [p \in DOMAIN value |-> v[p]]
  /\ \A p \in DOMAIN value : \/ v[p] \in 0..(Modulus - 1)
                             \/ p \in Unions /\ v[p] = undefined

(* What one operation may do to another's operands and places. *)
Preserves(m, n) ==
  /\ DOMAIN m.content \subseteq DOMAIN n.content
  /\ \A o \in DOMAIN m.content : n.content[o].type = m.content[o].type
  /\ n.held = m.held
  /\ n.disturbed \in BOOLEAN
  /\ ~n.disturbed => ~m.disturbed /\ \A o \in m.held \cap DOMAIN m.content : n.content[o] = m.content[o]
  /\ \A p \in DOMAIN value \ Variables : n.slot[p] = m.slot[p]

-----------------------------------------------------------------------------
(* The operations *)

(* What an object may be. *)
Storable(m, c) ==
  \/ \E k \in 0..(Modulus - 1) : c = Number(k)
  \/ \E q \in DOMAIN m.content : ~IsUnion(m, q) /\ c = Union(q)

(* A new object: the others stay, and nothing points to it yet.            *)
LEMMA Allocating ==
  ASSUME NEW m, Sound(m), NEW c, Storable(m, c), NEW n, n = Allocate(m, c)
  PROVE  /\ Sound(n)
         /\ n.slot = m.slot /\ n.held = m.held /\ n.disturbed = m.disturbed
         /\ n.result \notin DOMAIN m.content
         /\ DOMAIN n.content = DOMAIN m.content \cup {n.result}
         /\ n.content[n.result] = c
         /\ \A o \in DOMAIN m.content : n.content[o] = m.content[o]
<1> DEFINE o == Fresh(DOMAIN m.content)
<1>1. o \in Nat /\ o \notin DOMAIN m.content
  BY FreshIsNew DEF Sound
<1> HIDE DEF o
<1>2. n = [slot |-> m.slot, content |-> [q \in DOMAIN m.content \cup {o} |-> IF q = o THEN c ELSE m.content[q]],
           result |-> o, held |-> m.held, disturbed |-> m.disturbed]
  BY DEF Allocate, Sound, o
<1>3. /\ DOMAIN n.content = DOMAIN m.content \cup {o}
      /\ n.content[o] = c
      /\ \A q \in DOMAIN m.content : n.content[q] = m.content[q]
      /\ n.content = [q \in DOMAIN n.content |-> n.content[q]]
  BY <1>1, <1>2
<1>4. IsFiniteSet(DOMAIN n.content) /\ DOMAIN n.content \subseteq Nat
  BY <1>1, <1>3, FS_AddElement DEF Sound
<1>5. /\ c = [type |-> c.type, is |-> c.is]
      /\ \/ c.type = "Number" /\ c.is \in 0..(Modulus - 1)
         \/ c.type = "Union" /\ Object(m, c.is) /\ ~IsUnion(m, c.is)
  BY DEF Storable, Number, Union, Object
<1>6. Sound(n)
  BY <1>1, <1>2, <1>3, <1>4, <1>5 DEF Sound, Object, IsUnion, Undefined
<1> QED BY <1>1, <1>2, <1>3, <1>6

(* Nothing that is there already sees a new object.                        *)
LEMMA AllocatingKeeps ==
  ASSUME NEW m, Sound(m), NEW c, Storable(m, c), NEW n, n = Allocate(m, c)
  PROVE  /\ Kinds(m) => Kinds(n)
         /\ Numbers(m) => Numbers(n)
         /\ Preserves(m, n)
         /\ \A o \in DOMAIN m.content : Is(n, o) = Is(m, o)
         /\ \A v : Fits(m, v) => Fits(n, v)
<1>1. /\ n.slot = m.slot /\ n.held = m.held /\ n.disturbed = m.disturbed
      /\ \A o \in DOMAIN m.content : o \in DOMAIN n.content /\ n.content[o] = m.content[o]
  BY Allocating
<1>2. \A p \in DOMAIN value : m.slot[p] \in DOMAIN m.content
  BY DEF Sound, Object
<1>3. \A o \in DOMAIN m.content : IsUnion(m, o) => m.content[o].is \in DOMAIN m.content
  BY DEF Sound, Object, IsUnion
<1>4. m.disturbed \in BOOLEAN
  BY DEF Sound
<1>5. \A o \in DOMAIN m.content : Is(n, o) = Is(m, o) /\ IsUnion(n, o) = IsUnion(m, o)
  BY <1>1, <1>3 DEF Is, IsUnion
<1> QED BY <1>1, <1>2, <1>4, <1>5 DEF Kinds, Numbers, Numeric, Preserves, Fits, IsUnion

(* A place is made to point to the result.                                 *)
LEMMA Storing ==
  ASSUME NEW m, Sound(m), NEW p \in DOMAIN value, NEW n, n = Store(m, p)
  PROVE  /\ Sound(n)
         /\ n.content = m.content /\ n.result = m.result /\ n.held = m.held /\ n.disturbed = m.disturbed
         /\ n.slot[p] = m.result
         /\ \A q \in DOMAIN value \ {p} : n.slot[q] = m.slot[q]
BY DEF Sound, Object, Store, IsUnion

(* A number that one place only points to is changed for that place only.  *)
LEMMA Counting ==
  ASSUME NEW m, Sound(m), NEW o, NEW p \in Pointing(m, o), IsFiniteSet(DOMAIN value),
         ~(Cardinality(Pointing(m, o)) > 1)
  PROVE  Pointing(m, o) = {p}
<1>1. DOMAIN m.slot = DOMAIN value
  BY DEF Sound
<1>2. IsFiniteSet(Pointing(m, o))
  BY <1>1, FS_Subset DEF Pointing
<1>3. Cardinality(Pointing(m, o)) \in Nat /\ Cardinality(Pointing(m, o)) # 0
  BY <1>2, FS_CardinalityType, FS_EmptySet
<1>4. PICK x : Pointing(m, o) = {x}
  BY <1>2, <1>3, FS_Singleton
<1> QED BY <1>4

(* An object is changed in place.                                          *)
LEMMA Changing ==
  ASSUME NEW m, Sound(m), NEW o \in DOMAIN m.content, NEW is, NEW n, n = Change(m, o, is),
         \/ m.content[o].type = "Number" /\ is \in 0..(Modulus - 1)
         \/ IsUnion(m, o) /\ is \in DOMAIN m.content /\ ~IsUnion(m, is)
  PROVE  /\ Sound(n)
         /\ n.slot = m.slot /\ n.held = m.held /\ n.result = m.result
         /\ DOMAIN n.content = DOMAIN m.content
         /\ n.content[o] = [type |-> m.content[o].type, is |-> is]
         /\ \A q \in DOMAIN m.content \ {o} : n.content[q] = m.content[q]
         /\ ~n.disturbed => ~m.disturbed /\ o \notin m.held /\ ~(Cardinality(Pointing(m, o)) > 1)
<1>1. o # Undefined
  BY DEF Sound, IsUnion
<1>2. m.content[o] = [type |-> m.content[o].type, is |-> m.content[o].is]
  BY <1>1 DEF Sound
<1> DEFINE d == m.disturbed \/ o \in m.held \/ Cardinality(Pointing(m, o)) > 1
<1>d. d \in BOOLEAN
  BY DEF Sound
<1>n. n = [m EXCEPT !.content[o].is = is, !.disturbed = d]
  BY Zenon DEF Change
<1> HIDE DEF d
<1>3. n = [slot |-> m.slot, content |-> [m.content EXCEPT ![o] = [type |-> m.content[o].type, is |-> is]],
           result |-> m.result, held |-> m.held, disturbed |-> d]
  <2>1. [m.content[o] EXCEPT !.is = is] = [type |-> m.content[o].type, is |-> is]
    BY <1>2
  <2>2. n = [slot |-> m.slot, content |-> [m.content EXCEPT ![o] = [m.content[o] EXCEPT !.is = is]],
           result |-> m.result, held |-> m.held, disturbed |-> d]
    BY <1>n DEF Sound
  <2> QED BY <2>1, <2>2
<1>4. /\ DOMAIN n.content = DOMAIN m.content
      /\ n.content[o] = [type |-> m.content[o].type, is |-> is]
      /\ \A q \in DOMAIN m.content \ {o} : n.content[q] = m.content[q]
      /\ n.content = [q \in DOMAIN n.content |-> n.content[q]]
  BY <1>3 DEF Sound
<1>5. \A q \in DOMAIN m.content : n.content[q].type = m.content[q].type
  BY <1>4
<1>6. \A q \in DOMAIN n.content \ {Undefined} :
        /\ n.content[q] = [type |-> n.content[q].type, is |-> n.content[q].is]
        /\ \/ n.content[q].type = "Number" /\ n.content[q].is \in 0..(Modulus - 1)
           \/ IsUnion(n, q) /\ Object(n, n.content[q].is) /\ ~IsUnion(n, n.content[q].is)
  BY <1>4, <1>5 DEF Sound, Object, IsUnion
<1>7. Sound(n)
  <2>1. n = [slot |-> n.slot, content |-> n.content, result |-> n.result, held |-> n.held, disturbed |-> n.disturbed]
    BY <1>3
  <2>2. n.disturbed \in BOOLEAN /\ n.slot = m.slot /\ n.result = m.result
    BY <1>3, <1>d
  <2>3. Object(n, Undefined) /\ n.content[Undefined] = [type |-> "Undefined", is |-> undefined]
    BY <1>1, <1>4 DEF Sound, Object
  <2> QED BY <1>4, <1>6, <2>1, <2>2, <2>3 DEF Sound, Object
<1>8. n.slot = m.slot /\ n.held = m.held /\ n.result = m.result /\ n.disturbed = d
  BY <1>3
<1>9. ~d => ~m.disturbed /\ o \notin m.held /\ ~(Cardinality(Pointing(m, o)) > 1)
  BY DEF d
<1> QED BY <1>4, <1>7, <1>8, <1>9

(* A change that disturbs nothing is seen by one place.                    *)
LEMMA ChangingOne ==
  ASSUME NEW m, Sound(m), NEW o \in DOMAIN m.content, NEW is, NEW n, n = Change(m, o, is),
         \/ m.content[o].type = "Number" /\ is \in 0..(Modulus - 1)
         \/ IsUnion(m, o) /\ is \in DOMAIN m.content /\ ~IsUnion(m, is),
         IsFiniteSet(DOMAIN value)
  PROVE  /\ Kinds(m) => Kinds(n)
         /\ Numbers(m) => Numbers(n)
         /\ Preserves(m, n)
         /\ \A x \in DOMAIN m.content : IsUnion(n, x) = IsUnion(m, x)
         /\ ~n.disturbed =>
              \A p \in Pointing(m, o) : \A q \in DOMAIN value \ {p} : Is(n, n.slot[q]) = Is(m, m.slot[q])
<1>1. /\ Sound(n)
      /\ n.slot = m.slot /\ n.held = m.held /\ n.result = m.result
      /\ DOMAIN n.content = DOMAIN m.content
      /\ n.content[o] = [type |-> m.content[o].type, is |-> is]
      /\ \A q \in DOMAIN m.content \ {o} : n.content[q] = m.content[q]
      /\ ~n.disturbed => ~m.disturbed /\ o \notin m.held /\ ~(Cardinality(Pointing(m, o)) > 1)
  BY Changing
<1>2. \A q \in DOMAIN m.content : n.content[q].type = m.content[q].type
  BY <1>1
<1>3. \A p \in DOMAIN value : m.slot[p] \in DOMAIN m.content
  BY DEF Sound, Object
<1>4. Kinds(m) => Kinds(n)
  BY <1>1, <1>2, <1>3 DEF Kinds, IsUnion
<1>5. Numbers(m) => Numbers(n)
  BY <1>1, <1>2, <1>3 DEF Numbers, Numeric
<1>6. Preserves(m, n)
  <2>1. n.disturbed \in BOOLEAN
    BY <1>1 DEF Sound
  <2> QED BY <1>1, <1>2, <2>1 DEF Preserves
<1>7. ASSUME ~n.disturbed, NEW p \in Pointing(m, o), NEW q \in DOMAIN value \ {p}
      PROVE  Is(n, n.slot[q]) = Is(m, m.slot[q])
  <2>1. q \notin Pointing(m, o)
    BY <1>1, <1>7, Counting
  <2>2. o \notin PointsTo(m, q)
    BY <2>1 DEF Pointing, Sound
  <2>3. m.slot[q] # o /\ (IsUnion(m, m.slot[q]) => m.content[m.slot[q]].is # o)
    BY <2>2 DEF PointsTo, IsUnion
  <2>4. IsUnion(m, m.slot[q]) => m.content[m.slot[q]].is \in DOMAIN m.content
    BY <1>3 DEF Sound, IsUnion, Object
  <2>5. n.slot = m.slot /\ n.content[m.slot[q]] = m.content[m.slot[q]]
    BY <1>1, <1>3, <2>3
  <2>6. IsUnion(m, m.slot[q]) => n.content[m.content[m.slot[q]].is] = m.content[m.content[m.slot[q]].is]
    BY <1>1, <2>3, <2>4
  <2> QED BY <2>5, <2>6 DEF Is, IsUnion
<1> QED BY <1>2, <1>4, <1>5, <1>6, <1>7 DEF IsUnion

(* How a place is loaded.                                                  *)
LEMMA Loading ==
  ASSUME NEW m, Sound(m), Kinds(m), NEW p \in DOMAIN value, NEW n, n = Load(m, p)
  PROVE  /\ Sound(n) /\ Kinds(n)
         /\ Numbers(m) => Numbers(n)
         /\ Preserves(m, n)
         /\ n.slot = m.slot /\ n.disturbed = m.disturbed
         /\ Is(n, n.result) = Is(m, m.slot[p])
         /\ \A v : Fits(m, v) => Fits(n, v)
         /\ p \in Unions => IsUnion(n, n.result)
         /\ p \in Numeric => n.result = m.slot[p] /\ n.content = m.content
<1> DEFINE l == [m EXCEPT !.result = m.slot[p]]
<1>1. /\ Sound(l) /\ l.slot = m.slot /\ l.content = m.content /\ l.held = m.held
      /\ l.disturbed = m.disturbed /\ l.result = m.slot[p]
  <2>1. l = [slot |-> m.slot, content |-> m.content, result |-> m.slot[p], held |-> m.held, disturbed |-> m.disturbed]
    BY DEF Sound
  <2> HIDE DEF l
  <2> QED BY <2>1 DEF Sound, Object, IsUnion
<1> HIDE DEF l
<1>2. /\ Kinds(l) /\ (Numbers(m) => Numbers(l)) /\ Preserves(m, l)
      /\ (\A v : Fits(m, v) => Fits(l, v))
      /\ \A o \in DOMAIN m.content : Is(l, o) = Is(m, o)
  BY <1>1 DEF Kinds, Numbers, Preserves, Fits, Is, IsUnion, Sound
<1>3. m.slot[p] \in DOMAIN m.content
  BY DEF Sound, Object
<1>4. CASE p \in OptionalProperties /\ m.slot[p] = Undefined
  <2>1. n = Allocate(l, Union(l.result))
    BY <1>4 DEF Load, l, UnionCreate
  <2>2. ~IsUnion(l, l.result) /\ l.result \in DOMAIN l.content
    BY <1>1, <1>4 DEF Sound, IsUnion, Object
  <2>3. Storable(l, Union(l.result))
    BY <2>2 DEF Storable
  <2>4. /\ Sound(n) /\ n.slot = l.slot /\ n.held = l.held /\ n.disturbed = l.disturbed
        /\ n.content[n.result] = Union(l.result)
        /\ \A o \in DOMAIN l.content : n.content[o] = l.content[o]
    BY <1>1, <2>1, <2>3, Allocating
  <2>5. /\ Kinds(n) /\ (Numbers(l) => Numbers(n)) /\ Preserves(l, n) /\ \A v : Fits(l, v) => Fits(n, v)
    BY <1>1, <1>2, <2>1, <2>3, AllocatingKeeps
  <2>6. Is(n, n.result) = Is(m, m.slot[p]) /\ IsUnion(n, n.result)
    BY <1>1, <2>2, <2>4 DEF Is, IsUnion, Union
  <2>7. Preserves(m, n)
    BY <1>1, <1>2, <2>5 DEF Preserves
  <2>8. p \notin Numeric
    BY <1>4 DEF Numeric, Unions
  <2> QED BY <1>1, <1>2, <2>4, <2>5, <2>6, <2>7, <2>8
<1>5. CASE ~(p \in OptionalProperties /\ m.slot[p] = Undefined)
  <2>1. n = l
    BY <1>5 DEF Load, l
  <2>2. p \in Unions => IsUnion(m, m.slot[p])
    BY <1>5 DEF Kinds, Unions
  <2> QED BY <1>1, <1>2, <1>3, <2>1, <2>2 DEF IsUnion
<1> QED BY <1>4, <1>5

(* A place is of one kind.                                                 *)
LEMMA KindsAreDistinct ==
  /\ Variables \cap Unions = {} /\ Properties \cap Unions = {} /\ Elements \cap Unions = {}
  /\ Variables \cap Properties = {} /\ Variables \cap Elements = {}
  /\ Optionals \cap OptionalProperties = {}
<1> DEFINE kinds == <<Variables, Optionals, Properties, OptionalProperties, Elements>>
<1>1. \A i, j \in 1..5 : i # j => kinds[i] \cap kinds[j] = {}
  BY KindsAssumption
<1>2. /\ kinds[1] \cap kinds[2] = {} /\ kinds[1] \cap kinds[3] = {} /\ kinds[1] \cap kinds[4] = {}
      /\ kinds[1] \cap kinds[5] = {} /\ kinds[2] \cap kinds[3] = {} /\ kinds[2] \cap kinds[4] = {}
      /\ kinds[2] \cap kinds[5] = {} /\ kinds[3] \cap kinds[4] = {} /\ kinds[4] \cap kinds[5] = {}
  BY <1>1
<1> QED BY <1>2 DEF Unions

(* The number of an object. *)
LEMMA NumberOf ==
  ASSUME NEW m, Sound(m), NEW o \in DOMAIN m.content, m.content[o].type = "Number"
  PROVE  /\ m.content[o].is \in 0..(Modulus - 1) /\ Is(m, o) = m.content[o].is
         /\ ~IsUnion(m, o) /\ Storable(m, m.content[o])
<1>1. o # Undefined
  BY DEF Sound
<1>2. ~IsUnion(m, o)
  BY DEF IsUnion
<1>3. m.content[o].is \in 0..(Modulus - 1) /\ m.content[o] = Number(m.content[o].is)
  BY <1>1, <1>2 DEF Sound, Number
<1> QED BY <1>2, <1>3 DEF Is, Storable

(* A number is cloned into a place, which has it for itself.               *)
LEMMA StoringAClone ==
  ASSUME NEW m, Sound(m), m.content[m.result].type = "Number",
         NEW p \in DOMAIN value \ Unions, NEW n, n = Store(Clone(m), p)
  PROVE  /\ Sound(n)
         /\ Kinds(m) => Kinds(n)
         /\ Numbers(m) => Numbers(n)
         /\ p \in Variables => Preserves(m, n)
         /\ Kinds(m) => Pointing(n, n.slot[p]) = {p}
         /\ n.content[n.slot[p]].type = "Number"
         /\ \A v : Typed(v) /\ Fits(m, v) => Fits(n, [v EXCEPT ![p] = Is(m, m.result)])
<1> DEFINE c == Clone(m)
<1> DEFINE o == c.result
<1>1. Storable(m, m.content[m.result]) /\ m.result \in DOMAIN m.content /\ Is(m, m.result) = m.content[m.result].is
  BY NumberOf DEF Sound, Object
<1>2. /\ Sound(c)
      /\ c.slot = m.slot /\ c.held = m.held /\ c.disturbed = m.disturbed
      /\ o \notin DOMAIN m.content /\ o \in DOMAIN c.content
      /\ c.content[o] = m.content[m.result]
      /\ \A q \in DOMAIN m.content : c.content[q] = m.content[q]
      /\ DOMAIN c.content = DOMAIN m.content \cup {o}
  BY <1>1, Allocating DEF Clone
<1>3. /\ Kinds(m) => Kinds(c)
      /\ Numbers(m) => Numbers(c)
      /\ Preserves(m, c)
      /\ \A v : Fits(m, v) => Fits(c, v)
  BY <1>1, AllocatingKeeps DEF Clone
<1> HIDE DEF c
<1>4. /\ Sound(n)
      /\ n.content = c.content /\ n.held = c.held /\ n.disturbed = c.disturbed
      /\ n.slot[p] = o
      /\ \A q \in DOMAIN value \ {p} : n.slot[q] = c.slot[q]
  BY <1>2, Storing DEF c
<1>5. (Kinds(m) => Kinds(n)) /\ (Numbers(m) => Numbers(n)) /\ n.content[n.slot[p]].type = "Number"
  BY <1>2, <1>3, <1>4 DEF Kinds, Numbers, Numeric, IsUnion, Unions
<1>6. p \in Variables => Preserves(m, n)
  BY <1>2, <1>3, <1>4 DEF Preserves
<1>7. \A q \in DOMAIN value : m.slot[q] \in DOMAIN m.content
  BY DEF Sound, Object
<1>8. \A q \in DOMAIN m.content : IsUnion(m, q) => m.content[q].is \in DOMAIN m.content
  BY DEF Sound, Object, IsUnion
<1>9. Pointing(n, n.slot[p]) = {p}
  <2>1. \A q \in DOMAIN value \ {p} : o \notin PointsTo(n, q)
    BY <1>2, <1>4, <1>7, <1>8 DEF PointsTo, IsUnion
  <2>2. o \in PointsTo(n, p) /\ DOMAIN n.slot = DOMAIN value
    BY <1>4 DEF PointsTo, Sound
  <2> QED BY <1>4, <2>1, <2>2 DEF Pointing
<1>10. ASSUME NEW v, Typed(v), Fits(m, v)
       PROVE  Fits(n, [v EXCEPT ![p] = Is(m, m.result)])
  <2>1. Fits(c, v)
    BY <1>3, <1>10
  <2>2. \A q \in DOMAIN value \ {p} : Is(n, n.slot[q]) = v[q] /\ (IsUnion(n, n.slot[q]) => q \in Unions)
    BY <1>4, <2>1 DEF Fits, Is, IsUnion
  <2>3. Is(n, n.slot[p]) = Is(m, m.result) /\ ~IsUnion(n, n.slot[p])
    BY <1>1, <1>2, <1>4, <1>5 DEF Is, IsUnion
  <2>4. DOMAIN v = DOMAIN value
    BY <1>10 DEF Typed
  <2> QED BY <2>2, <2>3, <2>4 DEF Fits
<1> QED BY <1>4, <1>5, <1>6, <1>9, <1>10

-----------------------------------------------------------------------------
(* Expressions *)

(* The machine n and the program's values s after an expression that began *)
(* with m and v.                                                           *)
Evaluated(m, v, n, s) ==
  /\ Proper(n) /\ Preserves(m, n) /\ Typed(s.value)
  /\ Fits(m, v) /\ ~n.disturbed => Fits(n, s.value) /\ Is(n, n.result) = s.result

(* What is evaluated is a number, or a union if one is read.               *)
OfItsType(e, n, s) ==
  IF e.kind = "read" /\ e.p \in Unions THEN IsUnion(n, n.result)
  ELSE n.content[n.result].type = "Number" /\ s.result \in 0..(Modulus - 1)

Reads == {Read(p) : p \in DOMAIN value}

(* Places of type number point to numbers.                                 *)
LEMMA NumericPlaces ==
  ASSUME NEW m, Proper(m), NEW p \in Numeric
  PROVE  /\ p \in DOMAIN value /\ p \notin Unions
         /\ m.slot[p] \in DOMAIN m.content /\ m.content[m.slot[p]].type = "Number"
BY DEF Numeric, Proper, Sound, Numbers, Object

(* Each operand: the object that is its result stands for the number the   *)
(* program computes, and the places for what the program has then.         *)
LEMMA EvaluateLiteral ==
  ASSUME NEW m, Proper(m), NEW v, Typed(v)
  PROVE  LET n == Operand(Literal(1), m)
             s == OperandMeans(Literal(1), v)
         IN Evaluated(m, v, n, s) /\ OfItsType(Literal(1), n, s)
<1> DEFINE n == Operand(Literal(1), m)
           s == OperandMeans(Literal(1), v)
<1>1. n = Allocate(m, Number(1)) /\ s = [value |-> v, result |-> 1]
  BY DEF Operand, OperandMeans, Literal, Meaning
<1>2. 1 \in 0..(Modulus - 1)
  BY OneIsANumber
<1>3. Storable(m, Number(1))
  BY <1>2 DEF Storable
<1> HIDE DEF n, s
<1>4. Sound(n) /\ n.content[n.result] = Number(1)
  BY <1>1, <1>3, Allocating DEF Proper
<1>5. Kinds(n) /\ Numbers(n) /\ Preserves(m, n) /\ (Fits(m, v) => Fits(n, v))
  BY <1>1, <1>3, AllocatingKeeps DEF Proper
<1>6. Is(n, n.result) = 1 /\ n.content[n.result].type = "Number"
  BY <1>4 DEF Is, IsUnion, Number
<1>7. Evaluated(m, v, n, s)
  BY <1>1, <1>4, <1>5, <1>6 DEF Evaluated, Proper
<1>8. OfItsType(Literal(1), n, s)
  BY <1>1, <1>2, <1>6 DEF OfItsType, Literal
<1> QED BY <1>7, <1>8 DEF n, s

LEMMA EvaluateRead ==
  ASSUME NEW m, Proper(m), NEW v, Typed(v), NEW p \in DOMAIN value
  PROVE  LET n == Operand(Read(p), m)
             s == OperandMeans(Read(p), v)
         IN Evaluated(m, v, n, s) /\ OfItsType(Read(p), n, s)
<1> DEFINE n == Operand(Read(p), m)
           s == OperandMeans(Read(p), v)
<1>1. n = Load(m, p) /\ s = [value |-> v, result |-> v[p]]
  BY DEF Operand, OperandMeans, Read, Meaning
<1> HIDE DEF n, s
<1>2. /\ Sound(n) /\ Kinds(n) /\ (Numbers(m) => Numbers(n)) /\ Preserves(m, n)
      /\ Is(n, n.result) = Is(m, m.slot[p])
      /\ (Fits(m, v) => Fits(n, v))
      /\ p \in Unions => IsUnion(n, n.result)
      /\ p \in Numeric => n.result = m.slot[p] /\ n.content = m.content
  BY <1>1, Loading DEF Proper
<1>3. Evaluated(m, v, n, s)
  BY <1>1, <1>2 DEF Evaluated, Proper, Fits
<1>4. ASSUME p \notin Unions
      PROVE  n.content[n.result].type = "Number" /\ s.result \in 0..(Modulus - 1)
  <2>1. p \in Numeric
    BY <1>4 DEF Numeric
  <2> QED BY <1>1, <1>2, <1>4, <2>1, NumericPlaces DEF Typed
<1>5. OfItsType(Read(p), n, s)
  BY <1>2, <1>4 DEF OfItsType, Read
<1> QED BY <1>3, <1>5 DEF n, s

(* ++p, as an expression and as a part of p++ *)
LEMMA Incrementing ==
  ASSUME NEW m, Proper(m), NEW v, Typed(v), NEW p \in Numeric, IsFiniteSet(DOMAIN value),
         NEW n, n = PrefixIncrement(Load(m, p))
  PROVE  /\ Evaluated(m, v, n, Meaning([v EXCEPT ![p] = Sum(@, 1)], Sum(v[p], 1)))
         /\ n.content[n.result].type = "Number" /\ n.result \in DOMAIN n.content
         /\ v[p] \in 0..(Modulus - 1)
         /\ Sum(v[p], 1) \in 0..(Modulus - 1)
<1> DEFINE l == Load(m, p)
           o == m.slot[p]
           is == Sum(l.content[o].is, 1)
<1>1. /\ Sound(l) /\ Kinds(l) /\ Numbers(l) /\ Preserves(m, l) /\ l.slot = m.slot
      /\ l.result = o /\ l.content = m.content
      /\ (Fits(m, v) => Fits(l, v))
  BY NumericPlaces, Loading DEF Proper
<1>2. /\ p \in DOMAIN value /\ p \notin Unions
      /\ o \in DOMAIN l.content /\ l.content[o].type = "Number"
  BY <1>1, NumericPlaces
<1>3. n = Change(l, o, is)
  BY <1>1 DEF PrefixIncrement
<1> HIDE DEF l
<1>4. /\ l.content[o].is \in 0..(Modulus - 1) /\ Is(l, o) = l.content[o].is
      /\ ~IsUnion(l, o)
  BY <1>1, <1>2, NumberOf
<1>5. is \in 0..(Modulus - 1)
  BY <1>4, OneIsANumber, SumType
<1>6. v[p] \in 0..(Modulus - 1) /\ Sum(v[p], 1) \in 0..(Modulus - 1)
  BY <1>2, OneIsANumber, SumType DEF Typed
<1> HIDE DEF is
<1>7. /\ Sound(n) /\ n.slot = l.slot /\ n.result = l.result
      /\ DOMAIN n.content = DOMAIN l.content
      /\ n.content[o] = [type |-> l.content[o].type, is |-> is]
  BY <1>1, <1>2, <1>3, <1>5, Changing
<1>8. /\ Kinds(n) /\ Numbers(n) /\ Preserves(l, n)
      /\ \A x \in DOMAIN l.content : IsUnion(n, x) = IsUnion(l, x)
      /\ ~n.disturbed =>
           \A q \in Pointing(l, o) : \A r \in DOMAIN value \ {q} : Is(n, n.slot[r]) = Is(l, l.slot[r])
  BY <1>1, <1>2, <1>3, <1>5, ChangingOne
<1>9. Preserves(m, n)
  BY <1>1, <1>8 DEF Preserves
<1>10. p \in Pointing(l, o)
  BY <1>1, <1>2 DEF Pointing, PointsTo, Sound
<1>11. Is(n, o) = is
  BY <1>2, <1>7 DEF Is, IsUnion
<1>12. Typed([v EXCEPT ![p] = Sum(@, 1)])
  BY <1>2, <1>6 DEF Typed
<1>13. ASSUME Fits(m, v), ~n.disturbed
       PROVE  Fits(n, [v EXCEPT ![p] = Sum(@, 1)]) /\ Is(n, n.result) = Sum(v[p], 1)
  <2>1. Fits(l, v)
    BY <1>1, <1>13
  <2>a. Is(l, l.slot[p]) = v[p]
    BY <1>2, <2>1 DEF Fits
  <2>2. is = Sum(v[p], 1)
    BY <1>1, <1>4, <2>a DEF is
  <2>3. \A r \in DOMAIN value \ {p} : Is(n, n.slot[r]) = v[r]
    BY <1>8, <1>10, <1>13, <2>1 DEF Fits
  <2>4. \A r \in DOMAIN value : IsUnion(n, n.slot[r]) => r \in Unions
    BY <1>1, <1>7, <1>8, <2>1 DEF Fits, Sound, Object
  <2>5. DOMAIN v = DOMAIN value
    BY DEF Typed
  <2> QED BY <1>1, <1>7, <1>11, <2>2, <2>3, <2>4, <2>5 DEF Fits
<1> QED BY <1>1, <1>2, <1>6, <1>7, <1>8, <1>9, <1>12, <1>13 DEF Evaluated, Proper, Meaning

LEMMA EvaluatePrefix ==
  ASSUME NEW m, Proper(m), NEW v, Typed(v), NEW p \in Numeric, IsFiniteSet(DOMAIN value)
  PROVE  LET n == Operand(Prefix(p), m)
             s == OperandMeans(Prefix(p), v)
         IN Evaluated(m, v, n, s) /\ OfItsType(Prefix(p), n, s)
<1>1. Operand(Prefix(p), m) = PrefixIncrement(Load(m, p))
  BY DEF Operand, Prefix
<1>2. OperandMeans(Prefix(p), v) = Meaning([v EXCEPT ![p] = Sum(@, 1)], Sum(v[p], 1))
  BY DEF OperandMeans, Prefix
<1> QED BY <1>1, <1>2, Incrementing DEF OfItsType, Meaning, Prefix

LEMMA EvaluatePostfix ==
  ASSUME NEW m, Proper(m), NEW v, Typed(v), NEW p \in Numeric, IsFiniteSet(DOMAIN value)
  PROVE  LET n == Operand(Postfix(p), m)
             s == OperandMeans(Postfix(p), v)
         IN Evaluated(m, v, n, s) /\ OfItsType(Postfix(p), n, s)
<1> DEFINE n == Operand(Postfix(p), m)
           s == OperandMeans(Postfix(p), v)
           l == Load(m, p)
           i == PrefixIncrement(l)
           t == Meaning([v EXCEPT ![p] = Sum(@, 1)], Sum(v[p], 1))
           c == l.content[l.result]
<1>1. n = Allocate(i, c) /\ s = Meaning([v EXCEPT ![p] = Sum(@, 1)], v[p])
  BY DEF Operand, OperandMeans, Postfix, PostfixIncrement
<1>2. Evaluated(m, v, i, t) /\ v[p] \in 0..(Modulus - 1)
  BY Incrementing
<1>3. /\ Sound(l) /\ l.result = m.slot[p] /\ l.content = m.content
      /\ m.slot[p] \in DOMAIN m.content /\ m.content[m.slot[p]].type = "Number"
      /\ p \in DOMAIN value /\ p \notin Unions
  BY NumericPlaces, Loading DEF Proper
<1> HIDE DEF n, s, i, l
<1>4. c.is \in 0..(Modulus - 1) /\ c = Number(c.is) /\ Is(m, m.slot[p]) = c.is
  BY <1>3, NumberOf DEF Proper, Sound, Number
<1> HIDE DEF c
<1>5. Storable(i, c)
  BY <1>4 DEF Storable
<1>6. Sound(n) /\ n.content[n.result] = c /\ n.disturbed = i.disturbed
  BY <1>1, <1>2, <1>5, Allocating DEF Evaluated, Proper
<1>7. Kinds(n) /\ Numbers(n) /\ Preserves(i, n) /\ (Fits(i, t.value) => Fits(n, t.value))
  BY <1>1, <1>2, <1>5, AllocatingKeeps DEF Evaluated, Proper
<1>8. Preserves(m, n)
  BY <1>2, <1>7 DEF Evaluated, Preserves
<1>9. Is(n, n.result) = c.is /\ n.content[n.result].type = "Number"
  BY <1>4, <1>6 DEF Is, IsUnion, Number
<1>10. s.value = t.value /\ s.result = v[p]
  BY <1>1 DEF Meaning
<1>11. Fits(m, v) => v[p] = c.is
  BY <1>3, <1>4 DEF Fits
<1> HIDE DEF t
<1>12. Evaluated(m, v, n, s)
  BY <1>2, <1>6, <1>7, <1>8, <1>9, <1>10, <1>11 DEF Evaluated, Proper
<1>13. OfItsType(Postfix(p), n, s)
  BY <1>2, <1>9, <1>10 DEF OfItsType, Postfix
<1> QED BY <1>12, <1>13 DEF n, s

LEMMA EvaluateAssigned ==
  ASSUME NEW m, Proper(m), NEW v, Typed(v), NEW p \in Numeric \cap Variables
  PROVE  LET n == Operand(Assigned(p, 1), m)
             s == OperandMeans(Assigned(p, 1), v)
         IN Evaluated(m, v, n, s) /\ OfItsType(Assigned(p, 1), n, s)
<1> DEFINE n == Operand(Assigned(p, 1), m)
           s == OperandMeans(Assigned(p, 1), v)
           a == Allocate(m, Number(1))
           b == Store(Clone(a), p)
           w == [v EXCEPT ![p] = 1]
<1>1. p \in DOMAIN value \ Unions /\ p \notin Optionals
  BY KindsAreDistinct DEF Numeric, Unions
<1>2. 1 \in 0..(Modulus - 1) /\ Storable(m, Number(1))
  BY OneIsANumber DEF Storable
<1>3. Sound(a) /\ a.content[a.result] = Number(1) /\ a.disturbed = m.disturbed
  BY <1>2, Allocating DEF Proper
<1>4. Kinds(a) /\ Numbers(a) /\ Preserves(m, a) /\ (Fits(m, v) => Fits(a, v))
  BY <1>2, AllocatingKeeps DEF Proper
<1> HIDE DEF a
<1>5. a.content[a.result].type = "Number" /\ Is(a, a.result) = 1
  BY <1>3 DEF Is, IsUnion, Number
<1>6. n = Load(b, p) /\ s = [value |-> w, result |-> 1]
  BY <1>1, <1>5 DEF Operand, OperandMeans, Assigned, MakeAssignment, Type, Meaning, a
<1>7. /\ Sound(b) /\ Kinds(b) /\ Numbers(b) /\ Preserves(a, b)
      /\ (Typed(v) /\ Fits(a, v) => Fits(b, w))
      /\ b.content[b.slot[p]].type = "Number"
  BY <1>1, <1>3, <1>4, <1>5, StoringAClone
<1> HIDE DEF n, s, b
<1>8. /\ Sound(n) /\ Kinds(n) /\ Numbers(n) /\ Preserves(b, n) /\ n.disturbed = b.disturbed
      /\ Is(n, n.result) = Is(b, b.slot[p])
      /\ (Fits(b, w) => Fits(n, w))
      /\ n.result = b.slot[p] /\ n.content = b.content
  BY <1>1, <1>6, <1>7, Loading
<1>9. Preserves(m, n)
  BY <1>4, <1>7, <1>8 DEF Preserves
<1>10. Typed(w)
  BY <1>1, <1>2 DEF Typed
<1>11. Fits(b, w) => Is(b, b.slot[p]) = 1
  BY <1>1 DEF Fits, Typed
<1>12. ~n.disturbed => ~a.disturbed
  BY <1>7, <1>8 DEF Preserves
<1>13. Evaluated(m, v, n, s)
  BY <1>4, <1>6, <1>7, <1>8, <1>9, <1>10, <1>11 DEF Evaluated, Proper
<1>14. OfItsType(Assigned(p, 1), n, s)
  BY <1>2, <1>6, <1>7, <1>8 DEF OfItsType, Assigned
<1> QED BY <1>13, <1>14 DEF n, s

LEMMA EvaluateOperand ==
  ASSUME NEW m, Proper(m), NEW v, Typed(v), NEW e \in Operands \cup Reads, IsFiniteSet(DOMAIN value)
  PROVE  LET n == Operand(e, m)
             s == OperandMeans(e, v)
         IN Evaluated(m, v, n, s) /\ OfItsType(e, n, s)
BY EvaluateLiteral, EvaluateRead, EvaluatePrefix, EvaluatePostfix, EvaluateAssigned DEF Operands, Reads, Numeric

(* Objects that operands evaluated before point to are held.               *)
LEMMA Holding ==
  ASSUME NEW m, Proper(m), NEW S, NEW h, h = [m EXCEPT !.held = S]
  PROVE  /\ Proper(h)
         /\ h.slot = m.slot /\ h.content = m.content /\ h.result = m.result
         /\ h.held = S /\ h.disturbed = m.disturbed
         /\ \A v : Fits(m, v) <=> Fits(h, v)
<1>1. h = [slot |-> m.slot, content |-> m.content, result |-> m.result, held |-> S, disturbed |-> m.disturbed]
  BY DEF Proper, Sound
<1>2. /\ h.slot = m.slot /\ h.content = m.content /\ h.result = m.result
      /\ h.held = S /\ h.disturbed = m.disturbed
      /\ h = [slot |-> h.slot, content |-> h.content, result |-> h.result, held |-> h.held, disturbed |-> h.disturbed]
  BY <1>1
<1>3. Sound(h)
  BY <1>2 DEF Proper, Sound, Object, IsUnion
<1>4. Kinds(h) /\ Numbers(h)
  BY <1>2 DEF Proper, Kinds, Numbers, IsUnion
<1>5. \A v : Fits(m, v) <=> Fits(h, v)
  BY <1>2 DEF Fits, Is, IsUnion
<1> QED BY <1>2, <1>3, <1>4, <1>5 DEF Proper

(* What a whole expression leaves as it was.                               *)
Leaves(m, n) ==
  /\ DOMAIN m.content \subseteq DOMAIN n.content
  /\ \A o \in DOMAIN m.content : n.content[o].type = m.content[o].type
  /\ ~n.disturbed => ~m.disturbed /\ \A o \in m.held \cap DOMAIN m.content : n.content[o] = m.content[o]
  /\ \A p \in DOMAIN value \ Variables : n.slot[p] = m.slot[p]

(* An operand of || is evaluated for its effect in vain.                   *)
Both(e) == e.kind = "or" /\ e.right.kind \notin {"number", "read"}

Calculated(e, m, v, n, s) ==
  /\ Proper(n) /\ Leaves(m, n) /\ Typed(s.value)
  /\ Fits(m, v) /\ ~n.disturbed /\ ~Both(e) => Fits(n, s.value) /\ Is(n, n.result) = s.result

LEMMA MeaningsAreRecords ==
  ASSUME NEW e \in Operands, NEW v
  PROVE  OperandMeans(e, v) = [value |-> OperandMeans(e, v).value, result |-> OperandMeans(e, v).result]
<1>1. e.kind \in {"number", "read", "prefix", "postfix", "assigned"}
  BY DEF Operands, Literal, Read, Prefix, Postfix, Assigned
<1>2. PICK w, x : OperandMeans(e, v) = [value |-> w, result |-> x]
  <2>1. CASE e.kind = "number"
    BY <2>1 DEF OperandMeans, Meaning
  <2>2. CASE e.kind = "read"
    BY <2>2 DEF OperandMeans, Meaning
  <2>3. CASE e.kind = "prefix"
    BY <2>3 DEF OperandMeans, Meaning
  <2>4. CASE e.kind = "postfix"
    BY <2>4 DEF OperandMeans, Meaning
  <2>5. CASE e.kind = "assigned"
    BY <2>5 DEF OperandMeans, Meaning
  <2> QED BY <1>1, <2>1, <2>2, <2>3, <2>4, <2>5
<1> QED BY <1>2

(* An operator: its left operand is an object that the evaluation of the   *)
(* right one may change, and then something was disturbed.                 *)
LEMMA EvaluateOperator ==
  ASSUME NEW m, Proper(m), NEW v, Typed(v), IsFiniteSet(DOMAIN value),
         NEW k \in {"add", "or"}, NEW a \in Operands, NEW b \in Operands,
         NEW e, e = Operator(k, a, b), NEW n, n = Computed(e, m), NEW s, s = Means(e, v)
  PROVE  Calculated(e, m, v, n, s) /\ n.content[n.result].type = "Number" /\ s.result \in 0..(Modulus - 1)
<1> DEFINE l == Operand(a, m)
           h == [l EXCEPT !.held = @ \cup {l.result}]
           r == Operand(b, h)
           x == OperandMeans(a, v)
           y == OperandMeans(b, x.value)
           i == r.content[l.result].is
           j == r.content[r.result].is
<1>1. /\ e.kind = k /\ e.left = a /\ e.right = b
      /\ k \in {"add", "or"}
  BY DEF Operator
<1>2. /\ k = "add" => n = Allocate(r, Number(Sum(i, j)))
      /\ k = "or" => n = (IF i # 0 THEN [r EXCEPT !.result = l.result] ELSE r)
  BY <1>1 DEF Computed
<1>3. /\ k = "add" => s = [y EXCEPT !.result = Sum(x.result, y.result)]
      /\ k = "or" => s = (IF x.result # 0 THEN x ELSE y)
  BY <1>1 DEF Means
<1>4. /\ x = [value |-> x.value, result |-> x.result]
      /\ y = [value |-> y.value, result |-> y.result]
  BY MeaningsAreRecords
<1>5. ~(a.kind = "read" /\ a.p \in Unions) /\ ~(b.kind = "read" /\ b.p \in Unions)
  BY DEF Operands, Literal, Read, Prefix, Postfix, Assigned, Numeric
<1>6. b.kind \in {"number", "read"} => y.value = x.value
  BY DEF OperandMeans, Meaning
<1> HIDE DEF x, y, i, j
<1>7. /\ Evaluated(m, v, l, x)
      /\ l.content[l.result].type = "Number" /\ x.result \in 0..(Modulus - 1)
  BY <1>5, EvaluateOperand DEF OfItsType, x
<1> HIDE DEF l
<1>8. Proper(l) /\ Typed(x.value) /\ l.result \in DOMAIN l.content
  BY <1>7 DEF Evaluated, Proper, Sound, Object
<1>9. /\ Proper(h)
      /\ h.slot = l.slot /\ h.content = l.content /\ h.held = l.held \cup {l.result} /\ h.disturbed = l.disturbed
      /\ \A w : Fits(l, w) <=> Fits(h, w)
  BY <1>8, Holding
<1> HIDE DEF h
<1>10. /\ Evaluated(h, x.value, r, y)
       /\ r.content[r.result].type = "Number" /\ y.result \in 0..(Modulus - 1)
  BY <1>5, <1>8, <1>9, EvaluateOperand DEF OfItsType, y
<1> HIDE DEF r
<1>11. /\ Proper(r) /\ r.result \in DOMAIN r.content /\ Typed(y.value)
       /\ l.result \in DOMAIN r.content /\ r.content[l.result].type = "Number"
  BY <1>7, <1>8, <1>9, <1>10 DEF Evaluated, Proper, Preserves, Sound, Object
<1>12. /\ i \in 0..(Modulus - 1) /\ j \in 0..(Modulus - 1)
       /\ Is(r, l.result) = i /\ Is(r, r.result) = j
  BY <1>10, <1>11, NumberOf DEF Proper, i, j
<1>13. Leaves(m, r)
  BY <1>7, <1>9, <1>10 DEF Evaluated, Preserves, Leaves
<1>14. ASSUME ~r.disturbed
       PROVE  /\ ~l.disturbed
              /\ i = Is(l, l.result)
  <2>1. l.result \in h.held \cap DOMAIN h.content
    BY <1>8, <1>9
  <2>2. ~h.disturbed /\ r.content[l.result] = h.content[l.result]
    BY <1>10, <1>14, <2>1 DEF Evaluated, Preserves
  <2>3. Is(l, l.result) = l.content[l.result].is
    BY <1>7, <1>8, NumberOf DEF Proper
  <2> QED BY <1>9, <2>2, <2>3 DEF i
<1>15. ASSUME Fits(m, v), ~r.disturbed
       PROVE  /\ Fits(r, y.value) /\ j = y.result /\ i = x.result
  BY <1>7, <1>9, <1>10, <1>12, <1>14, <1>15 DEF Evaluated
<1>16. CASE k = "add"
  <2>1. Sum(i, j) \in 0..(Modulus - 1) /\ Sum(x.result, y.result) \in 0..(Modulus - 1)
    BY <1>7, <1>10, <1>12, SumType
  <2>2. Storable(r, Number(Sum(i, j)))
    BY <2>1 DEF Storable
  <2>3. /\ Sound(n) /\ n.content[n.result] = Number(Sum(i, j)) /\ n.disturbed = r.disturbed
        /\ Kinds(n) /\ Numbers(n) /\ (Fits(r, y.value) => Fits(n, y.value))
        /\ n.slot = r.slot /\ DOMAIN n.content = DOMAIN r.content \cup {n.result}
        /\ \A o \in DOMAIN r.content : n.content[o] = r.content[o]
    BY <1>2, <1>11, <1>16, <2>2, Allocating, AllocatingKeeps DEF Proper
  <2>4. s.value = y.value /\ s.result = Sum(x.result, y.result)
    BY <1>3, <1>4, <1>16
  <2>5. n.content[n.result].type = "Number" /\ Is(n, n.result) = Sum(i, j)
    BY <2>3 DEF Number, Is, IsUnion
  <2>6. Leaves(m, n)
    BY <1>13, <2>3 DEF Leaves
  <2>7. Fits(m, v) /\ ~n.disturbed => Fits(n, s.value) /\ Is(n, n.result) = s.result
    BY <1>15, <2>3, <2>4, <2>5
  <2> QED BY <1>11, <2>1, <2>3, <2>4, <2>5, <2>6, <2>7 DEF Calculated, Proper
<1>17. CASE k = "or"
  <2>1. /\ Proper(n) /\ n.content = r.content /\ n.disturbed = r.disturbed /\ n.slot = r.slot
        /\ n.result = IF i # 0 THEN l.result ELSE r.result
    <3>1. CASE i # 0
      <4>1. n = [slot |-> r.slot, content |-> r.content, result |-> l.result, held |-> r.held,
                 disturbed |-> r.disturbed]
        BY <1>2, <1>11, <1>17, <3>1 DEF Proper, Sound
      <4>2. Sound(n)
        BY <4>1, <1>11 DEF Proper, Sound, Object, IsUnion
      <4> QED BY <1>11, <3>1, <4>1, <4>2 DEF Proper, Kinds, Numbers, IsUnion
    <3>2. CASE i = 0
      BY <1>2, <1>11, <1>17, <3>2
    <3> QED BY <3>1, <3>2
  <2>2. s.value = (IF x.result # 0 THEN x.value ELSE y.value) /\ s.result = (IF x.result # 0 THEN x.result ELSE y.result)
    BY <1>3, <1>17
  <2>3. n.content[n.result].type = "Number" /\ s.result \in 0..(Modulus - 1) /\ Typed(s.value)
    BY <1>7, <1>8, <1>10, <1>11, <2>1, <2>2
  <2>4. Leaves(m, n)
    BY <1>13, <2>1 DEF Leaves
  <2>5. Fits(r, y.value) => Fits(n, y.value)
    BY <2>1 DEF Fits, Is, IsUnion
  <2>6. Is(n, n.result) = IF i # 0 THEN i ELSE j
    BY <1>12, <2>1 DEF Is, IsUnion
  <2>7. ASSUME Fits(m, v), ~n.disturbed, ~Both(e)
        PROVE  Fits(n, s.value) /\ Is(n, n.result) = s.result
    <3>1. y.value = x.value
      BY <1>1, <1>6, <1>17, <2>7 DEF Both
    <3> QED BY <1>15, <2>1, <2>2, <2>5, <2>6, <2>7, <3>1
  <2> QED BY <2>1, <2>3, <2>4, <2>7 DEF Calculated
<1> QED BY <1>16, <1>17

(* Every expression a statement stores.                                    *)
LEMMA Calculating ==
  ASSUME NEW m, Proper(m), NEW v, Typed(v), IsFiniteSet(DOMAIN value),
         NEW e \in Expressions \cup Selections \cup Reads \cup Operands,
         NEW n, n = Computed(e, m), NEW s, s = Means(e, v)
  PROVE  Calculated(e, m, v, n, s) /\ OfItsType(e, n, s)
<1>1. CASE e \in Reads \cup Operands
  <2>1. e.kind \notin {"add", "or"}
    BY <1>1 DEF Reads, Operands, Literal, Read, Prefix, Postfix, Assigned
  <2>2. n = Operand(e, m) /\ s = OperandMeans(e, v)
    BY <2>1 DEF Computed, Means
  <2>3. Evaluated(m, v, n, s) /\ OfItsType(e, n, s)
    BY <1>1, <2>2, EvaluateOperand
  <2> QED BY <2>1, <2>3 DEF Evaluated, Calculated, Preserves, Leaves, Both
<1>2. CASE e \notin Reads \cup Operands
  <2>1. PICK k \in {"add", "or"}, a \in Operands, b \in Operands : e = Operator(k, a, b)
    BY <1>2 DEF Expressions, Selections, Operands
  <2>2. Calculated(e, m, v, n, s) /\ n.content[n.result].type = "Number" /\ s.result \in 0..(Modulus - 1)
    BY <2>1, EvaluateOperator
  <2>3. e.kind # "read"
    BY <2>1 DEF Operator
  <2> QED BY <2>2, <2>3 DEF OfItsType
<1> QED BY <1>1, <1>2

-----------------------------------------------------------------------------
(* What a statement does with a result *)

Converts(m, n) ==
  /\ Sound(n) /\ (Kinds(m) => Kinds(n))
  /\ n.slot = m.slot /\ n.disturbed = m.disturbed
  /\ Is(n, n.result) = Is(m, m.result)
  /\ \A v : Fits(m, v) => Fits(n, v)

(* Conversions of a result between a Union and a number, and its clone,    *)
(* stand for the same value.                                               *)
LEMMA Unwrapping ==
  ASSUME NEW m, Sound(m), NEW n, n = UnionGet(m)
  PROVE  /\ Converts(m, n)
         /\ ~IsUnion(n, n.result)
         /\ ~IsUnion(m, m.result) => n = m
<1>1. m.result \in DOMAIN m.content
  BY DEF Sound, Object
<1>2. CASE IsUnion(m, m.result)
  <2> DEFINE o == m.content[m.result].is
  <2>1. o \in DOMAIN m.content /\ ~IsUnion(m, o)
    BY <1>1, <1>2 DEF Sound, IsUnion, Object
  <2>2. n = [slot |-> m.slot, content |-> m.content, result |-> o, held |-> m.held, disturbed |-> m.disturbed]
    BY <1>2 DEF UnionGet, Type, IsUnion, Sound
  <2>3. Is(m, m.result) = m.content[o].is
    BY <1>2 DEF Is
  <2> HIDE DEF o
  <2>4. Sound(n)
    BY <2>1, <2>2 DEF Sound, Object, IsUnion
  <2>5. n.slot = m.slot /\ n.content = m.content /\ n.result = o /\ n.disturbed = m.disturbed
    BY <2>2
  <2> QED BY <1>2, <2>1, <2>3, <2>4, <2>5 DEF Converts, Kinds, Fits, Is, IsUnion
<1>3. CASE ~IsUnion(m, m.result)
  BY <1>3 DEF UnionGet, Type, IsUnion, Converts
<1> QED BY <1>2, <1>3

LEMMA Wrapping ==
  ASSUME NEW m, Sound(m), NEW n, n = Wrapped(m)
  PROVE  Converts(m, n) /\ IsUnion(n, n.result)
<1>1. m.result \in DOMAIN m.content
  BY DEF Sound, Object
<1>2. CASE ~IsUnion(m, m.result)
  <2>1. n = Allocate(m, Union(m.result)) /\ Storable(m, Union(m.result))
    BY <1>1, <1>2 DEF Wrapped, Type, IsUnion, UnionCreate, Storable
  <2>2. /\ Sound(n) /\ n.slot = m.slot /\ n.disturbed = m.disturbed
        /\ n.content[n.result] = Union(m.result)
        /\ \A o \in DOMAIN m.content : n.content[o] = m.content[o]
    BY <2>1, Allocating
  <2>3. (Kinds(m) => Kinds(n)) /\ \A v : Fits(m, v) => Fits(n, v)
    BY <2>1, AllocatingKeeps
  <2>4. IsUnion(n, n.result) /\ Is(n, n.result) = Is(m, m.result)
    BY <1>1, <1>2, <2>2 DEF Is, IsUnion, Union
  <2> QED BY <2>2, <2>3, <2>4 DEF Converts
<1>3. CASE IsUnion(m, m.result)
  BY <1>3 DEF Wrapped, Type, IsUnion, Converts
<1> QED BY <1>2, <1>3

LEMMA Cloning ==
  ASSUME NEW m, Sound(m), NEW n, n = Cloned(m)
  PROVE  /\ Converts(m, n)
         /\ IsUnion(n, n.result) <=> IsUnion(m, m.result)
<1>1. m.result \in DOMAIN m.content
  BY DEF Sound, Object
<1>2. CASE m.content[m.result].type = "Number"
  <2> DEFINE c == m.content[m.result]
  <2>1. n = Allocate(m, c) /\ Storable(m, c) /\ Is(m, m.result) = c.is /\ ~IsUnion(m, m.result)
    BY <1>1, <1>2, NumberOf DEF Cloned, Clone, Type
  <2> HIDE DEF c
  <2>2. Sound(n) /\ n.slot = m.slot /\ n.disturbed = m.disturbed /\ n.content[n.result] = c
    BY <2>1, Allocating
  <2>3. (Kinds(m) => Kinds(n)) /\ \A v : Fits(m, v) => Fits(n, v)
    BY <2>1, AllocatingKeeps
  <2>4. c.type = "Number"
    BY <1>2 DEF c
  <2> QED BY <2>1, <2>2, <2>3, <2>4 DEF Converts, Is, IsUnion
<1>3. CASE m.content[m.result].type # "Number"
  BY <1>3 DEF Cloned, Type, Converts
<1> QED BY <1>2, <1>3

(* A place takes the result, which must be of its kind.                    *)
LEMMA StoringAResult ==
  ASSUME NEW m, Sound(m), Kinds(m), NEW p \in DOMAIN value, NEW n, n = Store(m, p),
         p \in Unions => IsUnion(m, m.result)
  PROVE  /\ Sound(n) /\ Kinds(n) /\ n.disturbed = m.disturbed
         /\ \A v : Typed(v) /\ Fits(m, v) /\ (p \notin Unions => ~IsUnion(m, m.result)) =>
                     Fits(n, [v EXCEPT ![p] = Is(m, m.result)])
<1>1. /\ Sound(n)
      /\ n.content = m.content /\ n.disturbed = m.disturbed
      /\ n.slot[p] = m.result
      /\ \A q \in DOMAIN value \ {p} : n.slot[q] = m.slot[q]
  BY Storing
<1>2. Kinds(n)
  BY <1>1 DEF Kinds, IsUnion, Unions
<1>3. ASSUME NEW v, Typed(v), Fits(m, v), p \notin Unions => ~IsUnion(m, m.result)
      PROVE  Fits(n, [v EXCEPT ![p] = Is(m, m.result)])
  <2>1. DOMAIN v = DOMAIN value
    BY <1>3 DEF Typed
  <2>2. \A q \in DOMAIN value \ {p} : Is(n, n.slot[q]) = v[q] /\ (IsUnion(n, n.slot[q]) => q \in Unions)
    BY <1>1, <1>3 DEF Fits, Is, IsUnion
  <2>3. Is(n, n.slot[p]) = Is(m, m.result) /\ (IsUnion(n, n.slot[p]) => p \in Unions)
    BY <1>1, <1>3 DEF Is, IsUnion
  <2> QED BY <2>1, <2>2, <2>3 DEF Fits
<1> QED BY <1>1, <1>2, <1>3

(* The assignment operator; a number for a variable is cloned.             *)
LEMMA MakingAnAssignment ==
  ASSUME NEW m, Sound(m), Kinds(m), IsFiniteSet(DOMAIN value),
         NEW p \in DOMAIN value, p \in Variables \cup Optionals, NEW n, n = MakeAssignment(m, p)
  PROVE  /\ Sound(n) /\ Kinds(n)
         /\ ~n.disturbed => ~m.disturbed
         /\ \A v : Typed(v) /\ Fits(m, v) /\ ~n.disturbed => Fits(n, [v EXCEPT ![p] = Is(m, m.result)])
         /\ p \in Variables /\ m.content[m.result].type = "Number" => Pointing(n, n.slot[p]) = {p}
<1>1. m.result \in DOMAIN m.content /\ m.slot[p] \in DOMAIN m.content
  BY DEF Sound, Object
<1>2. (p \in Variables => p \notin Unions /\ p \notin Optionals) /\ (p \in Optionals => p \in Unions)
  BY KindsAreDistinct DEF Unions
<1>3. CASE p \in Optionals /\ ~IsUnion(m, m.result)
  <2> DEFINE o == m.slot[p]
  <2>1. n = Change(m, o, m.result)
    BY <1>3 DEF MakeAssignment, Type, IsUnion
  <2>2. IsUnion(m, o) /\ o \in DOMAIN m.content
    BY <1>1, <1>3 DEF Kinds
  <2>3. /\ Sound(n) /\ n.slot = m.slot
        /\ n.content[o] = [type |-> m.content[o].type, is |-> m.result]
        /\ \A q \in DOMAIN m.content \ {o} : n.content[q] = m.content[q]
        /\ ~n.disturbed => ~m.disturbed
    BY <1>1, <1>3, <2>1, <2>2, Changing
  <2>4. /\ Kinds(n)
        /\ \A x \in DOMAIN m.content : IsUnion(n, x) = IsUnion(m, x)
        /\ ~n.disturbed =>
             \A q \in Pointing(m, o) : \A r \in DOMAIN value \ {q} : Is(n, n.slot[r]) = Is(m, m.slot[r])
    BY <1>1, <1>3, <2>1, <2>2, ChangingOne
  <2>5. p \in Pointing(m, o)
    BY DEF Pointing, PointsTo, Sound
  <2>6. m.result # o /\ n.content[m.result] = m.content[m.result]
    BY <1>1, <1>3, <2>2, <2>3
  <2>7. Is(n, o) = Is(m, m.result)
    BY <1>3, <2>2, <2>3, <2>6 DEF Is, IsUnion
  <2>8. ASSUME NEW v, Typed(v), Fits(m, v), ~n.disturbed
        PROVE  Fits(n, [v EXCEPT ![p] = Is(m, m.result)])
    <3>1. \A r \in DOMAIN value \ {p} : Is(n, n.slot[r]) = v[r]
      BY <2>4, <2>5, <2>8 DEF Fits
    <3>2. \A r \in DOMAIN value : IsUnion(n, n.slot[r]) => r \in Unions
      BY <2>3, <2>4, <2>8 DEF Fits, Sound, Object
    <3>3. DOMAIN v = DOMAIN value
      BY <2>8 DEF Typed
    <3> QED BY <2>3, <2>7, <3>1, <3>2, <3>3 DEF Fits
  <2> QED BY <1>2, <1>3, <2>3, <2>4, <2>8
<1>4. CASE p \in Optionals /\ IsUnion(m, m.result)
  <2>1. n = Store(m, p)
    BY <1>4 DEF MakeAssignment, Type, IsUnion
  <2> QED BY <1>2, <1>4, <2>1, StoringAResult
<1>5. CASE p \in Variables /\ m.content[m.result].type = "Number"
  <2>1. n = Store(Clone(m), p)
    BY <1>2, <1>5 DEF MakeAssignment, Type
  <2>2. /\ Sound(n) /\ Kinds(n) /\ Preserves(m, n) /\ Pointing(n, n.slot[p]) = {p}
        /\ \A v : Typed(v) /\ Fits(m, v) => Fits(n, [v EXCEPT ![p] = Is(m, m.result)])
    BY <1>2, <1>5, <2>1, StoringAClone
  <2> QED BY <2>2 DEF Preserves
<1>6. CASE p \in Variables /\ m.content[m.result].type # "Number"
  <2> DEFINE u == UnionGet(m)
  <2>1. n = Store(u, p)
    BY <1>2, <1>6 DEF MakeAssignment, Type
  <2>2. Converts(m, u) /\ ~IsUnion(u, u.result)
    BY Unwrapping
  <2> HIDE DEF u
  <2>3. /\ Sound(n) /\ Kinds(n) /\ n.disturbed = u.disturbed
        /\ \A v : Typed(v) /\ Fits(u, v) => Fits(n, [v EXCEPT ![p] = Is(u, u.result)])
    BY <1>2, <1>6, <2>1, <2>2, StoringAResult DEF Converts
  <2> QED BY <1>6, <2>2, <2>3 DEF Converts
<1> QED BY <1>3, <1>4, <1>5, <1>6

-----------------------------------------------------------------------------
(* Between statements objects are named after places                       *)

Seen(m) == {Undefined} \cup UNION {PointsTo(m, p) : p \in DOMAIN m.slot}

(* Names taken from places do not collide.                                 *)
LEMMA PlacesGiveNames ==
  ASSUME NEW p \in Places, NEW q \in Places
  PROVE  /\ Own(p) \in Nat /\ Own(p) # Undefined /\ Through(p) \in Nat /\ Through(p) # Undefined
         /\ Own(p) = Own(q) => p = q
         /\ Through(p) = Through(q) => p = q
         /\ Own(p) # Through(q)
<1>1. Rank[p] \in Nat \ {0} /\ Rank[q] \in Nat \ {0}
  BY RankAssumption
<1>2. Rank[p] = Rank[q] => p = q
  BY RankAssumption
<1>3. 2 * Rank[p] = 2 * Rank[q] => Rank[p] = Rank[q]
  BY <1>1
<1>4. 2 * Rank[p] + 1 = 2 * Rank[q] + 1 => Rank[p] = Rank[q]
  BY <1>1
<1>5. 2 * Rank[p] # 2 * Rank[q] + 1
  BY <1>1
<1>6. 2 * Rank[p] \in Nat /\ 2 * Rank[p] # 0 /\ 2 * Rank[p] + 1 \in Nat /\ 2 * Rank[p] + 1 # 0
  BY <1>1
<1> QED BY <1>2, <1>3, <1>4, <1>5, <1>6 DEF Own, Through, Undefined

(* The objects that places point to, directly or through a Union.          *)
LEMMA SeenObjects ==
  ASSUME NEW m, Sound(m)
  PROVE  /\ Seen(m) \subseteq DOMAIN m.content
         /\ \A p \in DOMAIN value : m.slot[p] \in Seen(m)
         /\ \A p \in DOMAIN value : IsUnion(m, m.slot[p]) => m.content[m.slot[p]].is \in Seen(m)
         /\ \A o \in Seen(m) \ {Undefined} : \E p \in DOMAIN value :
              \/ m.slot[p] = o
              \/ IsUnion(m, m.slot[p]) /\ m.content[m.slot[p]].is = o
<1>1. DOMAIN m.slot = DOMAIN value
  BY DEF Sound
<1>2. \A p \in DOMAIN value : m.slot[p] \in PointsTo(m, p)
  BY DEF PointsTo
<1>3. \A p \in DOMAIN value : IsUnion(m, m.slot[p]) => m.content[m.slot[p]].is \in PointsTo(m, p)
  BY DEF PointsTo, IsUnion
<1>4. \A p \in DOMAIN value : \A o \in PointsTo(m, p) :
        \/ m.slot[p] = o
        \/ IsUnion(m, m.slot[p]) /\ m.content[m.slot[p]].is = o
  BY DEF PointsTo, IsUnion
<1>5. \A p \in DOMAIN value : IsUnion(m, m.slot[p]) => m.content[m.slot[p]].is \in DOMAIN m.content
  BY DEF Sound, IsUnion, Object
<1>6. Undefined \in DOMAIN m.content /\ \A p \in DOMAIN value : m.slot[p] \in DOMAIN m.content
  BY DEF Sound, Object
<1> QED BY <1>1, <1>2, <1>3, <1>4, <1>5, <1>6 DEF Seen

(* The name of an object says which place to follow to it.                 *)
LEMMA NamesLead ==
  ASSUME NEW m, Sound(m), DOMAIN value \subseteq Places, NEW o \in Seen(m) \ {Undefined}
  PROVE  /\ NameOf(m, o) \in Nat /\ NameOf(m, o) # Undefined
         /\ \E p \in DOMAIN value :
              \/ NameOf(m, o) = Own(p) /\ m.slot[p] = o
              \/ NameOf(m, o) = Through(p) /\ m.content[m.slot[p]] = Union(o)
<1> DEFINE own == {Own(p) : p \in {p \in DOMAIN m.slot : m.slot[p] = o}}
           through == {Through(p) : p \in {p \in DOMAIN m.slot : m.content[m.slot[p]] = Union(o)}}
           names == own \cup through
<1>1. DOMAIN m.slot = DOMAIN value
  BY DEF Sound
<1>2. names \subseteq Nat /\ \A n \in names : n # Undefined
  BY <1>1, PlacesGiveNames
<1>3. PICK p \in DOMAIN value : \/ m.slot[p] = o
                                \/ IsUnion(m, m.slot[p]) /\ m.content[m.slot[p]].is = o
  BY SeenObjects
<1>4. IsUnion(m, m.slot[p]) => m.content[m.slot[p]] = Union(m.content[m.slot[p]].is)
  <2>1. m.slot[p] \in DOMAIN m.content /\ (IsUnion(m, m.slot[p]) => m.slot[p] # Undefined)
    BY DEF Sound, Object, IsUnion
  <2> QED BY <2>1 DEF Sound, IsUnion, Union
<1>5. names # {}
  BY <1>1, <1>3, <1>4
<1>6. Min(names) \in names
  BY <1>2, <1>5, MinOfNames
<1>7. NameOf(m, o) = Min(names)
  BY DEF NameOf
<1>8. \A n \in names : \E q \in DOMAIN value : \/ n = Own(q) /\ m.slot[q] = o
                                               \/ n = Through(q) /\ m.content[m.slot[q]] = Union(o)
  BY <1>1
<1> HIDE DEF names
<1> QED BY <1>2, <1>6, <1>7, <1>8

(* No two objects have the same name.                                      *)
LEMMA NamesAreDistinct ==
  ASSUME NEW m, Sound(m), DOMAIN value \subseteq Places,
         NEW o \in Seen(m), NEW q \in Seen(m), NameOf(m, o) = NameOf(m, q)
  PROVE  o = q
<1>1. NameOf(m, Undefined) = Undefined
  BY DEF NameOf
<1>2. CASE o # Undefined /\ q # Undefined
  <2>1. PICK p \in DOMAIN value : \/ NameOf(m, o) = Own(p) /\ m.slot[p] = o
                                  \/ NameOf(m, o) = Through(p) /\ m.content[m.slot[p]] = Union(o)
    BY <1>2, NamesLead
  <2>2. PICK r \in DOMAIN value : \/ NameOf(m, q) = Own(r) /\ m.slot[r] = q
                                  \/ NameOf(m, q) = Through(r) /\ m.content[m.slot[r]] = Union(q)
    BY <1>2, NamesLead
  <2>3. Own(p) # Through(r) /\ Own(r) # Through(p) /\ (Own(p) = Own(r) => p = r) /\ (Through(p) = Through(r) => p = r)
    BY PlacesGiveNames
  <2>4. p = r
    BY <2>1, <2>2, <2>3
  <2>5. Union(o) = Union(q) => o = q
    BY DEF Union
  <2> QED BY <2>1, <2>2, <2>3, <2>4, <2>5
<1>3. CASE o = Undefined \/ q = Undefined
  BY <1>1, <1>3, NamesLead
<1> QED BY <1>2, <1>3

LEMMA SeenUnions ==
  ASSUME NEW m, Sound(m), NEW o \in Seen(m), IsUnion(m, o)
  PROVE  m.content[o].is \in Seen(m) /\ ~IsUnion(m, m.content[o].is)
<1>1. o # Undefined /\ o \in DOMAIN m.content
  BY SeenObjects DEF Sound, IsUnion
<1>2. ~IsUnion(m, m.content[o].is)
  BY <1>1 DEF Sound, IsUnion
<1>3. PICK p \in DOMAIN value : \/ m.slot[p] = o
                                \/ IsUnion(m, m.slot[p]) /\ m.content[m.slot[p]].is = o
  BY <1>1, SeenObjects
<1>4. m.slot[p] = o
  <2>1. m.slot[p] \in DOMAIN m.content /\ (IsUnion(m, m.slot[p]) => m.slot[p] # Undefined)
    BY DEF Sound, Object, IsUnion
  <2>2. IsUnion(m, m.slot[p]) => ~IsUnion(m, m.content[m.slot[p]].is)
    BY <2>1 DEF Sound, IsUnion
  <2> QED BY <1>3, <2>2
<1> QED BY <1>2, <1>4, SeenObjects

(* What the names make of the slots and of the objects. *)
LEMMA RenamedParts ==
  ASSUME NEW m, Sound(m), DOMAIN value \subseteq Places, NEW r, r = Renamed(m)
  PROVE  /\ r.slot = [p \in DOMAIN value |-> NameOf(m, m.slot[p])]
         /\ DOMAIN r.content = {NameOf(m, o) : o \in Seen(m)}
         /\ r.content = [n \in DOMAIN r.content |-> r.content[n]]
         /\ \A o \in Seen(m) : r.content[NameOf(m, o)] =
              IF IsUnion(m, o) THEN Union(NameOf(m, m.content[o].is)) ELSE m.content[o]
<1> DEFINE name == [o \in Seen(m) |-> NameOf(m, o)]
           first(n) == CHOOSE o \in Seen(m) : name[o] = n
           given(o) == IF m.content[o].type = "Union" THEN Union(name[m.content[o].is]) ELSE m.content[o]
<1>1. r = [slot |-> [p \in DOMAIN m.slot |-> name[m.slot[p]]],
           content |-> [n \in {name[o] : o \in Seen(m)} |-> given(first(n))]]
  BY DEF Renamed, Seen
<1>2. \A o \in Seen(m) : name[o] = NameOf(m, o)
  OBVIOUS
<1>3. \A o \in Seen(m) : first(name[o]) = o
  BY NamesAreDistinct
<1> HIDE DEF name, first
<1>4. r.slot = [p \in DOMAIN value |-> NameOf(m, m.slot[p])]
  <2>1. DOMAIN m.slot = DOMAIN value /\ \A p \in DOMAIN value : m.slot[p] \in Seen(m)
    BY SeenObjects DEF Sound
  <2>2. r.slot = [p \in DOMAIN value |-> name[m.slot[p]]]
    BY <1>1, <2>1
  <2> QED BY <1>2, <2>1, <2>2
<1>5. r.content = [n \in {name[o] : o \in Seen(m)} |-> given(first(n))]
  BY <1>1
<1>6. \A o \in Seen(m) : r.content[name[o]] = given(o)
  BY <1>3, <1>5
<1>7. \A o \in Seen(m) : given(o) = IF IsUnion(m, o) THEN Union(NameOf(m, m.content[o].is)) ELSE m.content[o]
  BY <1>2, SeenUnions DEF IsUnion
<1>8. DOMAIN r.content = {NameOf(m, o) : o \in Seen(m)}
  BY <1>2, <1>5
<1>9. r.content = [n \in DOMAIN r.content |-> r.content[n]]
  BY <1>5
<1> QED BY <1>2, <1>4, <1>6, <1>7, <1>8, <1>9

(* Names change nothing of what the places hold and share.                 *)
LEMMA Renaming ==
  ASSUME NEW m, Sound(m), Kinds(m), DOMAIN value \subseteq Places,
         NEW k, k = [slot |-> Renamed(m).slot, content |-> Renamed(m).content, result |-> Undefined,
                     held |-> {}, disturbed |-> FALSE]
  PROVE  /\ Sound(k) /\ Kinds(k)
         /\ \A v : Fits(m, v) => Fits(k, v)
         /\ \A p \in DOMAIN value : \A q \in DOMAIN value :
              k.slot[p] \in PointsTo(k, q) <=> m.slot[p] \in PointsTo(m, q)
<1> DEFINE name(o) == NameOf(m, o)
<1>1. /\ k.slot = [p \in DOMAIN value |-> name(m.slot[p])]
      /\ DOMAIN k.content = {name(o) : o \in Seen(m)}
      /\ k.content = [n \in DOMAIN k.content |-> k.content[n]]
      /\ \A o \in Seen(m) : k.content[name(o)] =
           IF IsUnion(m, o) THEN Union(name(m.content[o].is)) ELSE m.content[o]
  BY RenamedParts
<1>2. /\ k.result = Undefined /\ k.held = {} /\ k.disturbed = FALSE
      /\ k = [slot |-> k.slot, content |-> k.content, result |-> k.result, held |-> k.held, disturbed |-> k.disturbed]
  OBVIOUS
<1>3. /\ name(Undefined) = Undefined
      /\ \A o \in Seen(m) : name(o) \in Nat
      /\ \A o \in Seen(m) : name(o) = Undefined => o = Undefined
  <2>1. NameOf(m, Undefined) = Undefined /\ Undefined \in Nat
    BY DEF NameOf, Undefined
  <2>2. \A o \in Seen(m) \ {Undefined} : NameOf(m, o) \in Nat /\ NameOf(m, o) # Undefined
    BY NamesLead
  <2> QED BY <2>1, <2>2
<1>4. \A o, q \in Seen(m) : name(o) = name(q) => o = q
  BY NamesAreDistinct
<1>5. IsFiniteSet(DOMAIN k.content) /\ DOMAIN k.content \subseteq Nat
  <2> DEFINE f == [o \in Seen(m) |-> name(o)]
  <2>1. f \in Surjection(Seen(m), DOMAIN k.content)
    BY <1>1 DEF Surjection
  <2>2. IsFiniteSet(Seen(m))
    BY SeenObjects, FS_Subset DEF Sound
  <2> QED BY <1>1, <1>3, <2>1, <2>2, FS_Surjection
<1> HIDE DEF name
<1>6. \A o \in Seen(m) : /\ name(o) \in DOMAIN k.content
                         /\ (IsUnion(k, name(o)) <=> IsUnion(m, o))
                         /\ IsUnion(m, o) => k.content[name(o)].is = name(m.content[o].is)
                         /\ ~IsUnion(m, o) => k.content[name(o)] = m.content[o]
  <2> SUFFICES ASSUME NEW o \in Seen(m)
               PROVE  /\ name(o) \in DOMAIN k.content
                      /\ (IsUnion(k, name(o)) <=> IsUnion(m, o))
                      /\ IsUnion(m, o) => k.content[name(o)].is = name(m.content[o].is)
                      /\ ~IsUnion(m, o) => k.content[name(o)] = m.content[o]
    OBVIOUS
  <2>1. name(o) \in DOMAIN k.content
    BY <1>1
  <2>2. CASE IsUnion(m, o)
    <3>1. k.content[name(o)] = Union(name(m.content[o].is))
      BY <1>1, <2>2
    <3>2. k.content[name(o)].type = "Union" /\ k.content[name(o)].is = name(m.content[o].is)
      BY <3>1 DEF Union
    <3>3. IsUnion(k, name(o))
      BY <3>2 DEF IsUnion
    <3> QED BY <2>1, <2>2, <3>2, <3>3
  <2>3. CASE ~IsUnion(m, o)
    <3>1. k.content[name(o)] = m.content[o]
      BY <1>1, <2>3
    <3>2. ~IsUnion(k, name(o))
      BY <2>3, <3>1 DEF IsUnion
    <3> QED BY <2>1, <2>3, <3>1, <3>2
  <2> QED BY <2>2, <2>3
<1>7. Undefined \in Seen(m) /\ (\A p \in DOMAIN value : m.slot[p] \in Seen(m)) /\ Seen(m) \subseteq DOMAIN m.content
  BY SeenObjects DEF Seen
<1>8. ~IsUnion(m, Undefined) /\ k.content[Undefined] = [type |-> "Undefined", is |-> undefined] /\ Undefined \in DOMAIN k.content
  <2>1. ~IsUnion(m, Undefined) /\ m.content[Undefined] = [type |-> "Undefined", is |-> undefined]
    BY DEF Sound, IsUnion
  <2> QED BY <1>3, <1>6, <1>7, <2>1
<1>9. ASSUME NEW n \in DOMAIN k.content \ {Undefined}
      PROVE  /\ k.content[n] = [type |-> k.content[n].type, is |-> k.content[n].is]
             /\ \/ k.content[n].type = "Number" /\ k.content[n].is \in 0..(Modulus - 1)
                \/ IsUnion(k, n) /\ Object(k, k.content[n].is) /\ ~IsUnion(k, k.content[n].is)
  <2>1. PICK o \in Seen(m) : n = name(o)
    BY <1>1
  <2>2. o # Undefined /\ o \in DOMAIN m.content
    BY <1>3, <1>7, <1>9, <2>1
  <2>3. CASE IsUnion(m, o)
    <3>1. k.content[n] = Union(name(m.content[o].is))
      BY <1>1, <2>1, <2>3
    <3>2. m.content[o].is \in Seen(m) /\ ~IsUnion(m, m.content[o].is)
      BY <2>3, SeenUnions
    <3>3. name(m.content[o].is) \in DOMAIN k.content /\ ~IsUnion(k, name(m.content[o].is))
      BY <1>6, <3>2
    <3> QED BY <3>1, <3>3 DEF Union, IsUnion, Object
  <2>4. CASE ~IsUnion(m, o)
    BY <1>6, <2>1, <2>2, <2>4 DEF Sound
  <2> QED BY <2>3, <2>4
<1>10. Sound(k)
  <2>1. \A p \in DOMAIN value : Object(k, k.slot[p])
    BY <1>1, <1>6, <1>7 DEF Object
  <2>2. Object(k, k.result) /\ Object(k, Undefined)
    BY <1>2, <1>8 DEF Object
  <2>3. k.slot = [p \in DOMAIN value |-> k.slot[p]]
    BY <1>1
  <2>4. k.disturbed \in BOOLEAN
    BY <1>2
  <2> HIDE DEF IsUnion
  <2> QED BY <1>1, <1>2, <1>5, <1>8, <1>9, <2>1, <2>2, <2>3, <2>4 DEF Sound
<1>11. \A p \in DOMAIN value : k.slot[p] = name(m.slot[p]) /\ (IsUnion(k, k.slot[p]) <=> IsUnion(m, m.slot[p]))
  <2> SUFFICES ASSUME NEW p \in DOMAIN value
               PROVE  k.slot[p] = name(m.slot[p]) /\ (IsUnion(k, k.slot[p]) <=> IsUnion(m, m.slot[p]))
    OBVIOUS
  <2>1. k.slot[p] = name(m.slot[p]) /\ m.slot[p] \in Seen(m)
    BY <1>1, <1>7
  <2>2. IsUnion(k, name(m.slot[p])) <=> IsUnion(m, m.slot[p])
    BY <1>6, <2>1
  <2> QED BY <2>1, <2>2
<1>12. Kinds(k)
  BY <1>3, <1>11 DEF Kinds
<1>13. ASSUME NEW p \in DOMAIN value
       PROVE  Is(k, k.slot[p]) = Is(m, m.slot[p])
  <2>1. CASE IsUnion(m, m.slot[p])
    <3>1. m.content[m.slot[p]].is \in Seen(m) /\ ~IsUnion(m, m.content[m.slot[p]].is)
      BY <1>7, <2>1, SeenUnions
    <3>2. k.content[name(m.content[m.slot[p]].is)] = m.content[m.content[m.slot[p]].is]
      BY <1>6, <3>1
    <3>3. k.content[k.slot[p]].is = name(m.content[m.slot[p]].is)
      BY <1>6, <1>7, <1>11, <2>1
    <3> QED BY <1>11, <2>1, <3>2, <3>3 DEF Is
  <2>2. CASE ~IsUnion(m, m.slot[p])
    BY <1>6, <1>7, <1>11, <2>2 DEF Is
  <2> QED BY <2>1, <2>2
<1>14. \A v : Fits(m, v) => Fits(k, v)
  BY <1>11, <1>13 DEF Fits
<1>15. ASSUME NEW p \in DOMAIN value, NEW q \in DOMAIN value
       PROVE  k.slot[p] \in PointsTo(k, q) <=> m.slot[p] \in PointsTo(m, q)
  <2>1. PointsTo(m, q) = {m.slot[q]} \cup (IF IsUnion(m, m.slot[q]) THEN {m.content[m.slot[q]].is} ELSE {})
    BY DEF PointsTo, IsUnion
  <2>2. PointsTo(k, q) = {name(m.slot[q])} \cup (IF IsUnion(m, m.slot[q]) THEN {name(m.content[m.slot[q]].is)} ELSE {})
    BY <1>6, <1>7, <1>11 DEF PointsTo, IsUnion
  <2>3. IsUnion(m, m.slot[q]) => m.content[m.slot[q]].is \in Seen(m)
    BY SeenObjects
  <2>4. m.slot[p] \in Seen(m) /\ m.slot[q] \in Seen(m)
    BY <1>7
  <2>5. name(m.slot[p]) = name(m.slot[q]) <=> m.slot[p] = m.slot[q]
    BY <1>4, <2>4
  <2>6. IsUnion(m, m.slot[q]) => (name(m.slot[p]) = name(m.content[m.slot[q]].is) <=> m.slot[p] = m.content[m.slot[q]].is)
    BY <1>4, <2>3, <2>4
  <2> QED BY <1>11, <2>1, <2>2, <2>5, <2>6
<1> QED BY <1>10, <1>12, <1>14, <1>15

-----------------------------------------------------------------------------
(* Statements: the invariant between them, and what each of them shows     *)

VInv ==
  /\ DOMAIN value \in PlaceSets
  /\ Typed(value)
  /\ Sound(Machine)
  /\ Kinds(Machine)

StatementIsRight ==
  /\ VInv'
  /\ Follows' \/ last'.unlike
  /\ \A p \in last'.copied : Pointing(Machine', slot'[p]) = {p}

(* Any program has finitely many places.                                   *)
LEMMA FinitePlaces ==
  ASSUME VInv
  PROVE  IsFiniteSet(DOMAIN value) /\ DOMAIN value \subseteq Places
BY PlaceSetsAssumption DEF VInv

(* A statement begins in order, with each number at its place.             *)
LEMMA BeginningAStatement ==
  ASSUME VInv, Follows
  PROVE  Proper(Machine) /\ Fits(Machine, value)
<1>1. Machine.slot = slot /\ Machine.content = content
  BY DEF Machine
<1>2. Fits(Machine, value)
  BY DEF Follows, Agrees, Fits, Is, IsUnion
<1>3. ASSUME NEW p \in Numeric
      PROVE  Machine.content[Machine.slot[p]].type = "Number"
  <2> DEFINE o == Machine.slot[p]
  <2>1. p \in DOMAIN value /\ p \notin Unions
    BY DEF Numeric
  <2>2. ~IsUnion(Machine, o) /\ Machine.content[o].is = value[p] /\ value[p] \in 0..(Modulus - 1)
    BY <1>2, <2>1 DEF Fits, Is, VInv, Typed
  <2>3. o \in DOMAIN Machine.content
    BY <2>1 DEF VInv, Sound, Object
  <2>4. o # Undefined
    BY <2>2, ModulusAssumption DEF VInv, Sound
  <2> QED BY <2>2, <2>3, <2>4 DEF VInv, Sound
<1> QED BY <1>2, <1>3 DEF VInv, Proper, Numbers

Narrowing(to, e) == e.kind = "read" /\ e.p \in Unions /\ to \notin Unions

(* A statement ends: its objects get their names.                          *)
LEMMA EndingAStatement ==
  ASSUME VInv, NEW by, NEW to \in DOMAIN value, NEW e, NEW v, Typed(v),
         NEW m, Sound(m), Kinds(m), Becomes(by, to, e, v, m),
         m.disturbed \/ Both(e) \/ (by = "member" /\ Narrowing(to, e)) \/ Fits(m, v),
         by \in Copying /\ to \notin Unions /\ ~Narrowing(to, e) => Pointing(m, m.slot[to]) = {to}
  PROVE  StatementIsRight
<1> DEFINE k == [slot |-> Renamed(m).slot, content |-> Renamed(m).content, result |-> Undefined,
                 held |-> {}, disturbed |-> FALSE]
<1>1. /\ Sound(k) /\ Kinds(k)
      /\ Fits(m, v) => Fits(k, v)
      /\ \A p \in DOMAIN value : \A q \in DOMAIN value :
           k.slot[p] \in PointsTo(k, q) <=> m.slot[p] \in PointsTo(m, q)
  BY FinitePlaces, Renaming
<1>2. value' = v /\ slot' = Renamed(m).slot /\ content' = Renamed(m).content
  BY DEF Becomes
<1>3. last' = [copied |-> IF by \in Copying /\ to \notin Unions /\ ~Narrowing(to, e) THEN {to} ELSE {},
               unlike |-> m.disturbed \/ Both(e) \/ (by = "member" /\ Narrowing(to, e))]
  BY DEF Becomes, Narrowing, Both
<1>4. Machine' = k /\ slot' = k.slot /\ content' = k.content
  BY <1>2 DEF Machine
<1> HIDE DEF k
<1>5. DOMAIN value' = DOMAIN value /\ value' = v
  BY <1>2 DEF Typed
<1>6. Typed(value)'
  BY <1>5 DEF Typed
<1>7. Sound(Machine)'
  BY <1>1, <1>4, <1>5 DEF Sound, Object, IsUnion
<1>8. Kinds(Machine)'
  BY <1>1, <1>4, <1>5 DEF Kinds, IsUnion
<1>9. VInv'
  BY <1>5, <1>6, <1>7, <1>8 DEF VInv
<1>10. Follows' \/ last'.unlike
  <2>1. CASE Fits(m, v)
    <3>1. Fits(k, v)
      BY <1>1, <2>1
    <3>2. \A p \in DOMAIN value' : Agrees(Machine, p)'
      BY <1>4, <1>5, <3>1 DEF Fits, Agrees, Is, IsUnion
    <3> QED BY <3>2 DEF Follows
  <2>2. CASE m.disturbed \/ Both(e) \/ (by = "member" /\ Narrowing(to, e))
    <3> DEFINE u == m.disturbed \/ Both(e) \/ (by = "member" /\ Narrowing(to, e))
               c == IF by \in Copying /\ to \notin Unions /\ ~Narrowing(to, e) THEN {to} ELSE {}
    <3>1. last' = [copied |-> c, unlike |-> u]
      BY <1>3, Zenon
    <3>2. u
      BY <2>2
    <3> HIDE DEF u, c
    <3>3. last'.unlike = u
      BY <3>1
    <3> QED BY <3>2, <3>3
  <2> QED BY <2>1, <2>2
<1>11. ASSUME NEW p \in last'.copied
       PROVE  Pointing(Machine', slot'[p]) = {p}
  <2>1. last'.copied = IF by \in Copying /\ to \notin Unions /\ ~Narrowing(to, e) THEN {to} ELSE {}
    BY <1>3
  <2>2. p = to /\ Pointing(m, m.slot[to]) = {to}
    BY <1>11, <2>1
  <2>3. DOMAIN k.slot = DOMAIN value /\ DOMAIN m.slot = DOMAIN value
    BY <1>1 DEF Sound
  <2>4. Pointing(k, k.slot[to]) = Pointing(m, m.slot[to])
    BY <1>1, <2>3 DEF Pointing
  <2> QED BY <1>4, <2>2, <2>4
<1> QED BY <1>9, <1>10, <1>11 DEF StatementIsRight

(* What is known when the expression of a statement is evaluated.          *)
LEMMA EvaluatingForAPlace ==
  ASSUME VInv, Follows, NEW p \in DOMAIN value, NEW e \in Fitting(p) \cup Expressions,
         NEW n, n = Computed(e, Machine), NEW s, s = Means(e, value)
  PROVE  /\ Sound(n) /\ Kinds(n) /\ Typed(s.value) /\ Typed(Assigning(p, e))
         /\ Assigning(p, e) = [s.value EXCEPT ![p] = s.result]
         /\ ~n.disturbed /\ ~Both(e) => Fits(n, s.value) /\ Is(n, n.result) = s.result
         /\ IF e.kind = "read" /\ e.p \in Unions THEN IsUnion(n, n.result)
            ELSE n.content[n.result].type = "Number" /\ ~IsUnion(n, n.result)
<1>1. Proper(Machine) /\ Fits(Machine, value) /\ Typed(value) /\ IsFiniteSet(DOMAIN value)
  BY BeginningAStatement, FinitePlaces DEF VInv
<1>2. e \in Expressions \cup Selections \cup Reads \cup Operands
  BY DEF Fitting, Reads
<1>3. Calculated(e, Machine, value, n, s) /\ OfItsType(e, n, s)
  BY <1>1, <1>2, Calculating
<1>4. Assigning(p, e) = [s.value EXCEPT ![p] = s.result]
  BY DEF Assigning
<1>5. s.result \in 0..(Modulus - 1) \/ (p \in Unions /\ s.result = undefined)
  <2>1. CASE e.kind = "read" /\ e.p \in Unions
    <3>1. s.result = value[e.p]
      <4>1. s = OperandMeans(e, value)
        BY <2>1 DEF Means
      <4>2. OperandMeans(e, value) = Meaning(value, value[e.p])
        BY <2>1 DEF OperandMeans
      <4> QED BY <4>1, <4>2 DEF Meaning
    <3>2. e.p \in DOMAIN value /\ (p \in Unions \/ value[e.p] # undefined)
      <4>1. e \notin Operands \cup Selections \cup Expressions
        <5>1. e \notin Operands
          BY <2>1 DEF Operands, Literal, Read, Prefix, Postfix, Assigned, Numeric
        <5>2. e \notin Selections
          BY <2>1 DEF Selections, Operator
        <5>3. e \in Expressions => e \in Operands \cup Selections \/ e.kind \in {"add", "or"}
          BY DEF Expressions, Operator
        <5> QED BY <2>1, <5>1, <5>2, <5>3
      <4> QED BY <4>1 DEF Fitting, Read
    <3> QED BY <1>1, <3>1, <3>2 DEF Typed
  <2>2. CASE ~(e.kind = "read" /\ e.p \in Unions)
    BY <1>3, <2>2 DEF OfItsType
  <2> QED BY <2>1, <2>2
<1>6. Typed(Assigning(p, e))
  BY <1>3, <1>4, <1>5 DEF Calculated, Typed
<1> QED BY <1>1, <1>3, <1>4, <1>6 DEF Calculated, OfItsType, Proper, IsUnion

(* A result, converted, in a place of its kind                             *)
LEMMA StoringAConversion ==
  ASSUME NEW e, NEW n, Sound(n), Kinds(n), NEW s, Typed(s.value),
         ~n.disturbed /\ ~Both(e) => Fits(n, s.value) /\ Is(n, n.result) = s.result,
         NEW p \in DOMAIN value, NEW c, Converts(n, c), p \in Unions <=> IsUnion(c, c.result),
         NEW f, f = Store(c, p)
  PROVE  /\ Sound(f) /\ Kinds(f)
         /\ f.disturbed \/ Both(e) \/ Fits(f, [s.value EXCEPT ![p] = s.result])
<1>1. Sound(c) /\ Kinds(c) /\ c.disturbed = n.disturbed /\ Is(c, c.result) = Is(n, n.result)
  BY DEF Converts
<1>2. /\ Sound(f) /\ Kinds(f) /\ f.disturbed = c.disturbed
      /\ Fits(c, s.value) => Fits(f, [s.value EXCEPT ![p] = Is(c, c.result)])
  BY <1>1, StoringAResult
<1>3. CASE ~n.disturbed /\ ~Both(e)
  BY <1>1, <1>2, <1>3 DEF Converts
<1>4. CASE n.disturbed
  BY <1>1, <1>2, <1>4
<1>5. CASE Both(e)
  BY <1>2, <1>5
<1> QED BY <1>3, <1>4, <1>5

LEMMA ConvertingTwice ==
  ASSUME NEW m, NEW n, NEW k, Converts(m, n), Converts(n, k)
  PROVE  Converts(m, k)
BY DEF Converts

LEMMA ConvertingNothing ==
  ASSUME NEW m, Sound(m)
  PROVE  Converts(m, m)
BY DEF Converts

(* A number, cloned into a place for numbers *)
LEMMA StoringANumber ==
  ASSUME NEW e, NEW n, Sound(n), Kinds(n), NEW s, Typed(s.value),
         ~n.disturbed /\ ~Both(e) => Fits(n, s.value) /\ Is(n, n.result) = s.result,
         NEW p \in DOMAIN value \ Unions, n.content[n.result].type = "Number",
         NEW f, f = Store(Clone(n), p)
  PROVE  /\ Sound(f) /\ Kinds(f)
         /\ f.disturbed \/ Both(e) \/ Fits(f, [s.value EXCEPT ![p] = s.result])
         /\ Pointing(f, f.slot[p]) = {p}
<1>1. /\ Sound(f) /\ Kinds(f) /\ Pointing(f, f.slot[p]) = {p}
      /\ Typed(s.value) /\ Fits(n, s.value) => Fits(f, [s.value EXCEPT ![p] = Is(n, n.result)])
  BY StoringAClone
<1>2. f.disturbed = n.disturbed
  <2> DEFINE c == Clone(n)
  <2>1. n.result \in DOMAIN n.content
    BY DEF Sound, Object
  <2>2. Storable(n, n.content[n.result])
    BY <2>1, NumberOf
  <2>3. Sound(c) /\ c.disturbed = n.disturbed
    BY <2>2, Allocating DEF Clone
  <2> HIDE DEF c
  <2>4. f = Store(c, p)
    BY DEF c
  <2> QED BY <2>3, <2>4, Storing
<1>3. CASE ~n.disturbed /\ ~Both(e)
  BY <1>1, <1>3
<1>4. CASE n.disturbed
  BY <1>1, <1>2, <1>4
<1>5. CASE Both(e)
  BY <1>1, <1>5
<1> QED BY <1>3, <1>4, <1>5

(* Each statement: memory is in order afterwards, the places hold what the *)
(* program has unless the statement is one of those that may differ, and   *)
(* what it copied is pointed to by one place.                              *)
LEMMA DeclareIsRight ==
  ASSUME VInv, Follows, NEW p \in Among(Variables \cup Optionals), NEW e \in Fitting(p), Declare(p, e)
  PROVE  StatementIsRight
<1> DEFINE n == Computed(e, Machine)
           s == Means(e, value)
           u == UnionGet(n)
           i == Cloned(IF p \in Variables THEN u ELSE n)
           f == Store(IF p \in Optionals THEN Wrapped(i) ELSE i, p)
<1>1. Becomes("declare", p, e, Assigning(p, e), f)
  BY DEF Declare
<1>2. /\ p \in DOMAIN value /\ p \in Variables \cup Optionals
      /\ p \in Variables => p \notin Unions /\ p \notin Optionals
      /\ p \in Optionals => p \in Unions /\ p \notin Variables
  BY KindsAreDistinct DEF Among, Unions
<1>3. /\ Sound(n) /\ Kinds(n) /\ Typed(s.value) /\ Typed(Assigning(p, e))
      /\ Assigning(p, e) = [s.value EXCEPT ![p] = s.result]
      /\ ~n.disturbed /\ ~Both(e) => Fits(n, s.value) /\ Is(n, n.result) = s.result
      /\ IF e.kind = "read" /\ e.p \in Unions THEN IsUnion(n, n.result)
         ELSE n.content[n.result].type = "Number" /\ ~IsUnion(n, n.result)
  BY <1>2, EvaluatingForAPlace
<1> HIDE DEF n, s
<1>4. /\ Sound(f) /\ Kinds(f)
      /\ f.disturbed \/ Both(e) \/ Fits(f, [s.value EXCEPT ![p] = s.result])
      /\ p \notin Unions /\ ~Narrowing(p, e) => Pointing(f, f.slot[p]) = {p}
  <2>1. CASE p \in Optionals
    <3>1. i = Cloned(n) /\ f = Store(Wrapped(i), p)
      BY <1>2, <2>1
    <3> HIDE DEF i, f
    <3>2. Converts(n, i)
      BY <1>3, <3>1, Cloning
    <3>3. Converts(i, Wrapped(i)) /\ IsUnion(Wrapped(i), Wrapped(i).result)
      BY <3>2, Wrapping DEF Converts
    <3>4. Converts(n, Wrapped(i))
      BY <3>2, <3>3, ConvertingTwice
    <3> QED BY <1>2, <1>3, <2>1, <3>1, <3>3, <3>4, StoringAConversion
  <2>2. CASE p \in Variables /\ IsUnion(n, n.result)
    <3>1. i = Cloned(u) /\ f = Store(i, p)
      BY <1>2, <2>2
    <3>2. Converts(n, u) /\ ~IsUnion(u, u.result)
      BY <1>3, Unwrapping
    <3> HIDE DEF i, f, u
    <3>3. Converts(u, i) /\ ~IsUnion(i, i.result)
      BY <3>1, <3>2, Cloning DEF Converts
    <3>4. Converts(n, i)
      BY <3>2, <3>3, ConvertingTwice
    <3>5. Narrowing(p, e)
      BY <1>2, <1>3, <2>2 DEF Narrowing
    <3> QED BY <1>2, <1>3, <2>2, <3>1, <3>3, <3>4, <3>5, StoringAConversion
  <2>3. CASE p \in Variables /\ ~IsUnion(n, n.result)
    <3>1. n.content[n.result].type = "Number"
      BY <1>3, <2>3
    <3>2. u = n
      BY <1>3, <2>3, Unwrapping
    <3>3. f = Store(Clone(n), p)
      BY <1>2, <2>3, <3>1, <3>2 DEF Cloned, Type
    <3> HIDE DEF i, f, u
    <3> QED BY <1>2, <1>3, <2>3, <3>1, <3>3, StoringANumber
  <2> QED BY <1>2, <2>1, <2>2, <2>3
<1> HIDE DEF i, f, u
<1> QED BY <1>1, <1>2, <1>3, <1>4, EndingAStatement

LEMMA AssignVariableIsRight ==
  ASSUME VInv, Follows, NEW p \in Among(Variables \cup Optionals),
         NEW e \in Fitting(p) \cup Expressions, AssignVariable(p, e)
  PROVE  StatementIsRight
<1> DEFINE n == Computed(e, Machine)
           s == Means(e, value)
           f == MakeAssignment(n, p)
<1>1. Becomes("assign", p, e, Assigning(p, e), f)
  BY DEF AssignVariable
<1>2. p \in DOMAIN value /\ p \in Variables \cup Optionals /\ (p \in Optionals => p \in Unions)
  BY DEF Among, Unions
<1>3. /\ Sound(n) /\ Kinds(n) /\ Typed(s.value) /\ Typed(Assigning(p, e))
      /\ Assigning(p, e) = [s.value EXCEPT ![p] = s.result]
      /\ ~n.disturbed /\ ~Both(e) => Fits(n, s.value) /\ Is(n, n.result) = s.result
      /\ IF e.kind = "read" /\ e.p \in Unions THEN IsUnion(n, n.result)
         ELSE n.content[n.result].type = "Number" /\ ~IsUnion(n, n.result)
  BY <1>2, EvaluatingForAPlace
<1> HIDE DEF n, s
<1>4. /\ Sound(f) /\ Kinds(f)
      /\ ~f.disturbed => ~n.disturbed
      /\ Typed(s.value) /\ Fits(n, s.value) /\ ~f.disturbed => Fits(f, [s.value EXCEPT ![p] = Is(n, n.result)])
      /\ p \in Variables /\ n.content[n.result].type = "Number" => Pointing(f, f.slot[p]) = {p}
  BY <1>2, <1>3, FinitePlaces, MakingAnAssignment
<1> HIDE DEF f
<1>5. f.disturbed \/ Both(e) \/ Fits(f, Assigning(p, e))
  <2>1. CASE ~f.disturbed /\ ~Both(e)
    BY <1>3, <1>4, <2>1
  <2> QED BY <2>1
<1>6. p \notin Unions /\ ~Narrowing(p, e) => Pointing(f, f.slot[p]) = {p}
  BY <1>2, <1>3, <1>4 DEF Narrowing
<1> QED BY <1>1, <1>2, <1>3, <1>4, <1>5, <1>6, EndingAStatement

LEMMA AssignMemberIsRight ==
  ASSUME VInv, Follows, NEW p \in Among(Properties \cup OptionalProperties \cup Elements),
         NEW e \in Fitting(p), AssignMember(p, e)
  PROVE  StatementIsRight
<1> DEFINE n == Computed(e, Machine)
           s == Means(e, value)
           c == IF p \in OptionalProperties THEN Wrapped(n) ELSE n
           f == Store(c, p)
<1>1. Becomes("member", p, e, Assigning(p, e), f)
  BY DEF AssignMember
<1>2. p \in DOMAIN value /\ (p \in OptionalProperties <=> p \in Unions)
  BY KindsAreDistinct DEF Among, Unions
<1>3. /\ Sound(n) /\ Kinds(n) /\ Typed(s.value) /\ Typed(Assigning(p, e))
      /\ Assigning(p, e) = [s.value EXCEPT ![p] = s.result]
      /\ ~n.disturbed /\ ~Both(e) => Fits(n, s.value) /\ Is(n, n.result) = s.result
      /\ IF e.kind = "read" /\ e.p \in Unions THEN IsUnion(n, n.result)
         ELSE n.content[n.result].type = "Number" /\ ~IsUnion(n, n.result)
  BY <1>2, EvaluatingForAPlace
<1> HIDE DEF n, s
<1>4. CASE p \in OptionalProperties
  <2>1. Converts(n, c) /\ IsUnion(c, c.result)
    BY <1>3, <1>4, Wrapping
  <2> HIDE DEF c
  <2>2. /\ Sound(f) /\ Kinds(f)
        /\ f.disturbed \/ Both(e) \/ Fits(f, [s.value EXCEPT ![p] = s.result])
    BY <1>2, <1>3, <1>4, <2>1, StoringAConversion
  <2> HIDE DEF f
  <2> QED BY <1>1, <1>2, <1>3, <2>2, EndingAStatement DEF Copying
<1>5. CASE p \notin OptionalProperties /\ ~IsUnion(n, n.result)
  <2>1. c = n /\ Converts(n, c)
    BY <1>3, <1>5, ConvertingNothing
  <2> HIDE DEF c
  <2>2. /\ Sound(f) /\ Kinds(f)
        /\ f.disturbed \/ Both(e) \/ Fits(f, [s.value EXCEPT ![p] = s.result])
    BY <1>2, <1>3, <1>5, <2>1, StoringAConversion
  <2> HIDE DEF f
  <2> QED BY <1>1, <1>2, <1>3, <2>2, EndingAStatement DEF Copying
<1>6. CASE p \notin OptionalProperties /\ IsUnion(n, n.result)
  <2>1. f = Store(n, p)
    BY <1>6
  <2> HIDE DEF f
  <2>2. Sound(f) /\ Kinds(f)
    BY <1>2, <1>3, <1>6, <2>1, StoringAResult
  <2>3. Narrowing(p, e)
    BY <1>2, <1>3, <1>6 DEF Narrowing
  <2> QED BY <1>1, <1>2, <1>3, <2>2, <2>3, EndingAStatement DEF Copying
<1> QED BY <1>4, <1>5, <1>6

LEMMA AssignUndefinedIsRight ==
  ASSUME VInv, Follows, NEW p \in Among(Unions), AssignUndefined(p)
  PROVE  StatementIsRight
<1> DEFINE r == [Machine EXCEPT !.result = Undefined]
           c == Wrapped(r)
           f == IF p \in Optionals THEN MakeAssignment(r, p) ELSE Store(c, p)
           v == [value EXCEPT ![p] = undefined]
<1>1. Becomes("undefined", p, Literal(0), v, f)
  BY DEF AssignUndefined
<1>2. p \in DOMAIN value /\ p \in Unions
  BY DEF Among
<1>3. r = Machine /\ r.result = Undefined
  <2>1. r = [slot |-> Machine.slot, content |-> Machine.content, result |-> Undefined,
             held |-> Machine.held, disturbed |-> Machine.disturbed]
    BY DEF VInv, Sound
  <2>2. Machine.result = Undefined
    BY DEF Machine
  <2> HIDE DEF r
  <2> QED BY <2>1, <2>2 DEF VInv, Sound
<1> HIDE DEF r
<1>4. Sound(r) /\ Kinds(r) /\ Fits(r, value) /\ Typed(value)
  BY <1>3, BeginningAStatement DEF VInv
<1>5. Is(r, r.result) = undefined
  <2>1. r.content[r.result] = [type |-> "Undefined", is |-> undefined]
    BY <1>3, <1>4 DEF Sound
  <2> QED BY <2>1 DEF Is, IsUnion
<1>6. Typed(v)
  BY <1>2, <1>4 DEF Typed
<1>7. /\ Sound(f) /\ Kinds(f)
      /\ f.disturbed \/ Fits(f, v)
  <2>1. CASE p \in Optionals
    <3>1. f = MakeAssignment(r, p)
      BY <2>1
    <3> HIDE DEF f
    <3>2. /\ Sound(f) /\ Kinds(f)
          /\ ~f.disturbed => Fits(f, [value EXCEPT ![p] = Is(r, r.result)])
      BY <1>2, <1>4, <2>1, <3>1, FinitePlaces, MakingAnAssignment
    <3> QED BY <1>5, <3>2
  <2>2. CASE p \notin Optionals
    <3>1. f = Store(c, p)
      BY <2>2
    <3>2. Converts(r, c) /\ IsUnion(c, c.result)
      BY <1>4, Wrapping
    <3> HIDE DEF c, f
    <3>3. Sound(f) /\ Kinds(f) /\ Fits(f, [value EXCEPT ![p] = Is(c, c.result)])
      BY <1>2, <1>4, <3>1, <3>2, StoringAResult DEF Converts
    <3> QED BY <1>5, <3>2, <3>3 DEF Converts
  <2> QED BY <2>1, <2>2
<1> HIDE DEF f, v
<1> QED BY <1>1, <1>2, <1>6, <1>7, EndingAStatement DEF Copying

LEMMA ObjectLiteralIsRight ==
  ASSUME VInv, Follows, NEW p \in Among(Properties \cup OptionalProperties),
         NEW e \in Fitting(p), ObjectLiteral(p, e)
  PROVE  StatementIsRight
<1> DEFINE n == Computed(e, Machine)
           s == Means(e, value)
           i == Cloned(n)
           c == IF p \in OptionalProperties THEN Wrapped(i) ELSE UnionGet(i)
           f == Store(c, p)
<1>1. Becomes("literal", p, e, Assigning(p, e), f)
  BY DEF ObjectLiteral
<1>2. p \in DOMAIN value /\ (p \in OptionalProperties <=> p \in Unions)
  BY KindsAreDistinct DEF Among, Unions
<1>3. /\ Sound(n) /\ Kinds(n) /\ Typed(s.value) /\ Typed(Assigning(p, e))
      /\ Assigning(p, e) = [s.value EXCEPT ![p] = s.result]
      /\ ~n.disturbed /\ ~Both(e) => Fits(n, s.value) /\ Is(n, n.result) = s.result
      /\ IF e.kind = "read" /\ e.p \in Unions THEN IsUnion(n, n.result)
         ELSE n.content[n.result].type = "Number" /\ ~IsUnion(n, n.result)
  BY <1>2, EvaluatingForAPlace
<1> HIDE DEF n, s
<1>4. Converts(n, i) /\ (IsUnion(i, i.result) <=> IsUnion(n, n.result))
  BY <1>3, Cloning
<1>5. Converts(i, c) /\ (p \in Unions <=> IsUnion(c, c.result)) /\ (~IsUnion(i, i.result) /\ p \notin Unions => c = i)
  BY <1>2, <1>4, Wrapping, Unwrapping DEF Converts
<1>6. Converts(n, c)
  BY <1>4, <1>5, ConvertingTwice
<1>7. /\ Sound(f) /\ Kinds(f)
      /\ f.disturbed \/ Both(e) \/ Fits(f, [s.value EXCEPT ![p] = s.result])
  <2> HIDE DEF c
  <2> QED BY <1>2, <1>3, <1>5, <1>6, StoringAConversion
<1>8. ASSUME p \notin Unions, ~Narrowing(p, e)
      PROVE  Pointing(f, f.slot[p]) = {p}
  <2>1. n.content[n.result].type = "Number" /\ ~IsUnion(n, n.result)
    BY <1>3, <1>8 DEF Narrowing
  <2>2. f = Store(Clone(n), p)
    BY <1>4, <1>5, <1>8, <2>1 DEF Cloned, Type
  <2> HIDE DEF f
  <2>3. p \in DOMAIN value \ Unions /\ Sound(n) /\ Kinds(n)
    BY <1>2, <1>3, <1>8
  <2> QED BY <2>1, <2>2, <2>3, StoringAClone
<1> HIDE DEF f
<1> QED BY <1>1, <1>2, <1>3, <1>7, <1>8, EndingAStatement

LEMMA ArrayLiteralIsRight ==
  ASSUME VInv, Follows, NEW p \in Among(Elements), NEW e \in Fitting(p), ArrayLiteral(p, e)
  PROVE  StatementIsRight
<1> DEFINE n == Computed(e, Machine)
           s == Means(e, value)
           c == UnionGet(n)
           f == Store(c, p)
<1>1. Becomes("array", p, e, Assigning(p, e), f)
  BY DEF ArrayLiteral
<1>2. p \in DOMAIN value /\ p \notin Unions
  BY KindsAreDistinct DEF Among
<1>3. /\ Sound(n) /\ Kinds(n) /\ Typed(s.value) /\ Typed(Assigning(p, e))
      /\ Assigning(p, e) = [s.value EXCEPT ![p] = s.result]
      /\ ~n.disturbed /\ ~Both(e) => Fits(n, s.value) /\ Is(n, n.result) = s.result
      /\ IF e.kind = "read" /\ e.p \in Unions THEN IsUnion(n, n.result)
         ELSE n.content[n.result].type = "Number" /\ ~IsUnion(n, n.result)
  BY <1>2, EvaluatingForAPlace
<1> HIDE DEF n, s
<1>4. Converts(n, c) /\ ~IsUnion(c, c.result)
  BY <1>3, Unwrapping
<1> HIDE DEF c
<1>5. /\ Sound(f) /\ Kinds(f)
      /\ f.disturbed \/ Both(e) \/ Fits(f, [s.value EXCEPT ![p] = s.result])
  BY <1>2, <1>3, <1>4, StoringAConversion
<1> HIDE DEF f
<1> QED BY <1>1, <1>2, <1>3, <1>5, EndingAStatement DEF Copying

LEMMA PushIsRight ==
  ASSUME VInv, Follows, NEW p \in Among(Elements), NEW e \in Operands, Push(p, e)
  PROVE  StatementIsRight
<1> DEFINE n == Computed(e, Machine)
           s == Means(e, value)
           f == Store(Cloned(n), p)
<1>1. Becomes("push", p, e, Assigning(p, e), f)
  BY DEF Push
<1>2. p \in DOMAIN value /\ p \notin Unions /\ e \in Fitting(p)
  BY KindsAreDistinct DEF Among, Fitting
<1>3. /\ Sound(n) /\ Kinds(n) /\ Typed(s.value) /\ Typed(Assigning(p, e))
      /\ Assigning(p, e) = [s.value EXCEPT ![p] = s.result]
      /\ ~n.disturbed /\ ~Both(e) => Fits(n, s.value) /\ Is(n, n.result) = s.result
      /\ IF e.kind = "read" /\ e.p \in Unions THEN IsUnion(n, n.result)
         ELSE n.content[n.result].type = "Number" /\ ~IsUnion(n, n.result)
  BY <1>2, EvaluatingForAPlace
<1>4. ~(e.kind = "read" /\ e.p \in Unions)
  BY DEF Operands, Literal, Read, Prefix, Postfix, Assigned, Numeric
<1> HIDE DEF n, s
<1>5. f = Store(Clone(n), p)
  BY <1>3, <1>4 DEF Cloned, Type
<1> HIDE DEF f
<1>6. /\ Sound(f) /\ Kinds(f)
      /\ f.disturbed \/ Both(e) \/ Fits(f, [s.value EXCEPT ![p] = s.result])
      /\ Pointing(f, f.slot[p]) = {p}
  BY <1>2, <1>3, <1>4, <1>5, StoringANumber
<1> QED BY <1>1, <1>2, <1>3, <1>6, EndingAStatement

(* A place takes what another one of its kind points to.                   *)
LEMMA SharingIsRight ==
  ASSUME VInv, Follows, NEW p \in DOMAIN value, NEW q \in DOMAIN value, p \in Unions <=> q \in Unions,
         NEW by, by \notin Copying, Becomes(by, p, Read(q), Assigning(p, Read(q)), Store(Load(Machine, q), p))
  PROVE  StatementIsRight
<1> DEFINE e == Read(q)
           n == Computed(e, Machine)
           s == Means(e, value)
           f == Store(n, p)
<1>1. Becomes(by, p, e, Assigning(p, e), f)
  <2>1. n = Load(Machine, q)
    <3>1. e.kind = "read" /\ e.p = q
      BY DEF Read
    <3> HIDE DEF e
    <3>2. n = Operand(e, Machine)
      BY <3>1 DEF Computed
    <3>3. Operand(e, Machine) = Load(Machine, e.p)
      BY <3>1 DEF Operand
    <3> QED BY <3>1, <3>2, <3>3
  <2> HIDE DEF n
  <2> QED BY <2>1
<1>2. e \in Fitting(p) /\ e.kind = "read" /\ e.p = q
  <2>1. e.kind = "read" /\ e.p = q
    BY DEF Read
  <2>2. CASE q \in Unions
    BY <2>1, <2>2 DEF Fitting
  <2>3. CASE q \notin Unions
    BY <2>1, <2>3 DEF Fitting, Operands, Numeric
  <2> QED BY <2>1, <2>2, <2>3
<1>3. /\ Sound(n) /\ Kinds(n) /\ Typed(s.value) /\ Typed(Assigning(p, e))
      /\ Assigning(p, e) = [s.value EXCEPT ![p] = s.result]
      /\ ~n.disturbed /\ ~Both(e) => Fits(n, s.value) /\ Is(n, n.result) = s.result
      /\ IF e.kind = "read" /\ e.p \in Unions THEN IsUnion(n, n.result)
         ELSE n.content[n.result].type = "Number" /\ ~IsUnion(n, n.result)
  BY <1>2, EvaluatingForAPlace
<1>4. p \in Unions <=> IsUnion(n, n.result)
  BY <1>2, <1>3
<1> HIDE DEF e, n, s
<1>5. Converts(n, n)
  BY <1>3, ConvertingNothing
<1>6. /\ Sound(f) /\ Kinds(f)
      /\ f.disturbed \/ Both(e) \/ Fits(f, [s.value EXCEPT ![p] = s.result])
  BY <1>3, <1>4, <1>5, StoringAConversion
<1> HIDE DEF f
<1> QED BY <1>1, <1>3, <1>6, EndingAStatement

(* What a machine is made of. *)
Shape(m) == [slot |-> m.slot, content |-> m.content, result |-> m.result, held |-> m.held, disturbed |-> m.disturbed]

LEMMA CompoundAssignIsRight ==
  ASSUME VInv, Follows, NEW p \in Numeric, NEW e \in Expressions, CompoundAssign(p, e)
  PROVE  StatementIsRight
<1> DEFINE h == [Machine EXCEPT !.held = {Machine.slot[p]}]
           r == Computed(e, h)
           s == Means(e, value)
           a == Machine.slot[p]
           o == IF p \in Variables THEN r.slot[p] ELSE a
           is == Sum(r.content[o].is, r.content[r.result].is)
           d == r.disturbed \/ o # a
           g == [r EXCEPT !.held = {}, !.disturbed = d]
           f == Change(g, o, is)
           v == [s.value EXCEPT ![p] = Sum(value[p], s.result)]
<1>1. Becomes("compound", p, e, v, f)
  BY Zenon DEF CompoundAssign, Compound
<1>2. /\ p \in DOMAIN value /\ p \notin Unions
      /\ Proper(Machine) /\ Fits(Machine, value) /\ Typed(value) /\ IsFiniteSet(DOMAIN value)
  BY BeginningAStatement, FinitePlaces DEF Numeric, VInv
<1>3. /\ Proper(h) /\ h.slot = Machine.slot /\ h.content = Machine.content /\ h.held = {a}
      /\ Fits(h, value)
  BY <1>2, Holding
<1>4. ~(e.kind = "read" /\ e.p \in Unions)
  <2>1. e \in Operands => ~(e.kind = "read" /\ e.p \in Unions)
    BY DEF Operands, Literal, Read, Prefix, Postfix, Assigned, Numeric
  <2>2. e \in Selections => e.kind = "or"
    BY DEF Selections, Operator
  <2>3. e \in Expressions => e \in Operands \cup Selections \/ e.kind \in {"add", "or"}
    BY DEF Expressions, Operator
  <2> QED BY <2>1, <2>2, <2>3
<1>5. Calculated(e, h, value, r, s) /\ OfItsType(e, r, s)
  <2> HIDE DEF h
  <2> QED BY <1>2, <1>3, Calculating
<1>a. a \in DOMAIN Machine.content /\ Machine.content[a].type = "Number"
  BY <1>2, NumericPlaces
<1>b. value[p] = Machine.content[a].is
  BY <1>2, <1>a, NumberOf DEF Fits, Proper
<1> HIDE DEF h, r, s, a, v
<1>6. /\ Proper(r) /\ Leaves(h, r) /\ Typed(s.value)
      /\ ~r.disturbed /\ ~Both(e) => Fits(r, s.value) /\ Is(r, r.result) = s.result
      /\ r.content[r.result].type = "Number" /\ s.result \in 0..(Modulus - 1)
      /\ r.disturbed \in BOOLEAN /\ r.result \in DOMAIN r.content
  BY <1>3, <1>4, <1>5 DEF Calculated, OfItsType, Proper, Sound, Object
<1>7. o = r.slot[p]
  BY <1>2, <1>3, <1>6 DEF Leaves, a
<1>8. o \in DOMAIN r.content /\ r.content[o].type = "Number"
  BY <1>6, <1>7, NumericPlaces
<1> HIDE DEF o
<1>9. /\ r.content[o].is \in 0..(Modulus - 1)
      /\ r.content[r.result].is \in 0..(Modulus - 1) /\ Is(r, r.result) = r.content[r.result].is
  BY <1>6, <1>8, NumberOf DEF Proper
<1>10. is \in 0..(Modulus - 1)
  BY <1>9, SumType
<1>11. d \in BOOLEAN
  BY <1>6
<1>12. d = FALSE => ~r.disturbed /\ o = a
  BY <1>6
<1> HIDE DEF d
<1>13. /\ g.slot = r.slot /\ g.content = r.content /\ g.result = r.result /\ g.held = {} /\ g.disturbed = d
       /\ g = [slot |-> g.slot, content |-> g.content, result |-> g.result, held |-> g.held, disturbed |-> g.disturbed]
  <2>1. g = [slot |-> r.slot, content |-> r.content, result |-> r.result, held |-> {}, disturbed |-> d]
    <3>1. r = Shape(r)
      BY <1>6 DEF Proper, Sound, Shape
    <3>2. g = [r EXCEPT !.held = {}, !.disturbed = d]
      OBVIOUS
    <3> HIDE DEF g
    <3> DEFINE k == [r EXCEPT !.held = {}]
    <3>3. k = [slot |-> r.slot, content |-> r.content, result |-> r.result, held |-> {}, disturbed |-> r.disturbed]
      BY <3>1 DEF Shape
    <3>4. g = [k EXCEPT !.disturbed = d]
      BY <3>2
    <3> HIDE DEF k
    <3> QED BY <3>3, <3>4
  <2> HIDE DEF g
  <2> QED BY <2>1
<1> HIDE DEF g
<1>14. Sound(g) /\ Kinds(g) /\ (\A w : Fits(r, w) => Fits(g, w))
  <2>1. Sound(g)
    BY <1>6, <1>11, <1>13 DEF Proper, Sound, Object, IsUnion
  <2>2. Kinds(g)
    BY <1>6, <1>13 DEF Proper, Kinds, IsUnion
  <2>3. \A w : Fits(r, w) => Fits(g, w)
    BY <1>13 DEF Fits, Is, IsUnion
  <2> QED BY <2>1, <2>2, <2>3
<1> HIDE DEF is
<1>15. /\ Sound(f) /\ f.slot = g.slot
       /\ f.content[o] = [type |-> g.content[o].type, is |-> is]
       /\ ~f.disturbed => ~g.disturbed
  BY <1>8, <1>10, <1>13, <1>14, Changing
<1>16. /\ Kinds(f)
       /\ \A x \in DOMAIN g.content : (IsUnion(f, x) <=> IsUnion(g, x))
       /\ ~f.disturbed =>
            \A q \in Pointing(g, o) : \A t \in DOMAIN value \ {q} : Is(f, f.slot[t]) = Is(g, g.slot[t])
  BY <1>2, <1>8, <1>10, <1>13, <1>14, ChangingOne
<1> HIDE DEF f
<1>17. p \in Pointing(g, o)
  BY <1>2, <1>7, <1>13, <1>14 DEF Pointing, PointsTo, Sound
<1>18. Is(f, o) = is
  BY <1>8, <1>13, <1>15 DEF Is, IsUnion
<1>19. ASSUME ~f.disturbed, ~Both(e)
       PROVE  Fits(f, v)
  <2>1. ~d
    BY <1>13, <1>15, <1>19
  <2>2. ~r.disturbed /\ o = a
    BY <1>11, <1>12, <2>1
  <2>3. Fits(r, s.value) /\ r.content[r.result].is = s.result
    BY <1>6, <1>9, <1>19, <2>2
  <2>4. r.content[o] = h.content[o]
    BY <1>3, <1>6, <1>a, <2>2 DEF Leaves
  <2>5. is = Sum(value[p], s.result)
    BY <1>3, <1>b, <2>2, <2>3, <2>4 DEF is
  <2>6. \A t \in DOMAIN value \ {p} : Is(f, f.slot[t]) = s.value[t]
    BY <1>14, <1>16, <1>17, <1>19, <2>3 DEF Fits
  <2>7. \A t \in DOMAIN value : IsUnion(f, f.slot[t]) => t \in Unions
    <3>1. Fits(g, s.value) /\ \A t \in DOMAIN value : g.slot[t] \in DOMAIN g.content
      BY <1>14, <2>3 DEF Sound, Object
    <3> QED BY <1>15, <1>16, <3>1 DEF Fits
  <2>8. DOMAIN s.value = DOMAIN value
    BY <1>6 DEF Typed
  <2>9. Is(f, f.slot[p]) = v[p]
    BY <1>2, <1>7, <1>13, <1>15, <1>18, <2>5, <2>8 DEF v
  <2>10. \A t \in DOMAIN value \ {p} : v[t] = s.value[t]
    BY <2>8 DEF v
  <2> QED BY <2>6, <2>7, <2>9, <2>10 DEF Fits
<1>20. Typed(v)
  <2>1. value[p] \in 0..(Modulus - 1)
    BY <1>2 DEF Typed
  <2>2. Sum(value[p], s.result) \in 0..(Modulus - 1)
    BY <1>6, <2>1, SumType
  <2> QED BY <1>2, <1>6, <2>2 DEF Typed, v
<1>21. f.disturbed \/ Both(e) \/ Fits(f, v)
  BY <1>19
<1> QED BY <1>1, <1>2, <1>15, <1>16, <1>20, <1>21, EndingAStatement DEF Copying

LEMMA DestructureIsRight ==
  ASSUME VInv, Follows, NEW p \in Among(Variables), NEW q \in Among(Variables), p # q,
         NEW b \in Operands, NEW e \in Operands, Destructure(p, q, b, e)
  PROVE  StatementIsRight
<1> DEFINE l == Computed(b, Machine)
           h == [l EXCEPT !.held = {l.result}]
           r == Computed(e, h)
           s == Means(b, value)
           t == Means(e, s.value)
           f == [r EXCEPT !.slot[p] = l.result, !.slot[q] = r.result]
           v == [t.value EXCEPT ![p] = s.result, ![q] = t.result]
<1>1. Becomes("destructure", p, e, v, f)
  BY DEF Destructure
<1>2. /\ p \in DOMAIN value /\ p \notin Unions /\ q \in DOMAIN value /\ q \notin Unions
      /\ Proper(Machine) /\ Fits(Machine, value) /\ Typed(value) /\ IsFiniteSet(DOMAIN value)
  BY BeginningAStatement, FinitePlaces, KindsAreDistinct DEF Among, VInv
<1>3. /\ ~(b.kind = "read" /\ b.p \in Unions) /\ ~Both(b)
      /\ ~(e.kind = "read" /\ e.p \in Unions) /\ ~Both(e)
  BY DEF Operands, Literal, Read, Prefix, Postfix, Assigned, Numeric, Both
<1>4. Calculated(b, Machine, value, l, s) /\ OfItsType(b, l, s)
  BY <1>2, Calculating
<1> HIDE DEF l, s
<1>5. /\ Proper(l) /\ Typed(s.value) /\ l.result \in DOMAIN l.content
      /\ l.content[l.result].type = "Number" /\ s.result \in 0..(Modulus - 1)
      /\ ~l.disturbed => Fits(l, s.value) /\ Is(l, l.result) = s.result
  BY <1>2, <1>3, <1>4 DEF Calculated, OfItsType, Proper, Sound, Object
<1>6. /\ Proper(h) /\ h.content = l.content /\ h.held = {l.result} /\ h.disturbed = l.disturbed
      /\ \A w : Fits(l, w) <=> Fits(h, w)
  BY <1>5, Holding
<1> HIDE DEF h
<1>7. Calculated(e, h, s.value, r, t) /\ OfItsType(e, r, t)
  BY <1>2, <1>5, <1>6, Calculating
<1> HIDE DEF r, t
<1>8. /\ Proper(r) /\ Leaves(h, r) /\ Typed(t.value) /\ r.result \in DOMAIN r.content
      /\ r.content[r.result].type = "Number" /\ t.result \in 0..(Modulus - 1)
      /\ Fits(h, s.value) /\ ~r.disturbed => Fits(r, t.value) /\ Is(r, r.result) = t.result
  BY <1>3, <1>7 DEF Calculated, OfItsType, Proper, Sound, Object
<1>9. l.result \in DOMAIN r.content /\ r.content[l.result].type = "Number"
  BY <1>5, <1>6, <1>8 DEF Leaves
<1>10. f = [slot |-> [x \in DOMAIN value |-> IF x = q THEN r.result ELSE IF x = p THEN l.result ELSE r.slot[x]],
            content |-> r.content, result |-> r.result, held |-> r.held, disturbed |-> r.disturbed]
  <2>1. f = [slot |-> [[r.slot EXCEPT ![p] = l.result] EXCEPT ![q] = r.result],
             content |-> r.content, result |-> r.result, held |-> r.held, disturbed |-> r.disturbed]
    <3>1. r = Shape(r)
      BY <1>8 DEF Proper, Sound, Shape
    <3>2. f = [r EXCEPT !.slot[p] = l.result, !.slot[q] = r.result]
      OBVIOUS
    <3> HIDE DEF f
    <3> DEFINE x == l.result
               y == r.result
               k == [r EXCEPT !.slot[p] = x]
    <3>3. k = [slot |-> [r.slot EXCEPT ![p] = x], content |-> r.content, result |-> r.result, held |-> r.held,
               disturbed |-> r.disturbed]
      BY <3>1 DEF Shape
    <3>4. f = [k EXCEPT !.slot[q] = y]
      BY <3>2
    <3> HIDE DEF k
    <3>5. k.slot = [r.slot EXCEPT ![p] = x]
      BY <3>3
    <3>6. f = [slot |-> [k.slot EXCEPT ![q] = y], content |-> r.content, result |-> r.result, held |-> r.held,
               disturbed |-> r.disturbed]
      BY <3>3, <3>4
    <3> QED BY <3>5, <3>6
  <2>2. [[r.slot EXCEPT ![p] = l.result] EXCEPT ![q] = r.result]
          = [x \in DOMAIN value |-> IF x = q THEN r.result ELSE IF x = p THEN l.result ELSE r.slot[x]]
    BY <1>2, <1>8 DEF Proper, Sound
  <2> QED BY <2>1, <2>2
<1> HIDE DEF f
<1>11. /\ f.content = r.content /\ f.result = r.result /\ f.held = r.held /\ f.disturbed = r.disturbed
       /\ f.slot = [x \in DOMAIN value |-> f.slot[x]]
       /\ f.slot[q] = r.result /\ f.slot[p] = l.result
       /\ \A x \in DOMAIN value \ {p, q} : f.slot[x] = r.slot[x]
       /\ f = [slot |-> f.slot, content |-> f.content, result |-> f.result, held |-> f.held, disturbed |-> f.disturbed]
  BY <1>2, <1>10
<1>12. Sound(f)
  <2>1. \A x \in DOMAIN value : f.slot[x] \in DOMAIN r.content
    BY <1>8, <1>9, <1>11 DEF Proper, Sound, Object
  <2> QED BY <1>8, <1>11, <2>1 DEF Proper, Sound, Object, IsUnion
<1>13. Kinds(f)
  <2>1. \A x \in DOMAIN value \cap Unions : f.slot[x] = r.slot[x]
    BY <1>2, <1>11
  <2> QED BY <1>8, <1>11, <2>1 DEF Proper, Kinds, IsUnion, Unions
<1>14. ASSUME ~f.disturbed
       PROVE  Fits(f, v)
  <2>1. ~l.disturbed /\ ~r.disturbed /\ r.content[l.result] = l.content[l.result]
    BY <1>5, <1>6, <1>8, <1>11, <1>14 DEF Leaves
  <2>2. Fits(r, t.value) /\ Is(r, r.result) = t.result /\ Is(l, l.result) = s.result
    BY <1>5, <1>6, <1>8, <2>1
  <2>3. Is(r, l.result) = s.result /\ ~IsUnion(r, l.result) /\ ~IsUnion(r, r.result)
    BY <1>5, <1>8, <1>9, <2>1, <2>2 DEF Is, IsUnion
  <2>4. DOMAIN t.value = DOMAIN value
    BY <1>8 DEF Typed
  <2>5. v[p] = s.result /\ v[q] = t.result /\ \A x \in DOMAIN value \ {p, q} : v[x] = t.value[x]
    BY <1>2, <2>4
  <2>6. \A x \in DOMAIN value : Is(f, f.slot[x]) = Is(r, f.slot[x]) /\ (IsUnion(f, f.slot[x]) <=> IsUnion(r, f.slot[x]))
    BY <1>11 DEF Is, IsUnion
  <2> HIDE DEF v
  <2> QED BY <1>11, <2>2, <2>3, <2>5, <2>6 DEF Fits
<1>15. Typed(v)
  BY <1>2, <1>5, <1>8 DEF Typed
<1> HIDE DEF v
<1>16. f.disturbed \/ Fits(f, v)
  BY <1>14
<1> QED BY <1>1, <1>2, <1>12, <1>13, <1>15, <1>16, EndingAStatement DEF Copying

-----------------------------------------------------------------------------

(* The first state of a program                                            *)
LEMMA BeginningTheProgram == ValuesInit => VInv
<1> SUFFICES ASSUME NEW places \in PlaceSets, Begin(places)
             PROVE  VInv
  BY DEF ValuesInit
<1> USE DEF Begin
<1>1. places \subseteq Places /\ IsFiniteSet(places) /\ DOMAIN value = places
  BY PlaceSetsAssumption
<1>2. \A p \in places : Own(p) \in Nat /\ Own(p) # Undefined
  BY <1>1, PlacesGiveNames
<1>3. DOMAIN content = {Undefined} \cup {Own(p) : p \in places \ OptionalProperties}
  OBVIOUS
<1>4. content[Undefined] = [type |-> "Undefined", is |-> undefined] /\ Undefined \in DOMAIN content
  OBVIOUS
<1>5. IsFiniteSet(DOMAIN content) /\ DOMAIN content \subseteq Nat
  <2> DEFINE S == places \ OptionalProperties
             T == {Own(p) : p \in S}
             f == [p \in S |-> Own(p)]
  <2>1. f \in Surjection(S, T)
    BY DEF Surjection
  <2>2. IsFiniteSet(S)
    BY <1>1, FS_Subset
  <2>3. IsFiniteSet(T)
    BY <2>1, <2>2, FS_Surjection
  <2>4. T \subseteq Nat
    BY <1>2
  <2>5. DOMAIN content = T \cup {Undefined} /\ Undefined \in Nat
    BY <1>3 DEF Undefined
  <2> HIDE DEF T
  <2> QED BY <2>3, <2>4, <2>5, FS_AddElement
<1>6. \A o \in DOMAIN content \ {Undefined} : content[o] = Union(Undefined) \/ content[o] = Number(0)
  OBVIOUS
<1>7. \A p \in places \cap Optionals : slot[p] = Own(p) /\ content[slot[p]] = Union(Undefined)
  <2>1. \A p \in places \cap Optionals : p \notin OptionalProperties
    BY KindsAreDistinct
  <2> QED BY <1>2, <2>1
<1>8. \A p \in places \cap OptionalProperties : slot[p] = Undefined
  OBVIOUS
<1>9. \A p \in places : slot[p] \in DOMAIN content
  OBVIOUS
<1>10. value = [p \in DOMAIN value |-> value[p]] /\ slot = [p \in DOMAIN value |-> slot[p]]
       /\ content = [o \in DOMAIN content |-> content[o]]
  BY <1>1
<1>11. Typed(value)
  <2>1. 0 \in 0..(Modulus - 1)
    BY ModulusAssumption
  <2>2. \A p \in DOMAIN value : (p \in Unions /\ value[p] = undefined) \/ value[p] = 0
    OBVIOUS
  <2> QED BY <1>10, <2>1, <2>2 DEF Typed
<1>12. /\ Machine = [slot |-> Machine.slot, content |-> Machine.content, result |-> Machine.result,
                     held |-> Machine.held, disturbed |-> Machine.disturbed]
       /\ Machine.slot = slot /\ Machine.content = content /\ Machine.result = Undefined /\ Machine.disturbed = FALSE
  BY DEF Machine
<1> HIDE DEF Begin
<1>13. \A o \in DOMAIN content \ {Undefined} :
         /\ content[o] = [type |-> content[o].type, is |-> content[o].is]
         /\ \/ content[o].type = "Number" /\ content[o].is \in 0..(Modulus - 1)
            \/ content[o].type = "Union" /\ content[o].is = Undefined
  <2>1. 0 \in 0..(Modulus - 1)
    BY ModulusAssumption
  <2> QED BY <1>6, <2>1 DEF Union, Number
<1>14. content[Undefined].type # "Union"
  BY <1>4
<1>15. Sound(Machine)
  <2>1. \A o \in DOMAIN Machine.content \ {Undefined} :
          /\ Machine.content[o] = [type |-> Machine.content[o].type, is |-> Machine.content[o].is]
          /\ \/ Machine.content[o].type = "Number" /\ Machine.content[o].is \in 0..(Modulus - 1)
             \/ IsUnion(Machine, o) /\ Object(Machine, Machine.content[o].is) /\ ~IsUnion(Machine, Machine.content[o].is)
    BY <1>4, <1>12, <1>13, <1>14 DEF IsUnion, Object
  <2>2. \A p \in DOMAIN value : Object(Machine, Machine.slot[p])
    BY <1>1, <1>9, <1>12 DEF Object
  <2>3. /\ Machine.disturbed \in BOOLEAN
        /\ Object(Machine, Machine.result) /\ Object(Machine, Undefined)
        /\ Machine.content[Undefined] = [type |-> "Undefined", is |-> undefined]
    BY <1>4, <1>12 DEF Object
  <2>4. /\ Machine.slot = [p \in DOMAIN value |-> Machine.slot[p]]
        /\ Machine.content = [o \in DOMAIN Machine.content |-> Machine.content[o]]
        /\ IsFiniteSet(DOMAIN Machine.content) /\ DOMAIN Machine.content \subseteq Nat
    BY <1>5, <1>10, <1>12
  <2> QED BY <1>12, <2>1, <2>2, <2>3, <2>4 DEF Sound
<1>16. Kinds(Machine)
  BY <1>1, <1>7, <1>8, <1>12 DEF Kinds, IsUnion, Union
<1> QED BY <1>1, <1>11, <1>15, <1>16 DEF VInv

(* All statements together                                                 *)
LEMMA EveryStatementIsRight ==
  ASSUME VInv, ValuesNext
  PROVE  StatementIsRight
<1>1. Follows /\ Computation
  BY DEF ValuesNext
<1>2. ASSUME NEW p \in Among(Variables \cup Optionals), NEW e \in Fitting(p), Declare(p, e) \/ AssignVariable(p, e)
      PROVE  StatementIsRight
  BY <1>1, <1>2, DeclareIsRight, AssignVariableIsRight
<1>3. ASSUME NEW p \in Among(Variables), NEW e \in Expressions, AssignVariable(p, e)
      PROVE  StatementIsRight
  <2>1. p \in Among(Variables \cup Optionals)
    BY DEF Among
  <2> QED BY <1>1, <1>3, <2>1, AssignVariableIsRight
<1>4. ASSUME NEW p \in Among(Properties \cup OptionalProperties \cup Elements), NEW e \in Fitting(p), AssignMember(p, e)
      PROVE  StatementIsRight
  BY <1>1, <1>4, AssignMemberIsRight
<1>5. ASSUME NEW p \in Among(Unions), AssignUndefined(p)
      PROVE  StatementIsRight
  BY <1>1, <1>5, AssignUndefinedIsRight
<1>6. ASSUME NEW p \in Numeric, NEW e \in Expressions, CompoundAssign(p, e)
      PROVE  StatementIsRight
  BY <1>1, <1>6, CompoundAssignIsRight
<1>7. ASSUME NEW p \in Among(Properties \cup OptionalProperties), NEW e \in Fitting(p), ObjectLiteral(p, e)
      PROVE  StatementIsRight
  BY <1>1, <1>7, ObjectLiteralIsRight
<1>8. ASSUME NEW p, NEW q, \/ p \in Among(Properties) /\ q \in Among(Variables)
                           \/ p \in Among(OptionalProperties) /\ q \in Among(Optionals),
             Shorthand(p, q)
      PROVE  StatementIsRight
  <2>1. p \in DOMAIN value /\ q \in DOMAIN value /\ (p \in Unions <=> q \in Unions)
    BY <1>8, KindsAreDistinct DEF Among, Unions
  <2> QED BY <1>1, <1>8, <2>1, SharingIsRight DEF Shorthand, Copying
<1>9. ASSUME NEW p \in Among(Elements), NEW e \in Fitting(p), ArrayLiteral(p, e)
      PROVE  StatementIsRight
  BY <1>1, <1>9, ArrayLiteralIsRight
<1>10. ASSUME NEW p \in Among(Elements), NEW e \in Operands, Push(p, e)
       PROVE  StatementIsRight
  BY <1>1, <1>10, PushIsRight
<1>11. ASSUME NEW p \in Among(Variables), NEW q \in Among(Variables), NEW b \in Operands, NEW e \in Operands,
              p # q, Destructure(p, q, b, e)
       PROVE  StatementIsRight
  BY <1>1, <1>11, DestructureIsRight
<1>12. ASSUME NEW p \in Among(Variables), NEW q \in Among(Elements), BindElement(p, q)
       PROVE  StatementIsRight
  <2>1. p \in DOMAIN value /\ q \in DOMAIN value /\ (p \in Unions <=> q \in Unions)
    BY KindsAreDistinct DEF Among
  <2> QED BY <1>1, <1>12, <2>1, SharingIsRight DEF BindElement, Copying
<1> QED BY <1>1, <1>2, <1>3, <1>4, <1>5, <1>6, <1>7, <1>8, <1>9, <1>10, <1>11, <1>12 DEF Computation

(* Every state of every program has memory in good order.                  *)
THEOREM MemoryStaysSound == ValuesSpec => []VInv
<1>1. ValuesInit => VInv
  BY BeginningTheProgram
<1>2. VInv /\ [ValuesNext]_valuesVars => VInv'
  <2>1. CASE ValuesNext
    BY <2>1, EveryStatementIsRight DEF StatementIsRight
  <2>2. CASE UNCHANGED valuesVars
    BY <2>2 DEF valuesVars, VInv, Typed, Sound, Kinds, Object, IsUnion, Machine
  <2> QED BY <2>1, <2>2
<1> QED BY <1>1, <1>2, PTL DEF ValuesSpec

(* Although places share objects that are changed in place, each place     *)
(* holds what the program says after every statement, but for the          *)
(* statements that change an object something else points to, evaluate an  *)
(* operand of || in vain, or store a narrowed union as a member.           *)
THEOREM PlacesHoldTheProgram == ValuesSpec => ValuesAreKept
<1>1. VInv /\ [ValuesNext]_valuesVars => [Follows' \/ last'.unlike]_valuesVars
  BY EveryStatementIsRight DEF StatementIsRight
<1> QED BY <1>1, MemoryStaysSound, PTL DEF ValuesSpec, ValuesAreKept

(* Wherever the compiler clones a number into a variable or a property, no *)
(* other place points to it afterwards, directly or through a Union.       *)
THEOREM CopiesShareNothing == ValuesSpec => CopiesAreIndependent
<1>1. VInv /\ [ValuesNext]_valuesVars
        => [\A p \in last'.copied : Pointing(Machine', slot'[p]) = {p}]_valuesVars
  BY EveryStatementIsRight DEF StatementIsRight
<1> QED BY <1>1, MemoryStaysSound, PTL DEF ValuesSpec, CopiesAreIndependent
=============================================================================
