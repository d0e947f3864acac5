-------------------------- MODULE OptionalParameters ---------------------------
(***************************************************************************)
(* The parameters of a closure that are optional: the compiler writes them *)
(* into a mask (BuiltinTSClosure.createClosure), and code in C++ that sets *)
(* an argument of the closure asks the mask (TSClosure) whether the cell   *)
(* of the environment holds a Union, whose value is set, or an object,     *)
(* which is replaced.                                                      *)
(***************************************************************************)
EXTENDS Naturals

CONSTANTS Counts,     \* numbers of parameters
          Places      \* places that are optional or set (bound)

Width == 32           \* of << in TypeScript, and of uint32_t
Limit == 63           \* of the parameters

ASSUME PlacesAssumption == Counts \subseteq Nat /\ Places \subseteq Nat

VARIABLES
  count,       \* number of parameters, 0 before the closure is there
  optionals,   \* the places of those with a question token
  mask,        \* TSClosure::_optionals, the bits that are set
  elements     \* what the cells of the environment hold

optionalsVars == <<count, optionals, mask, elements>>

OptionalsInit == count = 0 /\ optionals = {} /\ mask = {} /\ elements = <<>>

(* acc |= 1 << index: the shift takes the index modulo the width. *)
Bits(places) == {i % Width : i \in places}

(* The mask travels as a double.  With bit 31 it is negative, and what     *)
(* uint32_t makes of a negative double is undefined: the same bits on some *)
(* processors, none on others.                                             *)
Converted(bits) == IF 31 \in bits THEN {bits, {}} ELSE {bits}

CreateClosure ==
  /\ count = 0
  /\ \E n \in Counts \ {0} : \E places \in SUBSET (Places \cap 0..(n - 1)) :
       /\ n <= Limit
       /\ count' = n
       /\ optionals' = places
       /\ mask' \in Converted(Bits(places))
       /\ elements' = [i \in Places \cap 0..(n - 1) |-> IF i \in places THEN "union" ELSE "object"]

(* 1 << index of C++ is undefined from 32 on: modulo the width, or nothing. *)
Asked(index) == IF index < Width THEN {index \in mask} ELSE {(index % Width) \in mask, FALSE}

(* Fault: the mask is not asked. *)
ReplaceElement(index) == elements' = [elements EXCEPT ![index] = "object"]

SetElement(index) ==
  \E optional \in Asked(index) :
    elements' = [elements EXCEPT ![index] =
                   IF ~optional THEN "object" ELSE IF @ = "union" THEN @ ELSE "broken"]

SetEnvironmentElement ==
  /\ \E index \in DOMAIN elements : count > 0 /\ SetElement(index)
  /\ UNCHANGED <<count, optionals, mask>>

OptionalsNext == CreateClosure \/ SetEnvironmentElement

OptionalsSpec == OptionalsInit /\ [][OptionalsNext]_optionalsVars

-----------------------------------------------------------------------------

(* The body of a closure with fewer parameters than the mask has bits,     *)
(* which is compiled for a Union where and only where a parameter is       *)
(* optional, finds one there whatever C++ code has set; no object is       *)
(* written to as if it were a Union.                                       *)
KindsAreKept ==
  count < Width =>
    \A i \in DOMAIN elements : elements[i] = IF i \in optionals THEN "union" ELSE "object"
=============================================================================
