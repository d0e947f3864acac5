------------------------ MODULE OptionalParametersProofs -----------------------
(***************************************************************************)
(* Up to 31 parameters the mask of a closure says what it is meant to say. *)
(***************************************************************************)
EXTENDS OptionalParameters, TLAPS

(* Below the width the bits are the places themselves, and none of them is *)
(* the sign.                                                               *)
IInv ==
  /\ count \in Nat
  /\ count < Width =>
       /\ DOMAIN elements \subseteq 0..(Width - 2)
       /\ \A i \in 0..(Width - 2) : i \in mask <=> i \in optionals
       /\ KindsAreKept

(* A place below the width is its own bit.                                 *)
LEMMA BitsOfPlaces ==
  ASSUME NEW places \in SUBSET (0..(Width - 2))
  PROVE  /\ \A i \in 0..(Width - 2) : i \in Bits(places) <=> i \in places
         /\ 31 \notin Bits(places)
<1>1. \A i \in places : i % Width = i
  BY DEF Width
<1>2. Bits(places) = places
  BY <1>1 DEF Bits
<1> QED BY <1>2 DEF Width

LEMMA InitIInv == OptionalsInit => IInv
BY DEF OptionalsInit, IInv, KindsAreKept, Width

LEMMA NextIInv ==
  ASSUME IInv, [OptionalsNext]_optionalsVars
  PROVE  IInv'
<1> USE PlacesAssumption
<1>1. CASE CreateClosure
  <2>1. PICK n \in Counts \ {0} : \E places \in SUBSET (Places \cap 0..(n - 1)) :
          /\ count' = n
          /\ optionals' = places
          /\ mask' \in Converted(Bits(places))
          /\ elements' = [i \in Places \cap 0..(n - 1) |-> IF i \in places THEN "union" ELSE "object"]
    BY <1>1 DEF CreateClosure
  <2>2. n \in Nat /\ count' = n
    BY <2>1
  <2>3. PICK places \in SUBSET (Places \cap 0..(n - 1)) :
          /\ optionals' = places
          /\ mask' \in Converted(Bits(places))
          /\ elements' = [i \in Places \cap 0..(n - 1) |-> IF i \in places THEN "union" ELSE "object"]
    BY <2>1
  <2>4. ASSUME n < Width
        PROVE  /\ DOMAIN elements' \subseteq 0..(Width - 2)
               /\ \A i \in 0..(Width - 2) : i \in mask' <=> i \in optionals'
    <3>1. 0..(n - 1) \subseteq 0..(Width - 2)
      BY <2>2, <2>4 DEF Width
    <3>2. places \in SUBSET (0..(Width - 2))
      BY <3>1
    <3>3. mask' = Bits(places)
      BY <2>3, <3>2, BitsOfPlaces DEF Converted
    <3> QED BY <2>3, <3>1, <3>2, <3>3, BitsOfPlaces
  <2>5. KindsAreKept'
    BY <2>3 DEF KindsAreKept
  <2> QED BY <2>2, <2>4, <2>5 DEF IInv
<1>2. CASE SetEnvironmentElement
  <2>1. PICK index \in DOMAIN elements : SetElement(index)
    BY <1>2 DEF SetEnvironmentElement
  <2>2. count' = count /\ optionals' = optionals /\ mask' = mask
    BY <1>2 DEF SetEnvironmentElement
  <2>3. ASSUME count < Width
        PROVE  DOMAIN elements' = DOMAIN elements /\ \A i \in DOMAIN elements : elements'[i] = elements[i]
    <3>1. index \in 0..(Width - 2) /\ index < Width
      BY <2>1, <2>3 DEF IInv, Width
    <3>2. Asked(index) = {index \in optionals}
      BY <2>3, <3>1 DEF Asked, IInv
    <3>3. elements' = [elements EXCEPT ![index] =
                         IF index \notin optionals THEN "object"
                         ELSE IF @ = "union" THEN @ ELSE "broken"]
      BY <2>1, <3>2 DEF SetElement
    <3>4. elements[index] = IF index \in optionals THEN "union" ELSE "object"
      BY <2>1, <2>3 DEF IInv, KindsAreKept
    <3> QED BY <2>1, <3>3, <3>4
  <2> QED BY <2>2, <2>3 DEF IInv, KindsAreKept
<1>3. CASE UNCHANGED optionalsVars
  BY <1>3 DEF optionalsVars, IInv, KindsAreKept
<1> QED BY <1>1, <1>2, <1>3 DEF OptionalsNext

(* With fewer parameters than the mask has bits, whichever are optional    *)
(* and whatever is set in whatever order, each cell of the environment     *)
(* holds what the body of the closure was compiled for.                    *)
THEOREM NarrowKindsAreKept == OptionalsSpec => []KindsAreKept
<1>1. OptionalsInit => IInv
  BY InitIInv
<1>2. IInv /\ [OptionalsNext]_optionalsVars => IInv'
  BY NextIInv
<1>3. IInv => KindsAreKept
  BY DEF IInv, KindsAreKept
<1> QED BY <1>1, <1>2, <1>3, PTL DEF OptionalsSpec
=============================================================================
