---------------------------- MODULE RejectionProofs ----------------------------
(***************************************************************************)
(* The handlers and the check that each block ends turn down no other      *)
(* programs than those that HasReason names: a proof for every program.    *)
(* It follows the handlers once more, but whatever the jumps of the        *)
(* program find on the stacks: each block that is not expected to go on    *)
(* has been ended, and a block that has been ended is left where no        *)
(* statement can follow.                                                   *)
(***************************************************************************)
EXTENDS ControlFlowProperties, HeldResourcesProofs

-----------------------------------------------------------------------------
(* Where control ends, for any program t *)

KidsIn(t, n, slot) == {k \in 1..Len(t) : t[k].parent = n /\ t[k].slot = slot}
LastIn(t, n, slot) == CHOOSE k \in KidsIn(t, n, slot) : \A j \in KidsIn(t, n, slot) : j <= k
JumpsIn(t, n, kind) ==
  {j \in 1..Len(t) : t[j].kind = kind /\ NearestIn(t, j, LoopKinds \cup (IF kind = "break" THEN {"switch"} ELSE {})) = n}

(* What Completes says of n, if f says it of the nodes after n. *)
CompletesBy(t, f, n) ==
  LET ListCompletes(slot) == KidsIn(t, n, slot) = {} \/ f[LastIn(t, n, slot)]
      HasBreak == JumpsIn(t, n, "break") # {}
      node == t[n]
  IN \/ node.kind \in (LeafKinds \ JumpKinds) \cup {"while", "forof", "forin"}
     \/ node.kind \in {"function", "block"} /\ ListCompletes(1)
     \/ node.kind = "if" /\ ("else" \notin node.opts \/ ListCompletes(1) \/ ListCompletes(2))
     \/ node.kind = "for" /\ ("cond" \in node.opts \/ HasBreak)
     \/ node.kind = "do" /\ (ListCompletes(1) \/ JumpsIn(t, n, "continue") # {} \/ HasBreak)
     \/ /\ node.kind = "switch"
        /\ \/ HasBreak
           \/ ~\E i \in 1..Len(node.clauses) : node.clauses[i] = "default"
           \/ ListCompletes(Len(node.clauses))
     \/ node.kind = "try" /\ (ListCompletes(1) \/ ("catch" \in node.opts /\ ListCompletes(2)))
CompletesIn(t) == LET f[n \in 1..Len(t)] == CompletesBy(t, f, n) IN f

LEMMA CompletesAre == Completes = CompletesIn(tree)
BY DEF Completes, CompletesIn, CompletesBy, Kids, KidsIn, LastKid, LastIn, JumpsTo, JumpsIn, Nearest, NearestIn,
       Highest, Found, Above, Ancestors, Climb

(* The last statement of a list. *)
LEMMA LastIs ==
  ASSUME NEW t, Shaped(t), NEW n, NEW slot
  PROVE  /\ KidsIn(t, n, slot) # {} =>
              /\ LastIn(t, n, slot) \in KidsIn(t, n, slot)
              /\ \A j \in KidsIn(t, n, slot) : j <= LastIn(t, n, slot)
         /\ \A k \in KidsIn(t, n, slot) : k \in 1..Len(t) /\ n \in 0..(k - 1) /\ t[k].parent = n /\ t[k].slot = slot
<1>1. Len(t) \in Nat /\ \A k \in 1..Len(t) : t[k].parent \in 0..(k - 1)
  BY ShapedIsRooted DEF Rooted
<1>2. \A k \in KidsIn(t, n, slot) : k \in 1..Len(t) /\ n \in 0..(k - 1) /\ t[k].parent = n /\ t[k].slot = slot
  BY <1>1 DEF KidsIn
<1>3. ASSUME KidsIn(t, n, slot) # {}
      PROVE  /\ LastIn(t, n, slot) \in KidsIn(t, n, slot)
             /\ \A j \in KidsIn(t, n, slot) : j <= LastIn(t, n, slot)
  <2> DEFINE K == KidsIn(t, n, slot)
  <2>1. K \in SUBSET (0..Len(t)) /\ K # {}
    BY <1>1, <1>2, <1>3
  <2> HIDE DEF K
  <2>2. \E x \in K : \A y \in K : y <= x
    BY <1>1, <2>1, Greatest
  <2> QED BY <2>2 DEF K, LastIn
<1> QED BY <1>2, <1>3

(* Whether a statement completes depends on those inside it. *)
LEMMA CompletesLater ==
  ASSUME NEW t, Shaped(t), NEW f, NEW g, NEW n \in 1..Len(t), \A k \in (n + 1)..Len(t) : f[k] = g[k]
  PROVE  CompletesBy(t, f, n) = CompletesBy(t, g, n)
<1>1. Len(t) \in Nat
  BY ShapedIsRooted
<1>2. \A slot : KidsIn(t, n, slot) # {} => LastIn(t, n, slot) \in (n + 1)..Len(t)
  <2> SUFFICES ASSUME NEW slot, KidsIn(t, n, slot) # {} PROVE LastIn(t, n, slot) \in (n + 1)..Len(t)
    OBVIOUS
  <2>1. LastIn(t, n, slot) \in KidsIn(t, n, slot)
    BY LastIs
  <2>2. LastIn(t, n, slot) \in 1..Len(t) /\ n \in 0..(LastIn(t, n, slot) - 1)
    BY <2>1, LastIs
  <2> QED BY <1>1, <2>2
<1>3. \A slot : KidsIn(t, n, slot) = {} \/ f[LastIn(t, n, slot)] = g[LastIn(t, n, slot)]
  BY <1>2
<1> DEFINE done(slot) == KidsIn(t, n, slot) = {} \/ f[LastIn(t, n, slot)]
           over(slot) == KidsIn(t, n, slot) = {} \/ g[LastIn(t, n, slot)]
<1>4. \A slot : done(slot) = over(slot)
  BY <1>3
<1> QED BY <1>4 DEF CompletesBy

LEMMA CompletesBoolean ==
  ASSUME NEW t, NEW f, NEW n
  PROVE  CompletesBy(t, f, n) \in BOOLEAN
BY DEF CompletesBy

(* The function that Completes describes exists. *)
LEMMA CompletesIs ==
  ASSUME NEW t, Shaped(t)
  PROVE  \A n \in 1..Len(t) : CompletesIn(t)[n] = CompletesBy(t, CompletesIn(t), n)
<1> DEFINE L == Len(t)
           Fitting(m, f) == f \in [1..L -> BOOLEAN] /\ \A n \in m..L : f[n] = CompletesBy(t, f, n)
           Low == {m \in 1..(L + 1) : \E f : Fitting(m, f)}
<1>1. L \in Nat
  BY ShapedIsRooted
<1>2. L + 1 \in Low
  <2> DEFINE none == [n \in 1..L |-> FALSE]
  <2>1. none \in [1..L -> BOOLEAN] /\ (L + 1)..L = {}
    BY <1>1
  <2> HIDE DEF none
  <2>2. Fitting(L + 1, none)
    BY <2>1
  <2>3. L + 1 \in 1..(L + 1)
    BY <1>1
  <2> HIDE DEF Fitting
  <2> QED BY <2>2, <2>3
<1>3. PICK m \in Low : \A k \in Low : m <= k
  <2>1. Low \in SUBSET Nat /\ Low # {}
    BY <1>1, <1>2
  <2> HIDE DEF Low
  <2> QED BY <2>1, Least
<1>4. PICK f : Fitting(m, f)
  BY <1>3
<1>5. m = 1
  <2> SUFFICES ASSUME m # 1 PROVE FALSE
    OBVIOUS
  <2> DEFINE k == m - 1
             g == [f EXCEPT ![k] = CompletesBy(t, f, k)]
  <2>1. k \in 1..L /\ m = k + 1 /\ m \in 1..(L + 1)
    BY <1>1, <1>3
  <2>2. g \in [1..L -> BOOLEAN] /\ g[k] = CompletesBy(t, f, k) /\ \A j \in m..L : j \in 1..L /\ g[j] = f[j]
    BY <1>1, <1>4, <2>1, CompletesBoolean
  <2>3. \A n \in k..L : CompletesBy(t, g, n) = CompletesBy(t, f, n)
    <3> SUFFICES ASSUME NEW n \in k..L PROVE CompletesBy(t, g, n) = CompletesBy(t, f, n)
      OBVIOUS
    <3> HIDE DEF g, k
    <3>1. n \in 1..Len(t) /\ \A j \in (n + 1)..Len(t) : g[j] = f[j]
      BY <1>1, <2>1, <2>2
    <3> QED BY <3>1, CompletesLater
  <2> HIDE DEF g
  <2>4. \A n \in k..L : g[n] = CompletesBy(t, g, n)
    <3> SUFFICES ASSUME NEW n \in k..L PROVE g[n] = CompletesBy(t, g, n)
      OBVIOUS
    <3>1. CASE n = k
      BY <2>2, <2>3, <3>1
    <3>2. CASE n # k
      <4>1. n \in m..L
        BY <1>1, <2>1, <3>2
      <4> QED BY <1>4, <2>2, <2>3, <4>1
    <3> QED BY <3>1, <3>2
  <2>5. Fitting(k, g)
    BY <2>2, <2>4
  <2>6. k \in 1..(L + 1)
    BY <1>1, <2>1
  <2> HIDE DEF Fitting, k
  <2>7. k \in Low
    BY <2>5, <2>6
  <2>8. m <= k
    BY <1>3, <2>7
  <2> QED BY <1>1, <2>1, <2>8
<1>6. f = [n \in 1..L |-> CompletesBy(t, f, n)]
  BY <1>1, <1>4, <1>5
<1>7. \E h : h = [n \in 1..L |-> CompletesBy(t, h, n)]
  BY <1>6
<1>8. CompletesIn(t) = [n \in 1..L |-> CompletesBy(t, CompletesIn(t), n)]
  BY <1>7 DEF CompletesIn
<1> QED BY <1>8

(* What the proof needs of it: a jump does not complete, and a block as    *)
(* its last statement does.                                                *)
LEMMA JumpsEnd ==
  ASSUME NEW t, Shaped(t), NEW n \in 1..Len(t)
  PROVE  /\ t[n].kind \in JumpKinds => ~CompletesIn(t)[n]
         /\ t[n].kind = "block" /\ KidsIn(t, n, 1) # {} /\ ~CompletesIn(t)[LastIn(t, n, 1)] => ~CompletesIn(t)[n]
<1>1. CompletesIn(t)[n] = CompletesBy(t, CompletesIn(t), n)
  BY CompletesIs
<1>2. t[n].kind \in JumpKinds => ~CompletesBy(t, CompletesIn(t), n)
  BY DEF CompletesBy, JumpKinds, LeafKinds
<1>3. t[n].kind = "block" /\ KidsIn(t, n, 1) # {} /\ ~CompletesIn(t)[LastIn(t, n, 1)] =>
        ~CompletesBy(t, CompletesIn(t), n)
  BY DEF CompletesBy, JumpKinds, LeafKinds
<1> QED BY <1>1, <1>2, <1>3

-----------------------------------------------------------------------------
(* What explains a rejection, for any program t *)

UnderIfIn(t, c) ==
  \/ t[t[c].parent].kind = "if"
  \/ t[t[c].parent].kind = "block" /\ t[t[t[c].parent].parent].kind = "if"
StrayContinue(t) == \E c \in 1..Len(t) : t[c].kind = "continue" /\ ~UnderIfIn(t, c)
PadlessIn(t, n) == UnwindsIn(t, n) /\ Found(t, n, {"try"}) # {} /\ ~CoveredIn(t, n)
DeclaresIn(t, n) ==
  \/ t[n].decl
  \/ /\ t[n].parent \in 1..Len(t) /\ t[t[n].parent].kind = "try" /\ t[n].slot = 2
     /\ "var" \in t[t[n].parent].opts
EndsIn(t, j, b) ==
  /\ b \in Climb(t)[j]
  /\ \A m \in Climb(t)[j] : m = b \/ b \in Climb(t)[m] => t[m].kind \in {"block", "function"}
JumpsOut(t, j, b) ==
  /\ t[b].kind \in {"block", "function"} /\ t[j].kind \in JumpKinds /\ DeclaresIn(t, b) /\ EndsIn(t, j, b)
  /\ t[j].kind \in {"return", "throw"} => t[j].parent # b
Explained(t) ==
  \/ StrayContinue(t)
  \/ ~CaughtIn(t)
  \/ \E n \in 1..Len(t) : PadlessIn(t, n)
  \/ \E j \in 1..Len(t), b \in 1..Len(t) : JumpsOut(t, j, b)

LEMMA ExplainedIs == HasReason <=> Explained(tree)
<1>1. (\E c \in OfKind("continue") : ~\/ tree[tree[c].parent].kind = "if"
                                      \/ /\ tree[tree[c].parent].kind = "block"
                                         /\ tree[tree[tree[c].parent].parent].kind = "if")
      <=> StrayContinue(tree)
  BY DEF OfKind, Nodes, StrayContinue, UnderIfIn
<1>2. (\E n \in OfKind("try") : "catch" \notin tree[n].opts) <=> ~CaughtIn(tree)
  BY DEF OfKind, Nodes, CaughtIn
<1>3. \A n : NoPadIsLeft(n) <=> PadlessIn(tree, n)
  <2> TAKE n
  <2>1. Within(n, {"try"}) <=> Found(tree, n, {"try"}) # {}
    BY NearestAre
  <2>2. CoveredByTry(n) <=> CoveredIn(tree, n)
    BY PathsAre DEF CoveredByTry, CoveredIn, Path
  <2>3. Unwinds(n) <=> UnwindsIn(tree, n)
    BY DEF Unwinds, UnwindsIn
  <2> QED BY <2>1, <2>2, <2>3 DEF NoPadIsLeft, PadlessIn
<1>4. \A j, b : EndsBlock(j, b) <=> EndsIn(tree, j, b)
  BY PathsAre DEF EndsBlock, EndsIn, Inside
<1>5. \A b : Declares(b) <=> DeclaresIn(tree, b)
  BY DEF Declares, DeclaresIn, OfKind, Nodes
<1>6. (\E j \in Nodes, b \in OfKind("block") \cup OfKind("function") :
         /\ tree[j].kind \in JumpKinds /\ Declares(b) /\ EndsBlock(j, b)
         /\ tree[j].kind \in {"return", "throw"} => tree[j].parent # b)
      <=> \E j \in 1..Len(tree), b \in 1..Len(tree) : JumpsOut(tree, j, b)
  BY <1>4, <1>5 DEF OfKind, Nodes, JumpsOut
<1>7. (\E n \in Nodes : NoPadIsLeft(n)) <=> \E n \in 1..Len(tree) : PadlessIn(tree, n)
  BY <1>3 DEF Nodes
<1> QED BY <1>1, <1>2, <1>6, <1>7 DEF HasReason, Explained

(* What Defined says of the code c of a program t. *)
UsedIn(t, i) ==
  CASE i.op = "release" -> {r \in i.res : r[2] # "caught"}
    [] i.op = "acquire" -> {Blk(r[1], "counter") : r \in {q \in i.res : q[2] = "copy"}}
    [] i.op = "eval" /\ i.what[2] = "cond" ->
         {Blk(n, "element") : n \in {m \in {i.what[1]} : t[m].kind \in {"forof", "forin"}}}
    [] OTHER -> {}
UsesFirstIn(t, c, b, r) ==
  \E k \in 1..Len(c[b]) : r \in UsedIn(t, c[b][k]) /\ \A j \in 1..(k - 1) : ~Makes(c, b, j, r)
DefinedIn(t, c) ==
  /\ \A b \in DOMAIN c : Targets(c, b) \subseteq DOMAIN c
  /\ \A r \in UNION {UNION {UsedIn(t, c[b][k]) : k \in 1..Len(c[b])} : b \in DOMAIN c} :
       /\ \E b \in DOMAIN c : MakesAny(c, b, r)
       /\ \A b \in EnteredWithout(c, r) : ~UsesFirstIn(t, c, b, r)
MissingIn(t, c) == EndsOnce(c) /\ ~DefinedIn(t, c)

LEMMA MissingIs == (\A c : Defined(c) <=> DefinedIn(tree, c)) /\ (ValueIsMissing <=> MissingIn(tree, code))
<1>1. \A i : UsedBy(i) = UsedIn(tree, i)
  BY DEF UsedBy, UsedIn
<1>2. \A c, b, r : UsesFirst(c, b, r) <=> UsesFirstIn(tree, c, b, r)
  BY <1>1 DEF UsesFirst, UsesFirstIn
<1>3. \A c : Defined(c) <=> DefinedIn(tree, c)
  BY <1>1, <1>2, SMTT(60) DEF Defined, DefinedIn
<1> QED BY <1>3 DEF ValueIsMissing, MissingIn

(* An explanation stays one. *)
LEMMA StaysExplained ==
  ASSUME NEW t, NEW u, Grows(t, u), Explained(t)
  PROVE  Explained(u)
<1>1. /\ Len(t) \in Nat \ {0} /\ 1..Len(t) \subseteq 1..Len(u) /\ \A n \in 1..Len(t) : u[n] = t[n]
      /\ Shaped(t) /\ Shaped(u)
  BY NamesGrow DEF Grows
<1>2. \A n \in 1..Len(t) : n # 1 => t[n].parent \in 1..Len(t)
  BY <1>1 DEF Shaped
<1>3. CASE StrayContinue(t)
  <2>1. PICK c \in 1..Len(t) : t[c].kind = "continue" /\ ~UnderIfIn(t, c)
    BY <1>3 DEF StrayContinue
  <2>2. c # 1 /\ t[c].parent \in 1..Len(t)
    BY <1>1, <1>2, <2>1 DEF Shaped
  <2>3. t[t[c].parent].kind = "block" => t[c].parent # 1 /\ t[t[c].parent].parent \in 1..Len(t)
    BY <1>1, <1>2, <2>2 DEF Shaped
  <2>4. ~UnderIfIn(u, c)
    BY <1>1, <2>1, <2>2, <2>3 DEF UnderIfIn
  <2>5. StrayContinue(u)
    BY <1>1, <2>1, <2>4 DEF StrayContinue
  <2> QED BY <2>5 DEF Explained
<1>4. CASE ~CaughtIn(t)
  BY <1>4, SameMatching DEF Explained
<1>5. CASE \E n \in 1..Len(t) : PadlessIn(t, n)
  <2>1. PICK n \in 1..Len(t) : PadlessIn(t, n)
    BY <1>5
  <2>2. Found(u, n, {"try"}) = Found(t, n, {"try"})
    BY SameScopes
  <2>3. Path(u, n) = Path(t, n) /\ u[n] = t[n]
    BY SamePaths
  <2>4. \A a \in Path(t, n) : u[a[1]] = t[a[1]]
    BY <1>1, Paths
  <2>5. PadlessIn(u, n)
    BY <2>1, <2>2, <2>3, <2>4 DEF PadlessIn, UnwindsIn, CoveredIn
  <2> QED BY <1>1, <2>5 DEF Explained
<1>6. CASE \E j \in 1..Len(t), b \in 1..Len(t) : JumpsOut(t, j, b)
  <2>1. PICK j \in 1..Len(t), b \in 1..Len(t) : JumpsOut(t, j, b)
    BY <1>6
  <2>2. Climb(u)[j] = Climb(t)[j] /\ u[j] = t[j] /\ u[b] = t[b]
    BY SamePaths
  <2>3. Climb(t)[j] \subseteq 0..(j - 1) /\ Climb(t)[0] = {} /\ Climb(u)[0] = {}
    BY <1>1, Paths, Climbing, ShapedIsRooted
  <2>4. \A m \in Climb(t)[j] : m # 0 => m \in 1..Len(t) /\ u[m] = t[m] /\ Climb(u)[m] = Climb(t)[m]
    <3> TAKE m \in Climb(t)[j]
    <3> HAVE m # 0
    <3>1. m \in 1..Len(t)
      BY <1>1, <2>3
    <3> QED BY <3>1, SamePaths
  <2>5. EndsIn(u, j, b)
    <3>1. \A m \in Climb(u)[j] : m = b \/ b \in Climb(u)[m] => u[m].kind \in {"block", "function"}
      BY <2>1, <2>2, <2>3, <2>4 DEF JumpsOut, EndsIn
    <3> QED BY <2>1, <2>2, <3>1 DEF JumpsOut, EndsIn
  <2>6. DeclaresIn(u, b)
    BY <1>1, <1>2, <2>1, <2>2 DEF JumpsOut, DeclaresIn
  <2>7. JumpsOut(u, j, b)
    BY <2>1, <2>2, <2>5, <2>6 DEF JumpsOut
  <2> QED BY <1>1, <2>7 DEF Explained
<1> QED BY <1>3, <1>4, <1>5, <1>6 DEF Explained

(* The nodes around j form a chain.                                        *)
Chained(t, j, n) ==
  /\ n \in Climb(t)[j] => Climb(t)[n] \subseteq Climb(t)[j]
  /\ n \in Climb(t)[j] => \A m \in Climb(t)[j] : m = n \/ m \in Climb(t)[n] \/ n \in Climb(t)[m]

LEMMA ClimbChain ==
  ASSUME NEW t, Shaped(t), NEW n \in 0..Len(t)
  PROVE  \A j \in 0..Len(t) : Chained(t, j, n)
<1>1. Len(t) \in Nat /\ \A j \in 1..Len(t) : t[j].parent \in 0..(j - 1)
  BY ShapedIsRooted DEF Rooted
<1>2. Climb(t)[0] = {} /\ \A j \in 1..Len(t) : Climb(t)[j] = {t[j].parent} \cup Climb(t)[t[j].parent]
  BY ShapedIsRooted, Climbing
<1> DEFINE Bad == {j \in 0..Len(t) : ~Chained(t, j, n)}
<1>3. SUFFICES ASSUME Bad # {} PROVE FALSE
  OBVIOUS
<1>4. PICK j \in Bad : \A k \in Bad : j <= k
  <2>1. Bad \in SUBSET Nat
    BY <1>1
  <2> HIDE DEF Bad
  <2> QED BY <1>3, <2>1, Least
<1>5. j # 0
  BY <1>2, <1>4 DEF Chained
<1> DEFINE p == t[j].parent
<1>6. p \in 0..Len(t) /\ p < j /\ Climb(t)[j] = {p} \cup Climb(t)[p]
  BY <1>1, <1>2, <1>4, <1>5
<1>7. Chained(t, p, n)
  BY <1>1, <1>4, <1>6
<1> HIDE DEF p
<1>8. Chained(t, j, n)
  BY <1>6, <1>7 DEF Chained
<1> QED BY <1>4, <1>8

-----------------------------------------------------------------------------
(* Sequences of instructions *)

IsList(s) == \E I : s \in Seq(I)
Straight(s) == IsList(s) /\ \A i \in 1..Len(s) : ~IsTerminator(s[i])
Ended1(s) ==
  /\ IsList(s) /\ s # <<>> /\ IsTerminator(s[Len(s)])
  /\ \A i \in 1..(Len(s) - 1) : ~IsTerminator(s[i])

LEMMA StraightNone == Straight(<<>>)
BY DEF Straight, IsList

LEMMA StraightOne ==
  ASSUME NEW i
  PROVE  /\ ~IsTerminator(i) => Straight(<<i>>)
         /\ IsTerminator(i) => Ended1(<<i>>)
<1>1. <<i>> \in Seq({i}) /\ <<i>> # <<>> /\ Len(<<i>>) = 1 /\ <<i>>[1] = i
  OBVIOUS
<1>2. IsList(<<i>>)
  BY <1>1 DEF IsList
<1>3. (\A k \in 1..Len(<<i>>) : k = 1) /\ 1..(Len(<<i>>) - 1) = {}
  BY <1>1
<1> QED BY <1>1, <1>2, <1>3 DEF Straight, Ended1

LEMMA StraightBoth ==
  ASSUME NEW s, NEW r, Straight(s)
  PROVE  /\ Straight(r) => Straight(s \o r)
         /\ Ended1(r) => Ended1(s \o r)
<1>1. SUFFICES ASSUME IsList(r)
               PROVE  /\ Straight(r) => Straight(s \o r)
                      /\ Ended1(r) => Ended1(s \o r)
  BY DEF Straight, Ended1
<1>2. PICK I : s \in Seq(I)
  BY DEF Straight, IsList
<1>3. PICK J : r \in Seq(J)
  BY <1>1 DEF IsList
<1>4. s \in Seq(I \cup J) /\ r \in Seq(I \cup J)
  BY <1>2, <1>3
<1> DEFINE q == s \o r
<1>5. /\ q \in Seq(I \cup J) /\ Len(q) = Len(s) + Len(r) /\ Len(s) \in Nat /\ Len(r) \in Nat
      /\ \A i \in 1..Len(s) : q[i] = s[i]
      /\ \A i \in 1..Len(r) : q[Len(s) + i] = r[i]
  BY <1>4
<1>6. IsList(q)
  BY <1>5 DEF IsList
<1> HIDE DEF q
<1>7. \A i \in 1..Len(q) : i \in 1..Len(s) \/ (i - Len(s) \in 1..Len(r) /\ i = Len(s) + (i - Len(s)))
  BY <1>5
<1>8. ASSUME Straight(r)
      PROVE  Straight(q)
  <2>1. \A i \in 1..Len(q) : ~IsTerminator(q[i])
    BY <1>5, <1>7, <1>8 DEF Straight
  <2> QED BY <1>6, <2>1 DEF Straight
<1>9. ASSUME Ended1(r)
      PROVE  Ended1(q)
  <2>1. r # <<>> /\ IsTerminator(r[Len(r)]) /\ \A i \in 1..(Len(r) - 1) : ~IsTerminator(r[i])
    BY <1>9 DEF Ended1
  <2>2. Len(r) # 0
    BY <1>3, <2>1
  <2>3. Len(r) \in 1..Len(r) /\ q[Len(q)] = r[Len(r)] /\ q # <<>>
    BY <1>5, <2>2
  <2>4. ASSUME NEW i \in 1..(Len(q) - 1)
        PROVE  ~IsTerminator(q[i])
    <3>1. CASE i \in 1..Len(s)
      BY <1>5, <3>1 DEF Straight
    <3>2. CASE i \notin 1..Len(s)
      <4>1. i - Len(s) \in 1..(Len(r) - 1) /\ i - Len(s) \in 1..Len(r) /\ i = Len(s) + (i - Len(s))
        BY <1>5, <3>2
      <4> DEFINE k == i - Len(s)
      <4>2. k \in 1..(Len(r) - 1) /\ q[i] = r[k]
        BY <1>5, <4>1
      <4> QED BY <2>1, <4>2
    <3> QED BY <3>1, <3>2
  <2> QED BY <1>6, <2>1, <2>3, <2>4 DEF Ended1
<1> QED BY <1>8, <1>9 DEF q

(* The last instruction tells which of the two it is.                      *)
LEMMA Terminators ==
  ASSUME NEW c, NEW b
  PROVE  /\ Straight(c[b]) => ~Terminated(c, b)
         /\ Ended1(c[b]) => Terminated(c, b)
         /\ Straight(c[b]) => ~Ended1(c[b])
<1>1. ASSUME Straight(c[b])
      PROVE  ~Terminated(c, b) /\ ~Ended1(c[b])
  <2>1. PICK I : c[b] \in Seq(I)
    BY <1>1 DEF Straight, IsList
  <2>2. c[b] # <<>> => Len(c[b]) \in 1..Len(c[b])
    BY <2>1
  <2> QED BY <1>1, <2>2 DEF Straight, Terminated, Top, Ended1
<1>2. Ended1(c[b]) => Terminated(c, b)
  BY DEF Ended1, Terminated, Top
<1> QED BY <1>1, <1>2

(* Inserted before the last instruction.                                   *)
LEMMA InsertedBefore ==
  ASSUME NEW s, Ended1(s), NEW r, Straight(r)
  PROVE  Ended1(Pop(s) \o r \o <<Top(s)>>)
<1>1. PICK I : s \in Seq(I)
  BY DEF Ended1, IsList
<1>2. /\ Top(s) = s[Len(s)] /\ Pop(s) \in Seq(I) /\ Len(Pop(s)) = Len(s) - 1
      /\ \A i \in 1..(Len(s) - 1) : Pop(s)[i] = s[i]
  BY <1>1, TopAndPop DEF Ended1
<1>3. Straight(Pop(s))
  BY <1>2 DEF Ended1, Straight, IsList
<1>4. Ended1(<<Top(s)>>)
  BY <1>2, StraightOne DEF Ended1
<1>5. Straight(Pop(s) \o r)
  BY <1>3, StraightBoth
<1> QED BY <1>4, <1>5, StraightBoth

(* What the handlers write.                                                *)
LEMMA Simple ==
  /\ \A x : ~IsTerminator(Eval(x)) /\ ~IsTerminator(Call(x)) /\ ~IsTerminator(Acquire(x)) /\ ~IsTerminator(Release(x))
  /\ \A x : Straight(AcquireAll(x)) /\ Straight(ReleaseAll(x)) /\ Straight(Deinitialize(x))
  /\ \A x : IsTerminator(Br(x))
  /\ IsTerminator(Ret) /\ IsTerminator(Raise)
<1>1. \A x : ~IsTerminator(Eval(x)) /\ ~IsTerminator(Call(x)) /\ ~IsTerminator(Acquire(x)) /\ ~IsTerminator(Release(x))
  BY DEF IsTerminator, Eval, Call, Acquire, Release
<1>2. ASSUME NEW x
      PROVE  Straight(<<[op |-> "acquire", res |-> x]>>) /\ Straight(<<Release(x)>>)
  <2>1. ~IsTerminator([op |-> "acquire", res |-> x])
    BY DEF IsTerminator
  <2>2. ~IsTerminator(Release(x))
    BY <1>1
  <2>3. Straight(<<[op |-> "acquire", res |-> x]>>)
    BY <2>1, StraightOne
  <2>4. Straight(<<Release(x)>>)
    BY <2>2, StraightOne
  <2> QED BY <2>3, <2>4
<1>3. ASSUME NEW x
      PROVE  Straight(AcquireAll(x)) /\ Straight(ReleaseAll(x))
  <2>1. AcquireAll(x) = <<>> \/ AcquireAll(x) = <<[op |-> "acquire", res |-> x]>>
    BY DEF AcquireAll
  <2>2. ReleaseAll(x) = <<>> \/ ReleaseAll(x) = <<Release(x)>>
    BY DEF ReleaseAll
  <2>3. Straight(<<[op |-> "acquire", res |-> x]>>) /\ Straight(<<Release(x)>>)
    BY <1>2
  <2> QED BY <2>1, <2>2, <2>3, StraightNone
<1>4. ASSUME NEW x
      PROVE  Straight(Deinitialize(x))
  <2>1. Deinitialize(x) = <<>> \/ Deinitialize(x) = ReleaseAll(x.vals)
    BY DEF Deinitialize
  <2>2. Straight(ReleaseAll(x.vals))
    BY <1>3
  <2> QED BY <2>1, <2>2, StraightNone
<1>5. (\A x : IsTerminator(Br(x))) /\ IsTerminator(Ret) /\ IsTerminator(Raise)
  BY DEF IsTerminator, Br, Ret, Raise
<1> QED BY <1>1, <1>3, <1>4, <1>5

(* Two instructions.                                                       *)
LEMMA StraightTwo ==
  ASSUME NEW i, NEW j, ~IsTerminator(i)
  PROVE  /\ <<i, j>> = <<i>> \o <<j>>
         /\ ~IsTerminator(j) => Straight(<<i, j>>)
         /\ IsTerminator(j) => Ended1(<<i, j>>)
<1>1. <<i, j>> = <<i>> \o <<j>>
  <2>1. i \in {i, j} /\ j \in {i, j}
    OBVIOUS
  <2> QED BY <2>1, Pairs
<1>2. Straight(<<i>>) /\ (~IsTerminator(j) => Straight(<<j>>)) /\ (IsTerminator(j) => Ended1(<<j>>))
  BY StraightOne
<1> QED BY <1>1, <1>2, StraightBoth

-----------------------------------------------------------------------------
(* What a handler writes *)

(* It makes e of c: it writes into the blocks W and nowhere else.  Those   *)
(* of W that are not in V have been ended, those in V have not.            *)
Stage(c, W, V, e) ==
  /\ DOMAIN c \subseteq DOMAIN e /\ W \subseteq DOMAIN e /\ V \subseteq DOMAIN e
  /\ \A x \in DOMAIN e : IsList(e[x]) /\ (x \in DOMAIN c \/ x \in W \/ x \in V)
  /\ \A x : x \notin W => Was(e, x) = Was(c, x)
  /\ \A x \in W : x \in V \/ Ended1(e[x])
  /\ \A x \in V : Straight(e[x])

LEMMA StageBegins ==
  ASSUME NEW c, \A x \in DOMAIN c : IsList(c[x])
  PROVE  Stage(c, {}, {}, c)
BY DEF Stage

(* Instructions added to any blocks.                                       *)
AddsTo(e, new, d) ==
  /\ DOMAIN d = DOMAIN e \cup DOMAIN new
  /\ \A x \in DOMAIN d : IsList(d[x])
  /\ \A x \in DOMAIN new : d[x] = Was(e, x) \o new[x] /\ (Was(e, x) = <<>> => d[x] = new[x])
  /\ \A x : (x \in DOMAIN new => new[x] = <<>>) => Was(d, x) = Was(e, x)

LEMMA ListsJoin ==
  ASSUME NEW s, NEW r, IsList(s), IsList(r)
  PROVE  /\ IsList(s \o r)
         /\ r = <<>> => s \o r = s
         /\ s = <<>> => s \o r = r
<1>1. PICK I : s \in Seq(I)
  BY DEF IsList
<1>2. PICK J : r \in Seq(J)
  BY DEF IsList
<1>3. s \in Seq(I \cup J) /\ r \in Seq(I \cup J)
  BY <1>1, <1>2
<1>4. s \o r \in Seq(I \cup J)
  BY <1>3
<1>5. IsList(s \o r)
  BY <1>4 DEF IsList
<1>6. r = <<>> => s \o r = s
  BY <1>3
<1>7. s = <<>> => s \o r = r
  BY <1>3
<1> QED BY <1>5, <1>6, <1>7

LEMMA AddedTo ==
  ASSUME NEW e, NEW new, \A x \in DOMAIN e : IsList(e[x]), \A x \in DOMAIN new : IsList(new[x])
  PROVE  AddsTo(e, new, e ++ new)
<1> DEFINE d == e ++ new
<1>1. DOMAIN d = DOMAIN e \cup DOMAIN new /\ \A x \in DOMAIN d : d[x] = Was(e, x) \o Was(new, x)
  BY DEF ++
<1> HIDE DEF d
<1>2. IsList(<<>>)
  BY StraightNone DEF Straight
<1>3. ASSUME NEW x
      PROVE  IsList(Was(e, x)) /\ IsList(Was(new, x))
  BY <1>2 DEF Was
<1>4. ASSUME NEW x \in DOMAIN d
      PROVE  IsList(d[x])
  <2>1. IsList(Was(e, x)) /\ IsList(Was(new, x))
    BY <1>3
  <2>2. IsList(Was(e, x) \o Was(new, x))
    BY <2>1, ListsJoin
  <2> QED BY <1>1, <2>2
<1>5. ASSUME NEW x \in DOMAIN new
      PROVE  d[x] = Was(e, x) \o new[x] /\ (Was(e, x) = <<>> => d[x] = new[x])
  <2>1. x \in DOMAIN d /\ Was(new, x) = new[x]
    BY <1>1 DEF Was
  <2>2. d[x] = Was(e, x) \o new[x]
    BY <1>1, <2>1
  <2>3. IsList(Was(e, x)) /\ IsList(new[x])
    BY <1>3
  <2>4. Was(e, x) = <<>> => Was(e, x) \o new[x] = new[x]
    BY <2>3, ListsJoin
  <2> QED BY <2>2, <2>4
<1>6. ASSUME NEW x, x \in DOMAIN new => new[x] = <<>>
      PROVE  Was(d, x) = Was(e, x)
  <2>1. Was(new, x) = <<>>
    BY <1>6 DEF Was
  <2>2. IsList(Was(e, x))
    BY <1>3
  <2>3. Was(e, x) \o <<>> = Was(e, x)
    BY <1>2, <2>2, ListsJoin
  <2>4. CASE x \in DOMAIN d
    <3>1. d[x] = Was(e, x) \o Was(new, x)
      BY <1>1, <2>4
    <3>2. Was(d, x) = d[x]
      BY <2>4 DEF Was
    <3> QED BY <2>1, <2>3, <3>1, <3>2
  <2>5. CASE x \notin DOMAIN d
    BY <1>1, <2>5 DEF Was
  <2> QED BY <2>4, <2>5
<1> QED BY <1>1, <1>4, <1>5, <1>6 DEF AddsTo, d

LEMMA InIs ==
  ASSUME NEW y, NEW s
  PROVE  DOMAIN In(y, s) = {y} /\ In(y, s)[y] = s /\ Was(In(y, s), y) = s
BY DEF In, Was

LEMMA StraightIsList ==
  ASSUME NEW s, Straight(s) \/ Ended1(s)
  PROVE  IsList(s)
BY DEF Straight, Ended1

(* A block is ended.                                                       *)
LEMMA StageEnds ==
  ASSUME NEW c, NEW W, NEW V, NEW e, Stage(c, W, V, e), NEW y, Straight(Was(e, y)), NEW s, Ended1(s)
  PROVE  Stage(c, W \cup {y}, V \ {y}, e ++ In(y, s))
<1> DEFINE d == e ++ In(y, s)
<1>1. \A x \in DOMAIN e : IsList(e[x])
  BY DEF Stage
<1>2. DOMAIN In(y, s) = {y} /\ In(y, s)[y] = s /\ IsList(s) /\ Was(In(y, s), y) = s
  BY InIs, StraightIsList
<1> HIDE DEF d
<1>6. AddsTo(e, In(y, s), d)
  BY <1>1, <1>2, AddedTo DEF d
<1>3. /\ DOMAIN d = DOMAIN e \cup {y} /\ \A x \in DOMAIN d : IsList(d[x])
      /\ d[y] = Was(e, y) \o s
      /\ \A x : x # y => Was(d, x) = Was(e, x)
  BY <1>2, <1>6 DEF AddsTo
<1>4. Ended1(d[y])
  BY <1>3, StraightBoth
<1>5. \A x \in DOMAIN e : x # y => d[x] = e[x]
  BY <1>3 DEF Was
<1> QED BY <1>3, <1>4, <1>5 DEF Stage, d

(* A block is continued.                                                   *)
LEMMA StageExtends ==
  ASSUME NEW c, NEW W, NEW V, NEW e, Stage(c, W, V, e), NEW y, Straight(Was(e, y)), NEW s, Straight(s)
  PROVE  Stage(c, W \cup {y}, V \cup {y}, e ++ In(y, s))
<1> DEFINE d == e ++ In(y, s)
<1>1. \A x \in DOMAIN e : IsList(e[x])
  BY DEF Stage
<1>2. DOMAIN In(y, s) = {y} /\ In(y, s)[y] = s /\ IsList(s) /\ Was(In(y, s), y) = s
  BY InIs, StraightIsList
<1> HIDE DEF d
<1>6. AddsTo(e, In(y, s), d)
  BY <1>1, <1>2, AddedTo DEF d
<1>3. /\ DOMAIN d = DOMAIN e \cup {y} /\ \A x \in DOMAIN d : IsList(d[x])
      /\ d[y] = Was(e, y) \o s
      /\ \A x : x # y => Was(d, x) = Was(e, x)
  BY <1>2, <1>6 DEF AddsTo
<1>4. Straight(d[y])
  BY <1>3, StraightBoth
<1>5. \A x \in DOMAIN e : x # y => d[x] = e[x]
  BY <1>3 DEF Was
<1> QED BY <1>3, <1>4, <1>5 DEF Stage, d

(* A block is added to the function, or is there anyway.                   *)
LEMMA StageAdds ==
  ASSUME NEW c, NEW W, NEW V, NEW e, Stage(c, W, V, e), NEW y, Straight(Was(e, y))
  PROVE  /\ Stage(c, W, V \cup {y}, e ++ In(y, <<>>))
         /\ y \in DOMAIN e => Stage(c, W, V \cup {y}, e)
<1> DEFINE d == e ++ In(y, <<>>)
<1>1. \A x \in DOMAIN e : IsList(e[x])
  BY DEF Stage
<1>2. DOMAIN In(y, <<>>) = {y} /\ In(y, <<>>)[y] = <<>> /\ IsList(<<>>) /\ Was(In(y, <<>>), y) = <<>>
  BY InIs, StraightIsList, StraightNone
<1> HIDE DEF d
<1>7. AddsTo(e, In(y, <<>>), d)
  BY <1>1, <1>2, AddedTo DEF d
<1>3. /\ DOMAIN d = DOMAIN e \cup {y} /\ \A x \in DOMAIN d : IsList(d[x])
      /\ \A x : Was(d, x) = Was(e, x)
  BY <1>2, <1>7 DEF AddsTo
<1>4. d[y] = Was(e, y) /\ \A x \in DOMAIN e : d[x] = e[x]
  BY <1>3 DEF Was
<1>5. Stage(c, W, V \cup {y}, d)
  BY <1>3, <1>4 DEF Stage
<1>6. y \in DOMAIN e => Stage(c, W, V \cup {y}, e)
  BY DEF Stage, Was
<1> QED BY <1>5, <1>6 DEF d

LEMMA StageAddsAll ==
  ASSUME NEW c, NEW W, NEW V, NEW e, Stage(c, W, V, e), NEW B, \A y \in B : Straight(Was(e, y))
  PROVE  Stage(c, W, V \cup B, e ++ [y \in B |-> <<>>])
<1> DEFINE new == [y \in B |-> <<>>]
           d == e ++ new
<1>1. \A x \in DOMAIN e : IsList(e[x])
  BY DEF Stage
<1>2. DOMAIN new = B /\ (\A y \in B : new[y] = <<>>) /\ IsList(<<>>)
  BY StraightIsList, StraightNone
<1> HIDE DEF new, d
<1>7. AddsTo(e, new, d)
  BY <1>1, <1>2, AddedTo DEF d
<1>3. /\ DOMAIN d = DOMAIN e \cup B /\ \A x \in DOMAIN d : IsList(d[x])
      /\ \A x : Was(d, x) = Was(e, x)
  BY <1>2, <1>7 DEF AddsTo
<1>4. (\A y \in B : d[y] = Was(e, y)) /\ \A x \in DOMAIN e : d[x] = e[x]
  BY <1>3 DEF Was
<1>5. Stage(c, W, V \cup B, d)
  BY <1>3, <1>4 DEF Stage
<1> QED BY <1>5 DEF d, new

LEMMA StageEndsAll ==
  ASSUME NEW c, NEW W, NEW V, NEW e, Stage(c, W, V, e), NEW new, \A y \in DOMAIN new : Ended1(new[y]) /\ Was(e, y) = <<>>
  PROVE  Stage(c, W \cup DOMAIN new, V \ DOMAIN new, e ++ new)
<1> DEFINE d == e ++ new
<1>1. \A x \in DOMAIN e : IsList(e[x])
  BY DEF Stage
<1>2. \A y \in DOMAIN new : IsList(new[y])
  BY StraightIsList
<1> HIDE DEF d
<1>7. AddsTo(e, new, d)
  BY <1>1, <1>2, AddedTo DEF d
<1>3. /\ DOMAIN d = DOMAIN e \cup DOMAIN new /\ \A x \in DOMAIN d : IsList(d[x])
      /\ \A x : x \notin DOMAIN new => Was(d, x) = Was(e, x)
      /\ \A y \in DOMAIN new : d[y] = new[y]
  BY <1>7 DEF AddsTo
<1>4. (\A y \in DOMAIN new : Ended1(d[y])) /\ \A x \in DOMAIN e : x \notin DOMAIN new => d[x] = e[x]
  BY <1>3 DEF Was
<1> QED BY <1>3, <1>4 DEF Stage, d

(* The block where the code is built falls through, if it has not been     *)
(* ended.                                                                  *)
LEMMA StageFalls ==
  ASSUME NEW c, NEW W, NEW V, NEW e, Stage(c, W, V, e), NEW y \in DOMAIN e, Straight(e[y]) \/ Ended1(e[y]), NEW z
  PROVE  Stage(c, W \cup {y}, V \ {y}, BrUnlessTerminated(e, y, z))
<1>1. CASE Terminated(e, y)
  <2>1. Ended1(e[y]) /\ y \notin V
    BY <1>1, Terminators DEF Stage
  <2>2. Stage(c, W \cup {y}, V \ {y}, e)
    BY <2>1 DEF Stage
  <2> QED BY <1>1, <2>2 DEF BrUnlessTerminated
<1>2. CASE ~Terminated(e, y)
  <2>1. Straight(Was(e, y))
    BY <1>2, Terminators DEF Was
  <2>2. Ended1(<<Br({z})>>)
    BY Simple, StraightOne
  <2>3. Stage(c, W \cup {y}, V \ {y}, e ++ In(y, <<Br({z})>>))
    BY <2>1, <2>2, StageEnds
  <2> QED BY <1>2, <2>3 DEF BrUnlessTerminated
<1> QED BY <1>1, <1>2

(* Something is inserted before the end of a block.                        *)
LEMMA StageInserts ==
  ASSUME NEW c, NEW W, NEW V, NEW e, Stage(c, W, V, e), NEW y \in DOMAIN e, Ended1(e[y]), NEW r, Straight(r)
  PROVE  Stage(c, W \cup {y}, V, BeforeTerminator(e, y, r))
<1> DEFINE d == BeforeTerminator(e, y, r)
<1>1. d = [e EXCEPT ![y] = Pop(e[y]) \o r \o <<Top(e[y])>>]
  BY DEF BeforeTerminator
<1>2. DOMAIN d = DOMAIN e /\ d[y] = Pop(e[y]) \o r \o <<Top(e[y])>> /\ \A x \in DOMAIN e : x # y => d[x] = e[x]
  BY <1>1
<1>3. Ended1(d[y]) /\ IsList(d[y])
  BY <1>2, InsertedBefore, StraightIsList
<1>4. y \notin V
  BY Terminators DEF Stage
<1> HIDE DEF d
<1>5. \A x : x # y => Was(d, x) = Was(e, x)
  BY <1>2 DEF Was
<1> QED BY <1>2, <1>3, <1>4, <1>5 DEF Stage, d

-----------------------------------------------------------------------------
(* What stays true while the function is compiled, whatever the program    *)

(* Blocks of which nothing can be asked, so that the properties of the     *)
(* scopes in HandlersProofs only speak of what the scopes declare.         *)
Spoilt == [x \in {1} |-> <<Ret, Ret>>]
HasScopes(t, f, ss) == ScopesMatch(t, f, ss, Spoilt, 1)

(* The blocks that still are to be ended: the one where the code is built, *)
(* those the open statements have left for later, and the landing pads.    *)
Pending(t, f, ps, b) == {b} \cup Expected(t, f) \cup Elements(ps)

Laid(t, f, c, b) ==
  /\ \A x \in DOMAIN c : x[1] \in 1..Len(t)
  /\ b \in DOMAIN c /\ Built(t, f, c)
  /\ \A x \in Expected(t, f) : x # b /\ Was(c, x) = <<>>

Flowing(t, f, ps, c, b) ==
  \A x \in DOMAIN c : Ended1(c[x]) \/ (Straight(c[x]) /\ x \in Pending(t, f, ps, b))

(* A jump has ended the list of statements in progress, itself or in a     *)
(* block at its end.                                                       *)
Jumped(t, n, ss, j) ==
  /\ j \in 1..Len(t) /\ t[j].kind \in JumpKinds /\ n \in Climb(t)[j]
  /\ \A m \in Climb(t)[j] : m > n => t[m].kind = "block"
  /\ t[j].kind \in {"return", "throw"} /\ t[j].parent = n /\ t[n].kind \in {"block", "function"} =>
       Top(ss).isDeinitialized
Halted(t, f, ss) ==
  /\ KidsIn(t, Top(f).node, Top(f).slot) # {}
  /\ CompletesIn(t)[LastIn(t, Top(f).node, Top(f).slot)] = FALSE
  /\ \E j : Jumped(t, Top(f).node, ss, j)

Steady(t, f, ps, ss, c, b) ==
  /\ PadsMatch(t, f, ps, c, b) /\ HasScopes(t, f, ss) /\ Laid(t, f, c, b) /\ Flowing(t, f, ps, c, b)
  /\ Terminated(c, b) => Halted(t, f, ss)

LEMMA NothingIsGood == \A t : ~Good(t, Spoilt)
<1>1. DOMAIN Spoilt = {1} /\ Spoilt[1] = <<Ret, Ret>>
  BY DEF Spoilt
<1>2. Len(<<Ret, Ret>>) = 2 /\ <<Ret, Ret>>[1] = Ret
  OBVIOUS
<1>3. IsTerminator(Ret)
  BY DEF IsTerminator, Ret
<1>4. 1 \in 1..(2 - 1)
  OBVIOUS
<1>5. Len(Spoilt[1]) = 2 /\ IsTerminator(Spoilt[1][1])
  BY <1>1, <1>2, <1>3
<1>6. ~WellBlocks(Spoilt)
  BY <1>1, <1>4, <1>5 DEF WellBlocks
<1> QED BY <1>6 DEF Good

LEMMA ScopesStay ==
  ASSUME NEW t, NEW u, Grows(t, u), NEW f, NEW g, NEW ss, HasScopes(t, f, ss),
         ScopedIn(u, g) = ScopedIn(t, f), \A o \in Opened(f) : u[o[1]] = t[o[1]]
  PROVE  HasScopes(u, g, ss)
BY NothingIsGood, ScopesKept DEF HasScopes

LEMMA ScopeOpens ==
  ASSUME NEW t, NEW u, Grows(t, u), NEW L, L = Len(t) + 1, Len(u) = L, NEW f, Nested(t, f), NEW g, NEW slot,
         Enters(f, g, L, slot), Scoped(u, L), Declared(u, L) \subseteq NamesOf(u),
         NEW ss, HasScopes(t, f, ss)
  PROVE  HasScopes(u, g, Append(ss, Scope(Declared(u, L))))
BY NothingIsGood, ScopesPush DEF HasScopes

LEMMA ScopeCloses ==
  ASSUME NEW t, Shaped(t), NEW f, Nested(t, f), NEW g, NEW n, NEW slot, n = Top(f).node, slot = Top(f).slot,
         Leaves(f, g, n, slot), Scoped(t, n), NEW ss, HasScopes(t, f, ss)
  PROVE  HasScopes(t, g, Pop(ss))
BY NothingIsGood, ScopesPop DEF HasScopes

LEMMA ScopeEnds ==
  ASSUME NEW t, NEW f, NEW x, NEW u, Stands(t, f, x, u), x.kind \in {"return", "throw"}, NEW ss, HasScopes(t, f, ss)
  PROVE  HasScopes(u, f, Deinitialized(ss))
BY NothingIsGood, ScopesFlag DEF HasScopes

LEMMA ScopeOnTop ==
  ASSUME NEW t, Shaped(t), NEW f, NEW ss, HasScopes(t, f, ss),
         NEW n \in ScopedIn(t, f), \A m \in ScopedIn(t, f) : m <= n
  PROVE  /\ ss # <<>> /\ Len(ss) \in Nat \ {0} /\ Top(ss) = ss[Len(ss)] /\ Top(ss) \in ScopeRecords(t)
         /\ Top(ss).vals = Declared(t, n)
BY ScopesTop DEF HasScopes

(* What HandlersProofs asks of the blocks that a handler has written.      *)
LEMMA StageTouches ==
  ASSUME NEW c, NEW W, NEW V, NEW c2, Stage(c, W, V, c2), NEW b, NEW b2 \in DOMAIN c2, NEW n,
         \A y \in W : y = b \/ (y[1] = n /\ y[2] # "pad"), b2 = b \/ (b2[1] = n /\ b2[2] # "pad")
  PROVE  Touched(c, b, c2, b2, n)
BY DEF Stage, Touched

LEMMA FlowsOn ==
  ASSUME NEW t, NEW f, NEW ps, NEW c, NEW b, Flowing(t, f, ps, c, b),
         NEW W, NEW V, NEW c2, Stage(c, W, V, c2),
         NEW u, NEW g, NEW ps2, NEW b2, V \subseteq Pending(u, g, ps2, b2),
         \A x \in Pending(t, f, ps, b) : x \in W \/ x \in Pending(u, g, ps2, b2)
  PROVE  Flowing(u, g, ps2, c2, b2)
<1> SUFFICES ASSUME NEW x \in DOMAIN c2
             PROVE  Ended1(c2[x]) \/ (Straight(c2[x]) /\ x \in Pending(u, g, ps2, b2))
  BY DEF Flowing
<1>1. CASE x \in V
  BY <1>1 DEF Stage
<1>2. CASE x \in W /\ x \notin V
  BY <1>2 DEF Stage
<1>3. CASE x \notin W /\ x \notin V
  <2>1. x \in DOMAIN c
    BY <1>3 DEF Stage
  <2>2. c2[x] = c[x]
    BY <1>3, <2>1 DEF Stage, Was
  <2>3. Ended1(c[x]) \/ (Straight(c[x]) /\ x \in Pending(t, f, ps, b))
    BY <2>1 DEF Flowing
  <2> QED BY <1>3, <2>2, <2>3
<1> QED BY <1>1, <1>2, <1>3

LEMMA BuiltOn ==
  ASSUME NEW t, NEW u, NEW f, NEW g, NEW c, NEW c2, Built(t, f, c), DOMAIN c \subseteq DOMAIN c2,
         \A o \in Opened(g) :
           (u[o[1]] = t[o[1]] /\ \E p \in Opened(f) : p[1] = o[1]) \/ Ahead(u, o[1]) \subseteq DOMAIN c2,
         \A o \in Opened(g) : (u[o[1]] = t[o[1]] /\ o \in Opened(f)) \/ AfterTry(u, o, c2)
  PROVE  Built(u, g, c2)
<1>1. ASSUME NEW o \in Opened(g), u[o[1]] = t[o[1]], NEW p \in Opened(f), p[1] = o[1]
      PROVE  Ahead(u, o[1]) \subseteq DOMAIN c2
  <2>1. Ahead(t, p[1]) \subseteq DOMAIN c
    BY DEF Built
  <2>2. Ahead(u, o[1]) = Ahead(t, o[1])
    BY <1>1 DEF Ahead
  <2> QED BY <1>1, <2>1, <2>2
<1>2. ASSUME NEW o \in Opened(g), u[o[1]] = t[o[1]], o \in Opened(f)
      PROVE  AfterTry(u, o, c2)
  BY <1>2 DEF Built, AfterTry
<1> QED BY <1>1, <1>2 DEF Built

-----------------------------------------------------------------------------
(* Statements are added only where the block has not been ended            *)

LEMMA Unfinished ==
  ASSUME NEW s, Struct, NEW ps, NEW ss, NEW c, NEW b, Steady(tree, frames, ps, ss, c, b), CanAdd(s)
  PROVE  ~Terminated(c, b) /\ b \in DOMAIN c /\ Straight(c[b])
<1> DEFINE n == Top(frames).node  slot == Top(frames).slot
<1>1. KidsIn(tree, n, slot) = Here /\ LastIn(tree, n, slot) = LastKid(n, slot)
  BY DEF KidsIn, Here, Kids, LastIn, LastKid
<1>2. Here # {} => Completes[LastKid(n, slot)] = TRUE
  BY DEF CanAdd
<1>3. ~Halted(tree, frames, ss)
  BY <1>1, <1>2, CompletesAre DEF Halted
<1>4. ~Terminated(c, b)
  BY <1>3 DEF Steady
<1>5. b \in DOMAIN c /\ (Ended1(c[b]) \/ Straight(c[b]))
  BY DEF Steady, Laid, Flowing
<1> QED BY <1>4, <1>5, Terminators

LEMMA OwnAreNew ==
  ASSUME NEW t, NEW u, Grows(t, u), NEW L, L = Len(t) + 1, NEW f, Nested(t, f), NEW c, NEW b, Laid(t, f, c, b)
  PROVE  \A y : y[1] = L => y # b /\ y \notin DOMAIN c /\ Was(c, y) = <<>> /\ y \notin Expected(t, f)
<1>1. Len(t) \in Nat /\ L \notin 1..Len(t)
  BY NamesGrow
<1>2. \A o \in Opened(f) : o[1] \in 1..Len(t)
  BY SameSets
<1>3. ASSUME NEW y, y[1] = L
      PROVE  y # b /\ y \notin DOMAIN c /\ Was(c, y) = <<>> /\ y \notin Expected(t, f)
  <2>1. y \notin DOMAIN c
    BY <1>1, <1>3 DEF Laid
  <2>2. y # b
    BY <2>1 DEF Laid
  <2>3. y \notin Expected(t, f)
    BY <1>1, <1>2, <1>3, ExpectedOwn
  <2> QED BY <2>1, <2>2, <2>3 DEF Was
<1> QED BY <1>3

(* A handler that leaves the frames as they are.                           *)
LEMMA LeafSteady ==
  ASSUME NEW t, NEW f, NEW x, NEW u, Stands(t, f, x, u), NEW L, L = Len(t) + 1, x.kind \in LeafKinds,
         NEW ps, NEW ss, NEW c, NEW b, Steady(t, f, ps, ss, c, b),
         NEW W, NEW V, NEW c2, Stage(c, W, V, c2), b \in W, NEW b2 \in DOMAIN c2, V \subseteq {b2},
         \A y \in W \cup V : y = b \/ (y[1] = L /\ y[2] # "pad"), b2 = b \/ (b2[1] = L /\ b2[2] # "pad"),
         NEW ss2, HasScopes(u, f, ss2), Terminated(c2, b2) => Halted(u, f, ss2)
  PROVE  Steady(u, f, ps, ss2, c2, b2)
<1>1. /\ Grows(t, u) /\ Shaped(u) /\ Len(u) = L /\ L \in 1..Len(u) /\ u[L] = x
      /\ \A o \in Opened(f) : o[1] \in 1..Len(t) /\ u[o[1]] = t[o[1]]
  BY Standing
<1>2. Nested(t, f) /\ Shaped(t) /\ Len(t) \in Nat /\ 1..Len(t) \subseteq 1..Len(u)
  <2>1. Nested(t, f) /\ Shaped(t)
    BY DEF Stands
  <2> QED BY <1>1, <2>1, NamesGrow
<1>3. OpenTries(u, f) = OpenTries(t, f) /\ Expected(u, f) = Expected(t, f)
  BY <1>1, <1>2, SameSets DEF Alike
<1>4. Laid(t, f, c, b) /\ PadsMatch(t, f, ps, c, b) /\ Flowing(t, f, ps, c, b)
  BY DEF Steady
<1>5. \A y : y[1] = L => y # b /\ y \notin DOMAIN c /\ Was(c, y) = <<>> /\ y \notin Expected(t, f)
  BY <1>1, <1>2, <1>4, OwnAreNew
<1>6. Touched(c, b, c2, b2, L)
  BY StageTouches
<1>7. PadsMatch(u, f, ps, c2, b2)
  <2>1. \A m \in 1..Len(u) : u[m].kind = "try" => m \in 1..Len(t)
    BY <1>1, <1>2 DEF LeafKinds, JumpKinds
  <2> QED BY <1>1, <1>3, <1>4, <1>6, <2>1, PadsKept
<1>8. Laid(u, f, c2, b2)
  <2>1. ASSUME NEW y \in DOMAIN c2
        PROVE  y[1] \in 1..Len(u)
    <3>1. y \in DOMAIN c \/ y \in W \cup V
      BY DEF Stage
    <3> QED BY <1>1, <1>2, <1>4, <3>1 DEF Laid
  <2>2. Built(u, f, c2)
    <3>1. Built(t, f, c) /\ DOMAIN c \subseteq DOMAIN c2
      BY <1>4 DEF Laid, Stage
    <3> QED BY <1>1, <3>1, BuiltOn
  <2>3. ASSUME NEW y \in Expected(u, f)
        PROVE  y # b2 /\ Was(c2, y) = <<>>
    <3>1. y # b /\ Was(c, y) = <<>> /\ y[1] # L
      BY <1>3, <1>4, <1>5 DEF Laid
    <3> QED BY <3>1 DEF Stage
  <2> QED BY <2>1, <2>2, <2>3 DEF Laid
<1>9. Flowing(u, f, ps, c2, b2)
  <2>1. V \subseteq Pending(u, f, ps, b2)
    BY DEF Pending
  <2>2. \A y \in Pending(t, f, ps, b) : y \in W \/ y \in Pending(u, f, ps, b2)
    BY <1>3 DEF Pending
  <2> QED BY <1>4, <2>1, <2>2, FlowsOn
<1> QED BY <1>7, <1>8, <1>9 DEF Steady

LEMMA LeafScopesStay ==
  ASSUME NEW t, NEW f, NEW x, NEW u, Stands(t, f, x, u), NEW ss, HasScopes(t, f, ss)
  PROVE  HasScopes(u, f, ss)
<1>1. Grows(t, u) /\ \A o \in Opened(f) : o[1] \in 1..Len(t) /\ u[o[1]] = t[o[1]]
  BY Standing
<1>2. ScopedIn(u, f) = ScopedIn(t, f)
  BY <1>1, SameSets DEF Alike, Stands
<1> QED BY <1>1, <1>2, ScopesStay

LEMMA JumpHalts ==
  ASSUME NEW t, NEW f, NEW x, NEW u, Stands(t, f, x, u), x.kind \in JumpKinds, NEW ss,
         x.kind \in {"return", "throw"} /\ t[Top(f).node].kind \in {"block", "function"} => Top(ss).isDeinitialized
  PROVE  Halted(u, f, ss)
<1> DEFINE L == Len(t) + 1  n == Top(f).node  slot == Top(f).slot
<1>1. /\ Grows(t, u) /\ Shaped(u) /\ Len(u) = L /\ L \in 1..Len(u) /\ u[L] = x
  BY Standing
<1>2. x.parent = n /\ x.slot = slot /\ Len(t) \in Nat /\ n \in 1..Len(t) /\ u[n] = t[n] /\ Len(u) \in Nat
  <2>1. x.parent = n /\ x.slot = slot /\ Shaped(t) /\ Nested(t, f)
    BY DEF Stands, Belongs
  <2>2. n \in 1..Len(t)
    <3>1. Top(f) \in [node : 1..Len(t), slot : Nat]
      BY <2>1, Frames
    <3> QED BY <3>1
  <2> QED BY <1>1, <2>1, <2>2, NamesGrow DEF Grows
<1> HIDE DEF L, n, slot
<1>3. L \in KidsIn(u, n, slot)
  BY <1>1, <1>2 DEF KidsIn
<1>4. LastIn(u, n, slot) = L
  <2>1. LastIn(u, n, slot) \in KidsIn(u, n, slot) /\ L <= LastIn(u, n, slot)
    BY <1>1, <1>3, LastIs
  <2>2. LastIn(u, n, slot) \in 1..Len(u)
    BY <2>1 DEF KidsIn
  <2> QED BY <1>1, <1>2, <2>1, <2>2
<1>5. CompletesIn(u)[L] = FALSE
  <2>1. ~CompletesIn(u)[L]
    BY <1>1, JumpsEnd
  <2>2. CompletesIn(u)[L] \in BOOLEAN
    BY <1>1, CompletesIs, CompletesBoolean
  <2> QED BY <2>1, <2>2
<1>6. Climb(u)[L] = {n} \cup Climb(u)[n] /\ Climb(u)[n] \subseteq 0..(n - 1)
  <2>1. Climb(u)[L] = {u[L].parent} \cup Climb(u)[u[L].parent]
    BY <1>1, ShapedIsRooted, Climbing
  <2>2. n \in 1..Len(u)
    BY <1>1, <1>2, NamesGrow
  <2> QED BY <1>1, <1>2, <2>1, <2>2, Paths
<1>7. Jumped(u, n, ss, L)
  <2>1. \A m \in Climb(u)[L] : m > n => u[m].kind = "block"
    BY <1>2, <1>6
  <2> QED BY <1>1, <1>2, <1>6, <2>1 DEF Jumped, n
<1> QED BY <1>3, <1>4, <1>5, <1>7 DEF Halted, n, slot

LEMMA TopScope ==
  ASSUME NEW t, Shaped(t), NEW f, Nested(t, f), NEW ss, HasScopes(t, f, ss), Scoped(t, Top(f).node)
  PROVE  /\ ss # <<>> /\ Len(ss) \in Nat \ {0} /\ Top(ss) = ss[Len(ss)] /\ Top(ss) \in ScopeRecords(t)
         /\ Top(ss).vals = Declared(t, Top(f).node)
<1> DEFINE n == Top(f).node
<1>1. Openings(t, Opened(f), n, Top(f).slot)
  BY Frames
<1>2. \A k : k \in ScopedIn(t, f) <=> \E o \in Opened(f) : k = o[1] /\ Scoped(t, o[1])
  BY Readings
<1> HIDE DEF n
<1>3. n \in ScopedIn(t, f) /\ \A m \in ScopedIn(t, f) : m <= n
  <2>1. <<n, Top(f).slot>> \in Opened(f) /\ \A o \in Opened(f) : o[1] <= n
    BY <1>1 DEF Openings
  <2> QED BY <1>2, <2>1 DEF n
<1> QED BY <1>3, ScopeOnTop DEF n

LEMMA FlagIsSet ==
  ASSUME NEW t, Shaped(t), NEW f, Nested(t, f), NEW ss, HasScopes(t, f, ss),
         t[Top(f).node].kind \in {"block", "function"}
  PROVE  Top(Deinitialized(ss)).isDeinitialized
<1>1. ss # <<>> /\ Len(ss) \in Nat \ {0} /\ Top(ss) = ss[Len(ss)] /\ Top(ss) \in ScopeRecords(t)
  BY TopScope DEF Scoped
<1>2. ss \in Seq(ScopeRecords(t))
  BY DEF HasScopes, ScopesMatch, ScopeRecords
<1>3. Len(Deinitialized(ss)) = Len(ss) /\ Deinitialized(ss)[Len(ss)] = [ss[Len(ss)] EXCEPT !.isDeinitialized = TRUE]
  <2>1. DOMAIN ss = 1..Len(ss) /\ ss = [i \in 1..Len(ss) |-> ss[i]] /\ Len(ss) \in 1..Len(ss)
    BY <1>1, <1>2
  <2>2. \A i \in 1..Len(ss) : ss[i] \in ScopeRecords(t)
    BY <1>2
  <2> DEFINE new == Deinitialized(ss)
  <2>3. /\ DOMAIN new = 1..Len(ss) /\ new = [i \in 1..Len(ss) |-> new[i]]
        /\ \A i \in 1..Len(ss) : new[i] = IF i = Len(ss) THEN [ss[i] EXCEPT !.isDeinitialized = TRUE] ELSE ss[i]
    BY <2>1 DEF Deinitialized
  <2>4. \A i \in 1..Len(ss) : new[i] \in ScopeRecords(t)
    BY <2>2, <2>3 DEF ScopeRecords
  <2> HIDE DEF new
  <2>5. new \in Seq(ScopeRecords(t)) /\ Len(new) = Len(ss)
    BY <1>1, <2>3, <2>4
  <2> QED BY <2>1, <2>3, <2>5 DEF new
<1>4. Top(Deinitialized(ss)) = [ss[Len(ss)] EXCEPT !.isDeinitialized = TRUE]
  BY <1>3 DEF Top
<1> QED BY <1>1, <1>4 DEF ScopeRecords

-----------------------------------------------------------------------------
(* Statements that other statements are part of                            *)

LEMMA OpenSteady ==
  ASSUME NEW t, NEW f, NEW x, NEW u, NEW L, NEW slot, NEW g, Begun(t, f, x, u, L, slot, g),
         NEW ps, NEW ss, NEW c, NEW b, Steady(t, f, ps, ss, c, b),
         NEW W, NEW V, NEW c2, Stage(c, W, V, c2), b \in W, NEW b2 \in V,
         \A y \in W \cup {b2} : y = b \/ (y[1] = L /\ y[2] # "pad"),
         \A y \in V : y = b2 \/ y \in Reserved(u, L, slot) \/ (x.kind = "try" /\ y = Blk(L, "pad")),
         x.kind = "try" => Blk(L, "pad") \in V,
         \A y \in Reserved(u, L, slot) : y \notin W /\ y # b2, Ahead(u, L) \subseteq DOMAIN c2,
         NEW ss2, HasScopes(u, g, ss2)
  PROVE  Steady(u, g, Pushed(x.kind = "try", ps, Blk(L, "pad")), ss2, c2, b2)
<1> DEFINE ps2 == Pushed(x.kind = "try", ps, Blk(L, "pad"))
<1>1. /\ Grows(t, u) /\ Shaped(u) /\ Len(u) = L /\ L \in 1..Len(u) /\ u[L] = x /\ L = Len(t) + 1
      /\ \A o \in Opened(f) : o[1] \in 1..Len(t) /\ u[o[1]] = t[o[1]]
  BY Standing DEF Begun
<1>2. Nested(t, f) /\ Shaped(t) /\ Len(t) \in Nat /\ 1..Len(t) \subseteq 1..Len(u)
  <2>1. Nested(t, f) /\ Shaped(t)
    BY DEF Begun, Stands
  <2> QED BY <1>1, <2>1, NamesGrow
<1>3. OpenTries(u, f) = OpenTries(t, f) /\ Expected(u, f) = Expected(t, f)
  BY <1>1, <1>2, SameSets DEF Alike
<1>4. Laid(t, f, c, b) /\ PadsMatch(t, f, ps, c, b) /\ Flowing(t, f, ps, c, b)
  BY DEF Steady
<1>5. \A y : y[1] = L => y # b /\ y \notin DOMAIN c /\ Was(c, y) = <<>> /\ y \notin Expected(t, f)
  BY <1>1, <1>2, <1>4, OwnAreNew
<1>6. Enters(f, g, L, slot) /\ More(u, f, g, L, slot)
  BY Began
<1>7. /\ Expected(u, g) = Expected(t, f) \cup Reserved(u, L, slot)
      /\ x.kind = "try" => OpenTries(u, g) = OpenTries(t, f) \cup {L}
      /\ x.kind # "try" => OpenTries(u, g) = OpenTries(t, f)
  <2>1. x.kind = "try" => slot = 1
    BY DEF Begun
  <2> QED BY <1>1, <1>3, <1>6, <2>1 DEF More
<1>8. /\ b2 \in DOMAIN c2 /\ Straight(c2[b2]) /\ DOMAIN c \subseteq DOMAIN c2
      /\ \A y : y \notin W => Was(c2, y) = Was(c, y)
      /\ \A y \in DOMAIN c2 : y \in DOMAIN c \/ y \in W \/ y \in V
  BY DEF Stage
<1>9. \A y \in Reserved(u, L, slot) : y[1] = L /\ y[2] # "pad"
  BY ReservedOwn
<1>10. Touched(c, b, c2, b2, L)
  BY <1>8, StageTouches
<1>11. Blk(L, "pad")[1] = L /\ Blk(L, "pad")[2] = "pad"
  BY DEF Blk
<1>12. PadsMatch(u, g, ps2, c2, b2)
  <2>2. CASE x.kind = "try"
    <3>1. Blk(L, "pad") \in DOMAIN c2 /\ Blk(L, "pad") # b2 /\ Was(c2, Blk(L, "pad")) = <<>>
      BY <1>5, <1>8, <1>11, <2>2 DEF Stage
    <3>2. PadsMatch(u, g, Append(ps, Blk(L, "pad")), c2, b2)
      BY <1>1, <1>4, <1>7, <1>10, <2>2, <3>1, PadsPush
    <3> QED BY <2>2, <3>2 DEF Pushed
  <2>3. CASE x.kind # "try"
    <3>1. \A m \in 1..Len(u) : u[m].kind = "try" => m \in 1..Len(t)
      BY <1>1, <1>2, <2>3
    <3>2. PadsMatch(u, g, ps, c2, b2)
      BY <1>1, <1>4, <1>7, <1>10, <2>3, <3>1, PadsKept
    <3> QED BY <2>3, <3>2 DEF Pushed
  <2> QED BY <2>2, <2>3
<1>13. Elements(ps) \subseteq Elements(ps2) /\ (x.kind = "try" => Blk(L, "pad") \in Elements(ps2))
  <2>1. ps \in Seq(NamesOf(u))
    <3>1. ps \in Seq(NamesOf(t))
      BY <1>4 DEF PadsMatch
    <3> QED BY <1>1, <3>1, NamesGrow
  <2>2. Blk(L, "pad") \in NamesOf(u)
    <3>1. "pad" \in Parts /\ 0 \in Nat
      BY DEF Parts
    <3> QED BY <1>1, <3>1, Names
  <2>3. Elements(Append(ps, Blk(L, "pad"))) = Elements(ps) \cup {Blk(L, "pad")}
    BY <2>1, <2>2, SortedPush
  <2> QED BY <2>3 DEF Pushed
<1> HIDE DEF ps2
<1>14. Laid(u, g, c2, b2)
  <2>1. ASSUME NEW y \in DOMAIN c2
        PROVE  y[1] \in 1..Len(u)
    <3>1. CASE y \in DOMAIN c \/ y = b
      BY <1>2, <1>4, <3>1 DEF Laid
    <3>2. CASE y[1] = L
      BY <1>1, <3>2
    <3>3. y \in DOMAIN c \/ y = b \/ y[1] = L
      BY <1>8, <1>9, <1>11
    <3> QED BY <3>1, <3>2, <3>3
  <2>2. Built(u, g, c2)
    <3>1. Built(t, f, c)
      BY <1>4 DEF Laid
    <3>2. \A o \in Opened(g) : o \in Opened(f) \/ (o[1] = L /\ o[2] = slot)
      BY <1>6 DEF Enters
    <3>3. \A o : o[1] = L /\ o[2] = slot => AfterTry(u, o, c2)
      BY <1>1 DEF AfterTry, Begun
    <3> QED BY <1>1, <1>8, <3>1, <3>2, <3>3, BuiltOn
  <2>3. ASSUME NEW y \in Expected(u, g)
        PROVE  y # b2 /\ Was(c2, y) = <<>>
    <3>1. CASE y \in Expected(t, f)
      <4>1. y # b /\ Was(c, y) = <<>> /\ y[1] # L
        BY <1>4, <1>5, <3>1 DEF Laid
      <4> QED BY <1>8, <4>1
    <3>2. CASE y \in Reserved(u, L, slot)
      <4>1. Was(c, y) = <<>> /\ y \notin W /\ y # b2
        BY <1>5, <1>9, <3>2
      <4> QED BY <1>8, <4>1
    <3> QED BY <1>7, <3>1, <3>2
  <2> QED BY <1>8, <2>1, <2>2, <2>3 DEF Laid
<1>15. Flowing(u, g, ps2, c2, b2)
  <2>1. V \subseteq Pending(u, g, ps2, b2)
    BY <1>7, <1>13 DEF Pending
  <2>2. \A y \in Pending(t, f, ps, b) : y \in W \/ y \in Pending(u, g, ps2, b2)
    BY <1>7, <1>13 DEF Pending
  <2> QED BY <1>4, <2>1, <2>2, FlowsOn
<1>16. ~Terminated(c2, b2)
  BY <1>8, Terminators
<1> QED BY <1>12, <1>14, <1>15, <1>16 DEF Steady, ps2

LEMMA CloseSteady ==
  ASSUME NEW t, NEW f, NEW n, NEW slot, Shaped(t), Nested(t, f), n = Top(f).node, slot = Top(f).slot,
         t[n].kind # "function", t[n].kind = "try" => slot # 1, NEW g, g = Pop(f),
         NEW ps, NEW ss, NEW c, NEW b, Steady(t, f, ps, ss, c, b),
         NEW W, NEW V, NEW c2, Stage(c, W, V, c2), b \in W, NEW b2 \in DOMAIN c2, V \subseteq {b2},
         \A y \in W \cup {b2} : y = b \/ (y[1] = n /\ y[2] # "pad"),
         \A y \in Reserved(t, n, slot) : y \in W \/ y = b2,
         NEW ss2, HasScopes(t, g, ss2), Terminated(c2, b2) => Halted(t, g, ss2)
  PROVE  Steady(t, g, ps, ss2, c2, b2)
<1>1. Inner(t, f, n, slot)
  BY InnerIs
<1>2. Fewer(t, f, g, n, slot) /\ Grows(t, t) /\ n \in 1..Len(t)
  <2>1. Fewer(t, f, g, n, slot)
    BY LeftIs
  <2> QED BY <1>1, <2>1 DEF Inner
<1>3. /\ Expected(t, f) = Expected(t, g) \cup Reserved(t, n, slot)
      /\ \A o \in Opened(g) : o \in Opened(f) /\ o[1] < n
      /\ \A o \in Opened(f) : o[1] \in 1..Len(t) /\ (o[1] = n => o = <<n, slot>>)
  BY <1>2 DEF Fewer
<1>4. Laid(t, f, c, b) /\ PadsMatch(t, f, ps, c, b) /\ Flowing(t, f, ps, c, b)
  BY DEF Steady
<1>5. /\ DOMAIN c \subseteq DOMAIN c2
      /\ \A y : y \notin W => Was(c2, y) = Was(c, y)
      /\ \A y \in DOMAIN c2 : y \in DOMAIN c \/ y \in W \/ y \in V
  BY DEF Stage
<1>6. Touched(c, b, c2, b2, n)
  BY StageTouches
<1>7. PadsMatch(t, g, ps, c2, b2)
  <2>1. OpenTries(t, g) = OpenTries(t, f) \ {n}
    BY <1>2 DEF Fewer
  <2>2. n \notin OpenTries(t, f)
    <3>1. SUFFICES ASSUME n \in OpenTries(t, f) PROVE FALSE
      OBVIOUS
    <3>2. PICK o \in Opened(f) : n = o[1] /\ t[o[1]].kind = "try" /\ o[2] = 1
      BY <3>1, Readings
    <3>3. o = <<n, slot>>
      BY <1>3, <3>2
    <3> QED BY <3>2, <3>3
  <2>3. OpenTries(t, g) = OpenTries(t, f)
    BY <2>1, <2>2
  <2> QED BY <1>2, <1>4, <1>6, <2>3, PadsKept
<1>8. \A y \in Expected(t, g) : y[1] # n
  <2> SUFFICES ASSUME NEW y \in Expected(t, g)
               PROVE  y[1] # n
    OBVIOUS
  <2>1. PICK o \in Opened(g) : y[1] = o[1]
    BY ExpectedOwn
  <2>2. o[1] < n /\ o[1] \in 1..Len(t)
    BY <1>3
  <2> QED BY <1>2, <2>1, <2>2
<1>9. Laid(t, g, c2, b2)
  <2>1. ASSUME NEW y \in DOMAIN c2
        PROVE  y[1] \in 1..Len(t)
    <3>1. CASE y \in DOMAIN c \/ y = b
      BY <1>4, <3>1 DEF Laid
    <3>2. CASE y[1] = n
      BY <1>2, <3>2
    <3> QED BY <1>5, <3>1, <3>2
  <2>2. Built(t, g, c2)
    <3>1. Built(t, f, c)
      BY <1>4 DEF Laid
    <3> QED BY <1>3, <1>5, <3>1, BuiltOn
  <2>3. ASSUME NEW y \in Expected(t, g)
        PROVE  y # b2 /\ Was(c2, y) = <<>>
    <3>1. y # b /\ Was(c, y) = <<>> /\ y[1] # n
      BY <1>3, <1>4, <1>8 DEF Laid
    <3> QED BY <1>5, <3>1
  <2> QED BY <2>1, <2>2, <2>3 DEF Laid
<1>10. Flowing(t, g, ps, c2, b2)
  <2>1. V \subseteq Pending(t, g, ps, b2)
    BY DEF Pending
  <2>2. \A y \in Pending(t, f, ps, b) : y \in W \/ y \in Pending(t, g, ps, b2)
    BY <1>3 DEF Pending
  <2> QED BY <1>4, <2>1, <2>2, FlowsOn
<1> QED BY <1>7, <1>9, <1>10 DEF Steady

(* A block of those that the statement has left for later is taken.        *)
HandsOn(t, n, slot, next, y) ==
  /\ y \in Reserved(t, n, slot) /\ y \notin Reserved(t, n, next)
  /\ Reserved(t, n, next) \subseteq Reserved(t, n, slot)
  /\ Reserved(t, n, slot) \subseteq Reserved(t, n, next) \cup {y}

(* The innermost open statement goes from one of its parts to another.     *)
Moves(t, f, n, slot, next, g) ==
  /\ Shaped(t) /\ Nested(t, f) /\ n = Top(f).node /\ slot = Top(f).slot
  /\ t[n].kind = "if" \/ t[n].kind = "switch"
  /\ next \in Nat /\ Fits(t, n, next) /\ g = Append(Pop(f), Frame(n, next))

LEMMA MoveSteady ==
  ASSUME NEW t, NEW f, NEW n, NEW slot, NEW next, NEW g, Moves(t, f, n, slot, next, g),
         NEW ps, NEW ss, NEW c, NEW b, Steady(t, f, ps, ss, c, b),
         NEW c2, NEW b2, Stage(c, {b}, {b2}, c2), HandsOn(t, n, slot, next, b2)
  PROVE  Steady(t, g, ps, ss, c2, b2)
<1>0. /\ Shaped(t) /\ Nested(t, f) /\ n = Top(f).node /\ slot = Top(f).slot /\ t[n].kind \in {"if", "switch"}
      /\ next \in Nat /\ Fits(t, n, next) /\ g = Append(Pop(f), Frame(n, next))
  BY DEF Moves
<1>1. Inner(t, f, n, slot)
  BY <1>0, InnerIs
<1>2. n # 1 /\ n \in 1..Len(t) /\ Grows(t, t) /\ t[n].kind \notin {"function", "block", "try"}
  BY <1>0, <1>1 DEF Inner
<1>3. Nested(t, g) /\ GoesOn(f, g, n, slot, next)
  BY <1>0, <1>2, Moved DEF GoesOn
<1>4. Shifted(t, f, g, n, slot, next)
  BY <1>0, <1>3, MovedSets
<1>5. Leaves(f, Pop(f), n, slot) /\ Fewer(t, f, Pop(f), n, slot)
  BY <1>0, <1>2, LeftIs
<1>6. More(t, Pop(f), g, n, next)
  <2>1. Enters(Pop(f), g, n, next)
    BY <1>0, <1>3, <1>5 DEF Enters, Leaves, GoesOn
  <2> QED BY <1>0, <2>1, MoreSets
<1>7. /\ Expected(t, g) = Expected(t, Pop(f)) \cup Reserved(t, n, next)
      /\ Expected(t, f) = Expected(t, Pop(f)) \cup Reserved(t, n, slot)
      /\ \A o \in Opened(Pop(f)) : o \in Opened(f) /\ o[1] < n
      /\ \A o \in Opened(f) : o[1] \in 1..Len(t)
  BY <1>5, <1>6 DEF More, Fewer
<1>8. Laid(t, f, c, b) /\ PadsMatch(t, f, ps, c, b) /\ Flowing(t, f, ps, c, b) /\ HasScopes(t, f, ss)
  BY DEF Steady
<1>9. /\ DOMAIN c \subseteq DOMAIN c2 /\ b2 \in DOMAIN c2 /\ Straight(c2[b2])
      /\ \A y : y # b => Was(c2, y) = Was(c, y)
      /\ \A y \in DOMAIN c2 : y \in DOMAIN c \/ y = b \/ y = b2
  BY DEF Stage
<1>10. b2[1] = n /\ b2[2] # "pad"
  BY <1>0, ReservedOwn DEF HandsOn
<1>11. Touched(c, b, c2, b2, n)
  BY <1>9, <1>10 DEF Touched
<1>12. PadsMatch(t, g, ps, c2, b2)
  <2>1. OpenTries(t, g) = OpenTries(t, f)
    BY <1>2, <1>4 DEF Shifted
  <2> QED BY <1>0, <1>2, <1>8, <1>11, <2>1, PadsKept
<1>13. \A y \in Expected(t, Pop(f)) : y[1] # n
  <2> SUFFICES ASSUME NEW y \in Expected(t, Pop(f))
               PROVE  y[1] # n
    OBVIOUS
  <2>1. PICK o \in Opened(Pop(f)) : y[1] = o[1]
    BY <1>0, ExpectedOwn
  <2> QED BY <1>2, <1>7, <2>1
<1>14. Laid(t, g, c2, b2)
  <2>1. \A y \in DOMAIN c2 : y[1] \in 1..Len(t)
    BY <1>2, <1>8, <1>9, <1>10 DEF Laid
  <2>2. Built(t, g, c2)
    <3>1. Built(t, f, c)
      BY <1>8 DEF Laid
    <3>2. \A o \in Opened(g) : o \in Opened(f) \/ o[1] = <<n, slot>>[1]
      BY <1>3 DEF GoesOn
    <3>3. <<n, slot>> \in Opened(f)
      BY <1>1 DEF Inner
    <3>4. \A o \in Opened(g) : o \in Opened(f) \/ o[1] = n
      BY <3>2
    <3>5. \A o : o[1] = n => AfterTry(t, o, c2)
      BY <1>2 DEF AfterTry
    <3> QED BY <1>9, <3>1, <3>2, <3>3, <3>4, <3>5, BuiltOn
  <2>3. ASSUME NEW y \in Expected(t, g)
        PROVE  y # b2 /\ Was(c2, y) = <<>>
    <3>1. y \in Expected(t, f)
      BY <1>7 DEF HandsOn
    <3>2. y # b /\ Was(c, y) = <<>>
      BY <1>8, <3>1 DEF Laid
    <3>3. y # b2
      BY <1>7, <1>10, <1>13 DEF HandsOn
    <3> QED BY <1>9, <3>2, <3>3
  <2> QED BY <1>9, <2>1, <2>2, <2>3 DEF Laid
<1>15. Flowing(t, g, ps, c2, b2)
  <2>1. {b2} \subseteq Pending(t, g, ps, b2)
    BY DEF Pending
  <2>2. \A y \in Pending(t, f, ps, b) : y \in {b} \/ y \in Pending(t, g, ps, b2)
    BY <1>7 DEF Pending, HandsOn
  <2> QED BY <1>8, <2>1, <2>2, FlowsOn
<1>16. HasScopes(t, g, ss)
  <2>1. ScopedIn(t, g) = ScopedIn(t, f) /\ \A o \in Opened(f) : t[o[1]] = t[o[1]]
    BY <1>4 DEF Shifted
  <2> QED BY <1>0, <1>2, <1>8, <2>1, ScopesStay
<1>17. ~Terminated(c2, b2)
  BY <1>9, Terminators
<1> QED BY <1>3, <1>12, <1>14, <1>15, <1>16, <1>17 DEF Steady

-----------------------------------------------------------------------------
(* The handlers of the statements without others inside *)

Going == Steady(tree, frames, pads, scopes, code, at)

(* What a handler can rely on before it writes. *)
Writable ==
  /\ Straight(code[at]) /\ at \in DOMAIN code /\ Was(code, at) = code[at] /\ Stage(code, {}, {}, code)
  /\ \A y : y[1] = New => y # at /\ Was(code, y) = <<>>
  /\ HasScopes(tree, frames, scopes)

LEMMA StageHere ==
  ASSUME NEW t, NEW f, NEW ps, NEW ss, NEW c, NEW b, Steady(t, f, ps, ss, c, b)
  PROVE  /\ Stage(c, {}, {}, c) /\ b \in DOMAIN c /\ Was(c, b) = c[b] /\ (Straight(c[b]) \/ Ended1(c[b]))
         /\ \A y \in DOMAIN c : Straight(c[y]) \/ Ended1(c[y])
<1>1. b \in DOMAIN c /\ \A y \in DOMAIN c : Straight(c[y]) \/ Ended1(c[y])
  BY DEF Steady, Laid, Flowing
<1>2. \A y \in DOMAIN c : IsList(c[y])
  BY <1>1, StraightIsList
<1>3. Stage(c, {}, {}, c)
  BY <1>2, StageBegins
<1> QED BY <1>1, <1>3 DEF Was

LEMMA StandsNew ==
  ASSUME NEW x, NEW u, Stands(tree, frames, x, u)
  PROVE  Grows(tree, u) /\ Shaped(u) /\ Len(u) = New /\ New \in 1..Len(u) /\ u[New] = x
<1>1. ASSUME NEW L, L = Len(tree) + 1
      PROVE  Grows(tree, u) /\ Shaped(u) /\ Len(u) = L /\ L \in 1..Len(u) /\ u[L] = x
  BY <1>1, Standing
<1> QED BY <1>1 DEF New

LEMMA CanWrite ==
  ASSUME NEW s \in Shapes, family \in DOMAIN Families, Struct, Going, CanAdd(s), NEW u, u = Append(tree, Node(s))
  PROVE  /\ Writable /\ Stands(tree, frames, Node(s), u) /\ Grows(tree, u) /\ Shaped(u) /\ New \in 1..Len(u)
         /\ u[New] = Node(s) /\ Node(s).kind = s.kind /\ Node(s).opts = s.opts /\ Node(s).decl = s.decl
         /\ Node(s).clauses = s.clauses
<1> DEFINE x == Node(s)
<1>1. /\ Stands(tree, frames, x, u) /\ x.kind = s.kind /\ x.opts = s.opts /\ x.decl = s.decl
      /\ x.clauses = s.clauses
  BY CanStand
<1> HIDE DEF x
<1>2. Grows(tree, u) /\ Shaped(u) /\ Len(u) = New /\ New \in 1..Len(u) /\ u[New] = x
  BY <1>1, StandsNew
<1>3. Straight(code[at]) /\ at \in DOMAIN code
  BY Unfinished DEF Going
<1>4. Stage(code, {}, {}, code) /\ Was(code, at) = code[at]
  BY StageHere DEF Going
<1>5. Nested(tree, frames) /\ Laid(tree, frames, code, at) /\ HasScopes(tree, frames, scopes)
  BY DEF Struct, Going, Steady
<1>6. \A y : y[1] = New => y # at /\ Was(code, y) = <<>>
  BY <1>2, <1>5, OwnAreNew DEF New
<1>7. Writable
  BY <1>3, <1>4, <1>5, <1>6 DEF Writable
<1> QED BY <1>1, <1>2, <1>7 DEF x

(* The block where the code is built is continued, or ended by a jump.     *)
LEMMA LeafContinues ==
  ASSUME NEW s \in Shapes, family \in DOMAIN Families, Struct, Going, CanAdd(s), Leaf(s), s.kind \in LeafKinds,
         NEW r, Straight(r), code' = code ++ In(at, r), at' = at, pads' = pads, scopes' = scopes
  PROVE  Going'
<1> DEFINE x == Node(s)
<1>1. tree' = Append(tree, x) /\ frames' = frames
  BY DEF Leaf
<1>2. Writable /\ Stands(tree, frames, x, tree') /\ x.kind = s.kind
  BY <1>1, CanWrite
<1> HIDE DEF x
<1>3. Stage(code, {at}, {at}, code')
  <2>1. Stage(code, {} \cup {at}, {} \cup {at}, code ++ In(at, r))
    BY <1>2, StageExtends DEF Writable
  <2> QED BY <2>1
<1>4. at \in DOMAIN code' /\ ~Terminated(code', at)
  <2>1. at \in DOMAIN code' /\ Straight(code'[at])
    BY <1>3 DEF Stage
  <2> QED BY <2>1, Terminators
<1>5. HasScopes(tree', frames, scopes)
  BY <1>2, LeafScopesStay DEF Writable
<1>6. Steady(tree', frames, pads, scopes, code', at)
  BY <1>2, <1>3, <1>4, <1>5, LeafSteady DEF Going
<1> QED BY <1>1, <1>6 DEF Going

LEMMA LeafStops ==
  ASSUME NEW s \in Shapes, family \in DOMAIN Families, Struct, Going, CanAdd(s), Leaf(s), s.kind \in LeafKinds,
         NEW r, Ended1(r), code' = code ++ In(at, r), at' = at, pads' = pads,
         HasScopes(tree', frames, scopes'), Halted(tree', frames, scopes')
  PROVE  Going'
<1> DEFINE x == Node(s)
<1>1. tree' = Append(tree, x) /\ frames' = frames
  BY DEF Leaf
<1>2. Writable /\ Stands(tree, frames, x, tree') /\ x.kind = s.kind
  BY <1>1, CanWrite
<1> HIDE DEF x
<1>3. Stage(code, {at}, {}, code')
  <2>1. Stage(code, {} \cup {at}, {} \ {at}, code ++ In(at, r))
    BY <1>2, StageEnds DEF Writable
  <2> QED BY <2>1
<1>4. at \in DOMAIN code'
  BY <1>3 DEF Stage
<1>5. Steady(tree', frames, pads, scopes', code', at)
  BY <1>2, <1>3, <1>4, LeafSteady DEF Going
<1> QED BY <1>1, <1>5 DEF Going

LEMMA ExpressionGoes ==
  ASSUME NEW s \in Shapes, family \in DOMAIN Families, Struct, Going, Expression(s) \/ Closure(s) \/ Logic(s)
  PROVE  Going' /\ phase' = "compiling"
<1>1. CASE Expression(s) \/ Closure(s)
  <2>1. /\ CanAdd(s) /\ Leaf(s) /\ s.kind \in LeafKinds /\ code' = code ++ In(at, <<Eval(Blk(New, "eval"))>>)
        /\ at' = at /\ pads' = pads /\ scopes' = scopes /\ phase' = "compiling"
    BY <1>1 DEF Expression, Closure, CanAdd, LeafKinds
  <2>2. Straight(<<Eval(Blk(New, "eval"))>>)
    BY Simple, StraightOne
  <2> QED BY <2>1, <2>2, LeafContinues
<1>2. CASE Logic(s)
  <2>1. /\ CanAdd(s) /\ Leaf(s) /\ s.kind \in LeafKinds
        /\ code' = code ++ In(at, <<Eval(Blk(New, "lhs")), Eval(Blk(New, "rhs"))>>)
        /\ at' = at /\ pads' = pads /\ scopes' = scopes /\ phase' = "compiling"
    BY <1>2 DEF Logic, CanAdd, LeafKinds
  <2>2. Straight(<<Eval(Blk(New, "lhs")), Eval(Blk(New, "rhs"))>>)
    BY Simple, StraightTwo
  <2> QED BY <2>1, <2>2, LeafContinues
<1> QED BY <1>1, <1>2

(* Nothing has been written into a block yet.                              *)
LEMMA StageFresh ==
  ASSUME NEW c, NEW W, NEW V, NEW e, Stage(c, W, V, e), NEW y, y \notin W, Was(c, y) = <<>>
  PROVE  Straight(Was(e, y)) /\ Was(e, y) = <<>>
<1>1. Was(e, y) = <<>>
  BY DEF Stage
<1> QED BY <1>1, StraightNone

LEMMA TernaryGoes ==
  ASSUME NEW s \in Shapes, family \in DOMAIN Families, Struct, Going, Ternary(s)
  PROVE  Going' /\ phase' = "compiling"
<1> DEFINE x == Node(s)
           true == Blk(New, "lhs")  false == Blk(New, "rhs")  end == Blk(New, "endTernary")
           r == <<Eval(Blk(New, "cond")), Br({true, false})>>
           r1 == <<Eval(true), Br({end})>>  r2 == <<Eval(false), Br({end})>>
           c1 == code ++ In(at, r)
           c2 == c1 ++ In(true, r1)
           c3 == c2 ++ In(false, r2)
           c4 == c3 ++ In(end, <<>>)
<1>1. /\ CanAdd(s) /\ Leaf(s) /\ s.kind = "ternary" /\ tree' = Append(tree, x) /\ frames' = frames
      /\ code' = c4 /\ at' = end /\ pads' = pads /\ scopes' = scopes /\ phase' = "compiling"
  BY DEF Ternary, Leaf, CanAdd
<1>2. Writable /\ Stands(tree, frames, x, tree') /\ x.kind = "ternary"
  BY <1>1, CanWrite
<1>3. Ended1(r) /\ Ended1(r1) /\ Ended1(r2)
  BY Simple, StraightTwo
<1>4. /\ true[1] = New /\ true[2] = "lhs" /\ false[1] = New /\ false[2] = "rhs"
      /\ end[1] = New /\ end[2] = "endTernary" /\ true # false /\ true # end /\ false # end
  BY DEF Blk
<1>5. /\ true # at /\ false # at /\ end # at /\ Was(code, true) = <<>> /\ Was(code, false) = <<>>
      /\ Was(code, end) = <<>>
  BY <1>2, <1>4 DEF Writable
<1> HIDE DEF x, true, false, end, r, r1, r2
<1>6. Stage(code, {at}, {}, c1)
  <2>1. Stage(code, {} \cup {at}, {} \ {at}, c1)
    BY <1>2, <1>3, StageEnds DEF Writable
  <2> QED BY <2>1
<1> HIDE DEF c1
<1>7. Stage(code, {at, true}, {}, c2)
  <2>1. Straight(Was(c1, true))
    BY <1>5, <1>6, StageFresh
  <2>2. Stage(code, {at} \cup {true}, {} \ {true}, c2)
    BY <1>3, <1>6, <2>1, StageEnds
  <2>3. {at} \cup {true} = {at, true} /\ {} \ {true} = {}
    OBVIOUS
  <2> QED BY <2>2, <2>3
<1> HIDE DEF c2
<1>8. Stage(code, {at, true, false}, {}, c3)
  <2>1. Straight(Was(c2, false))
    BY <1>4, <1>5, <1>7, StageFresh
  <2>2. Stage(code, {at, true} \cup {false}, {} \ {false}, c3)
    BY <1>3, <1>7, <2>1, StageEnds
  <2>3. {at, true} \cup {false} = {at, true, false} /\ {} \ {false} = {}
    OBVIOUS
  <2> QED BY <2>2, <2>3
<1> HIDE DEF c3
<1>9. Stage(code, {at, true, false}, {end}, c4)
  <2>1. Straight(Was(c3, end))
    BY <1>4, <1>5, <1>8, StageFresh
  <2>2. Stage(code, {at, true, false}, {} \cup {end}, c4)
    BY <1>8, <2>1, StageAdds
  <2>3. {} \cup {end} = {end}
    OBVIOUS
  <2> QED BY <2>2, <2>3
<1> HIDE DEF c4
<1>10. end \in DOMAIN c4 /\ ~Terminated(c4, end)
  <2>1. end \in DOMAIN c4 /\ Straight(c4[end])
    BY <1>9 DEF Stage
  <2> QED BY <2>1, Terminators
<1>11. HasScopes(tree', frames, scopes)
  BY <1>2, LeafScopesStay DEF Writable
<1>12. New = Len(tree) + 1 /\ x.kind \in LeafKinds
  BY <1>2 DEF New, LeafKinds
<1>13. \A y \in {at, true, false} \cup {end} : y = at \/ (y[1] = New /\ y[2] # "pad")
  BY <1>4
<1>14. end = at \/ (end[1] = New /\ end[2] # "pad")
  BY <1>4
<1>15. Steady(tree', frames, pads, scopes, c4, end)
  BY <1>2, <1>9, <1>10, <1>11, <1>12, <1>13, <1>14, LeafSteady DEF Going
<1> QED BY <1>1, <1>15 DEF Going

LEMMA BreakGoes1 ==
  ASSUME NEW s \in Shapes, family \in DOMAIN Families, Struct, Going, Break(s)
  PROVE  Going' /\ phase' = "compiling"
<1> DEFINE x == Node(s)
           q == IF tree[BreakTarget[1]].kind = "for" THEN ReleaseAll(BodyExit) ELSE <<>>
           r == q \o <<Br({BreakTarget})>>
<1>1. /\ CanAdd(s) /\ Leaf(s) /\ s.kind = "break" /\ tree' = Append(tree, x) /\ frames' = frames
      /\ code' = code ++ In(at, r) /\ at' = at /\ pads' = pads /\ scopes' = scopes /\ phase' = "compiling"
  BY DEF Break, Leaf, CanAdd
<1>2. Writable /\ Stands(tree, frames, x, tree') /\ x.kind = "break"
  BY <1>1, CanWrite
<1>3. Ended1(r)
  <2>1. Straight(q)
    BY Simple, StraightNone
  <2>2. Ended1(<<Br({BreakTarget})>>)
    BY Simple, StraightOne
  <2> QED BY <2>1, <2>2, StraightBoth
<1> HIDE DEF x, r
<1>4. HasScopes(tree', frames, scopes')
  BY <1>1, <1>2, LeafScopesStay DEF Writable
<1>5. Halted(tree', frames, scopes')
  BY <1>2, JumpHalts DEF JumpKinds
<1> QED BY <1>1, <1>3, <1>4, <1>5, LeafStops DEF LeafKinds, JumpKinds

LEMMA StrayContinues ==
  ASSUME NEW s \in Shapes, family \in DOMAIN Families, Struct, Going, CanAdd(s), s.kind = "continue",
         NEW u, u = Append(tree, Node(s)), ~UnderIf
  PROVE  Explained(u)
<1> DEFINE x == Node(s)  n == Top(frames).node
<1>1. /\ Stands(tree, frames, x, u) /\ x.kind = "continue" /\ x.parent = n /\ Grows(tree, u) /\ New \in 1..Len(u)
      /\ u[New] = x
  BY CanWrite DEF Node
<1>2. n \in 1..Len(tree)
  <2>1. Top(frames) \in [node : 1..Len(tree), slot : Nat]
    BY Frames DEF Struct
  <2> QED BY <2>1
<1>3. Shaped(tree) /\ Len(tree) \in Nat /\ u[n] = tree[n]
  BY <1>1, <1>2, NamesGrow DEF Grows
<1> HIDE DEF x, n
<1>4. ~UnderIfIn(u, New)
  <2>1. u[New].parent = n /\ Parent = tree[n]
    BY <1>1 DEF Parent, n
  <2>2. tree[n].kind # "if"
    BY <2>1 DEF UnderIf
  <2>3. CASE tree[n].kind = "block"
    <3>1. n # 1 /\ tree[n].parent \in 1..(n - 1)
      BY <1>2, <1>3, <2>3 DEF Shaped
    <3>2. tree[n].parent \in 1..Len(tree) /\ tree[n].parent # 0
      BY <1>2, <1>3, <3>1
    <3>3. u[tree[n].parent] = tree[tree[n].parent]
      BY <1>1, <3>2 DEF Grows
    <3>4. tree[tree[n].parent].kind # "if"
      BY <2>1, <2>3, <3>2 DEF UnderIf
    <3> QED BY <1>3, <2>1, <2>3, <3>3, <3>4 DEF UnderIfIn
  <2>4. CASE tree[n].kind # "block"
    BY <1>3, <2>1, <2>2, <2>4 DEF UnderIfIn
  <2> QED BY <2>3, <2>4
<1> QED BY <1>1, <1>4 DEF Explained, StrayContinue

LEMMA ContinueGoes1 ==
  ASSUME NEW s \in Shapes, family \in DOMAIN Families, Struct, Going, Continue(s)
  PROVE  Explained(tree') \/ (Going' /\ phase' = "compiling")
<1> DEFINE x == Node(s)
           r == ReleaseAll(BodyExit) \o <<Br({Top(latches)})>>
<1>1. /\ CanAdd(s) /\ Leaf(s) /\ s.kind = "continue" /\ tree' = Append(tree, x) /\ frames' = frames
      /\ at' = at /\ pads' = pads /\ scopes' = scopes /\ phase = "compiling"
  BY DEF Continue, Leaf, CanAdd
<1>2. CASE ~UnderIf
  BY <1>1, <1>2, StrayContinues
<1>3. CASE UnderIf
  <2>1. code' = code ++ In(at, r) /\ phase' = "compiling"
    BY <1>1, <1>3 DEF Continue
  <2>2. Writable /\ Stands(tree, frames, x, tree') /\ x.kind = "continue"
    BY <1>1, CanWrite
  <2>3. Ended1(r)
    <3>1. Straight(ReleaseAll(BodyExit))
      BY Simple
    <3>2. Ended1(<<Br({Top(latches)})>>)
      BY Simple, StraightOne
    <3> QED BY <3>1, <3>2, StraightBoth
  <2> HIDE DEF x, r
  <2>4. HasScopes(tree', frames, scopes')
    BY <1>1, <2>2, LeafScopesStay DEF Writable
  <2>5. Halted(tree', frames, scopes')
    BY <2>2, JumpHalts DEF JumpKinds
  <2> QED BY <1>1, <2>1, <2>3, <2>4, <2>5, LeafStops DEF LeafKinds, JumpKinds
<1> QED BY <1>2, <1>3

(* No landing pad is left for something that is thrown.                    *)
LEMMA PadMissing ==
  ASSUME NEW t, NEW f, NEW x, NEW u, Stands(t, f, x, u), NEW L, L = Len(t) + 1, UnwindsIn(u, L),
         OpenIn(t, f, {"try"}) # {}, NEW c, NEW b, PadsMatch(t, f, <<>>, c, b)
  PROVE  Explained(u)
<1>1. /\ Grows(t, u) /\ Len(u) = L /\ L \in 1..Len(u) /\ Path(u, L) = Opened(f)
      /\ \A kinds : Found(u, L, kinds) = OpenIn(u, f, kinds)
      /\ \A o \in Opened(f) : o[1] \in 1..Len(t) /\ u[o[1]] = t[o[1]]
  BY Standing
<1>2. Shaped(t) /\ Nested(t, f)
  BY DEF Stands
<1>3. (\A kinds : OpenIn(u, f, kinds) = OpenIn(t, f, kinds)) /\ OpenTries(u, f) = OpenTries(t, f)
  BY <1>1, <1>2, SameSets DEF Alike
<1>4. CASE ~CaughtIn(u)
  BY <1>4 DEF Explained
<1>5. CASE CaughtIn(u)
  <2>1. CaughtIn(t)
    <3>1. Len(t) \in Nat /\ Len(u) \in Nat /\ 1..Len(t) \subseteq 1..Len(u) /\ \A m \in 1..Len(t) : u[m] = t[m]
      BY <1>1, NamesGrow DEF Grows
    <3> QED BY <1>5, <3>1 DEF CaughtIn
  <2>2. OpenTries(t, f) \subseteq 1..Len(t)
    BY <1>1 DEF OpenTries
  <2>3. OpenTries(t, f) = {}
    BY <1>2, <2>1, <2>2, PadsTop
  <2>4. ~CoveredIn(u, L)
    BY <1>1, <1>3, <2>3 DEF CoveredIn, OpenTries
  <2>5. Found(u, L, {"try"}) # {}
    BY <1>1, <1>3
  <2>6. PadlessIn(u, L)
    BY <2>4, <2>5 DEF PadlessIn
  <2> QED BY <1>1, <2>6 DEF Explained
<1> QED BY <1>4, <1>5

LEMMA NoPadLeft ==
  ASSUME NEW s \in Shapes, family \in DOMAIN Families, Struct, Going, CanAdd(s), NEW u, u = Append(tree, Node(s)),
         s.kind = "throw" \/ (s.kind = "call" /\ "known" \in s.opts), NeedUnwind, pads = <<>>
  PROVE  Explained(u)
<1> DEFINE x == Node(s)
<1>1. Stands(tree, frames, x, u) /\ x.kind = s.kind /\ x.opts = s.opts /\ u[New] = x
  BY CanWrite
<1>2. OpenIn(tree, frames, {"try"}) # {}
  BY NeedUnwindIs
<1>3. PadsMatch(tree, frames, <<>>, code, at)
  BY DEF Going, Steady
<1> HIDE DEF x
<1>4. UnwindsIn(u, New)
  BY <1>1 DEF UnwindsIn
<1>5. New = Len(tree) + 1
  BY DEF New
<1> HIDE DEF New
<1> QED BY <1>1, <1>2, <1>3, <1>4, <1>5, PadMissing

LEMMA InvokeGoes ==
  ASSUME NEW s \in Shapes, family \in DOMAIN Families, Struct, Going, Invoke(s)
  PROVE  Explained(tree') \/ (Going' /\ phase' = "compiling")
<1> DEFINE x == Node(s)  next == Blk(New, "continue")
           r == <<Eval(Blk(New, "eval")), Br({next, Top(pads)})>>
           c1 == code ++ In(at, r)
           c2 == c1 ++ In(next, <<>>)
<1>1. /\ CanAdd(s) /\ Leaf(s) /\ s.kind = "call" /\ tree' = Append(tree, x) /\ frames' = frames
      /\ pads' = pads /\ scopes' = scopes /\ phase = "compiling"
  BY DEF Invoke, Leaf, CanAdd
<1>2. CASE "known" \in s.opts /\ NeedUnwind /\ pads = <<>>
  BY <1>1, <1>2, NoPadLeft
<1>3. CASE "known" \in s.opts /\ NeedUnwind /\ pads # <<>>
  <2>1. code' = c2 /\ at' = next /\ phase' = "compiling"
    BY <1>1, <1>3 DEF Invoke
  <2>2. Writable /\ Stands(tree, frames, x, tree') /\ x.kind = "call"
    BY <1>1, CanWrite
  <2>3. Ended1(r)
    BY Simple, StraightTwo
  <2>4. next[1] = New /\ next[2] = "continue"
    BY DEF Blk
  <2>5. next # at /\ Was(code, next) = <<>>
    BY <2>2, <2>4 DEF Writable
  <2> HIDE DEF x, next, r
  <2>6. Stage(code, {at}, {}, c1)
    <3>1. Stage(code, {} \cup {at}, {} \ {at}, c1)
      BY <2>2, <2>3, StageEnds DEF Writable
    <3> QED BY <3>1
  <2> HIDE DEF c1
  <2>7. Stage(code, {at}, {next}, c2)
    <3>1. Straight(Was(c1, next))
      BY <2>5, <2>6, StageFresh
    <3>2. Stage(code, {at}, {} \cup {next}, c2)
      BY <2>6, <3>1, StageAdds
    <3> QED BY <3>2
  <2> HIDE DEF c2
  <2>8. next \in DOMAIN c2 /\ ~Terminated(c2, next)
    <3>1. next \in DOMAIN c2 /\ Straight(c2[next])
      BY <2>7 DEF Stage
    <3> QED BY <3>1, Terminators
  <2>9. HasScopes(tree', frames, scopes)
    BY <2>2, LeafScopesStay DEF Writable
  <2>10. New = Len(tree) + 1 /\ x.kind \in LeafKinds
    BY <2>2 DEF New, LeafKinds
  <2>11. \A y \in {at} \cup {next} : y = at \/ (y[1] = New /\ y[2] # "pad")
    BY <2>4
  <2>12. next = at \/ (next[1] = New /\ next[2] # "pad")
    BY <2>4
  <2>13. Steady(tree', frames, pads, scopes, c2, next)
    BY <2>2, <2>7, <2>8, <2>9, <2>10, <2>11, <2>12, LeafSteady DEF Going
  <2> QED BY <1>1, <2>1, <2>13 DEF Going
<1>4. CASE ~("known" \in s.opts /\ NeedUnwind)
  <2>1. code' = code ++ In(at, <<Call(Blk(New, "eval"))>>) /\ at' = at /\ phase' = "compiling"
    BY <1>1, <1>4 DEF Invoke
  <2>2. Straight(<<Call(Blk(New, "eval"))>>)
    BY Simple, StraightOne
  <2> QED BY <1>1, <2>1, <2>2, LeafContinues DEF LeafKinds
<1> QED BY <1>2, <1>3, <1>4

(* The scope of the block or the function is let go of.                    *)
LEMMA ThrowHalts ==
  ASSUME NEW s \in Shapes, family \in DOMAIN Families, Struct, Going, CanAdd(s), s.kind \in {"return", "throw"},
         NEW u, u = Append(tree, Node(s))
  PROVE  HasScopes(u, frames, Deinitialized(scopes)) /\ Halted(u, frames, Deinitialized(scopes))
<1> DEFINE x == Node(s)
<1>1. Stands(tree, frames, x, u) /\ x.kind = s.kind /\ HasScopes(tree, frames, scopes)
  BY CanWrite DEF Writable
<1> HIDE DEF x
<1>2. Shaped(tree) /\ Nested(tree, frames)
  BY DEF Struct
<1>3. HasScopes(u, frames, Deinitialized(scopes))
  BY <1>1, ScopeEnds
<1>4. tree[Top(frames).node].kind \in {"block", "function"} => Top(Deinitialized(scopes)).isDeinitialized
  BY <1>1, <1>2, FlagIsSet
<1>5. x.kind \in JumpKinds
  BY <1>1 DEF JumpKinds
<1>6. Halted(u, frames, Deinitialized(scopes))
  BY <1>1, <1>4, <1>5, JumpHalts
<1> QED BY <1>3, <1>6

LEMMA ReturnGoes ==
  ASSUME NEW s \in Shapes, family \in DOMAIN Families, Struct, Going, Return(s)
  PROVE  Going' /\ phase' = "compiling"
<1> DEFINE q1 == <<Eval(Blk(New, "eval"))>>
           q2 == IF at[2] = "pad" THEN <<Release({Blk(at[1], "caught")})>> ELSE <<>>
           q3 == Deinitialize(Top(scopes))
           r == q1 \o q2 \o q3 \o <<Ret>>
<1>1. /\ CanAdd(s) /\ Leaf(s) /\ s.kind = "return" /\ tree' = Append(tree, Node(s)) /\ phase' = "compiling"
      /\ code' = code ++ In(at, r) /\ at' = at /\ pads' = pads /\ scopes' = Deinitialized(scopes)
  BY DEF Return, Leaf, CanAdd
<1>2. Ended1(r)
  <2>1. Straight(q1) /\ Straight(q2) /\ Straight(q3) /\ Ended1(<<Ret>>)
    BY Simple, StraightOne, StraightNone
  <2> HIDE DEF q1, q2, q3
  <2>2. Straight(q1 \o q2)
    BY <2>1, StraightBoth
  <2>3. Straight(q1 \o q2 \o q3)
    BY <2>1, <2>2, StraightBoth
  <2> QED BY <2>1, <2>3, StraightBoth
<1> HIDE DEF r
<1>3. HasScopes(tree', frames, scopes') /\ Halted(tree', frames, scopes')
  BY <1>1, ThrowHalts
<1> QED BY <1>1, <1>2, <1>3, LeafStops DEF LeafKinds, JumpKinds

LEMMA ThrowGoes ==
  ASSUME NEW s \in Shapes, family \in DOMAIN Families, Struct, Going, Throw(s)
  PROVE  Explained(tree') \/ (Going' /\ phase' = "compiling")
<1> DEFINE x == Node(s)  block == Blk(New, "throw")
           q1 == <<Eval(Blk(New, "eval"))>>
           q2 == Deinitialize(Top(scopes))
           r == q1 \o q2 \o <<Br({block})>>
           i == IF NeedUnwind THEN Br({Top(pads)}) ELSE Raise
           c1 == code ++ In(at, r)
           c2 == c1 ++ In(block, <<i>>)
<1>1. /\ CanAdd(s) /\ Leaf(s) /\ s.kind = "throw" /\ tree' = Append(tree, x) /\ frames' = frames
      /\ pads' = pads /\ scopes' = Deinitialized(scopes) /\ phase = "compiling"
  BY DEF Throw, Leaf, CanAdd
<1>2. CASE NeedUnwind /\ pads = <<>>
  BY <1>1, <1>2, NoPadLeft
<1>3. CASE ~(NeedUnwind /\ pads = <<>>)
  <2>1. code' = c2 /\ at' = block /\ phase' = "compiling"
    BY <1>1, <1>3 DEF Throw
  <2>2. Writable /\ Stands(tree, frames, x, tree') /\ x.kind = "throw"
    BY <1>1, CanWrite
  <2>3. Ended1(r) /\ Ended1(<<i>>)
    <3>1. Straight(q1) /\ Straight(q2) /\ Ended1(<<Br({block})>>)
      BY Simple, StraightOne
    <3>2. Ended1(<<i>>)
      BY Simple, StraightOne
    <3> HIDE DEF q1, q2
    <3>3. Straight(q1 \o q2)
      BY <3>1, StraightBoth
    <3> QED BY <3>1, <3>2, <3>3, StraightBoth
  <2>4. block[1] = New /\ block[2] = "throw"
    BY DEF Blk
  <2>5. block # at /\ Was(code, block) = <<>>
    BY <2>2, <2>4 DEF Writable
  <2>6. HasScopes(tree', frames, scopes') /\ Halted(tree', frames, scopes')
    BY <1>1, ThrowHalts
  <2> HIDE DEF x, block, r, i
  <2>7. Stage(code, {at}, {}, c1)
    <3>1. Stage(code, {} \cup {at}, {} \ {at}, c1)
      BY <2>2, <2>3, StageEnds DEF Writable
    <3> QED BY <3>1
  <2> HIDE DEF c1
  <2>8. Stage(code, {at, block}, {}, c2)
    <3>1. Straight(Was(c1, block))
      BY <2>5, <2>7, StageFresh
    <3>2. Stage(code, {at} \cup {block}, {} \ {block}, c2)
      BY <2>3, <2>7, <3>1, StageEnds
    <3>3. {at} \cup {block} = {at, block} /\ {} \ {block} = {}
      OBVIOUS
    <3> QED BY <3>2, <3>3
  <2> HIDE DEF c2
  <2>9. block \in DOMAIN c2
    BY <2>8 DEF Stage
  <2>10. New = Len(tree) + 1 /\ x.kind \in LeafKinds
    BY <2>2 DEF New, LeafKinds, JumpKinds
  <2>11. \A y \in {at, block} \cup {} : y = at \/ (y[1] = New /\ y[2] # "pad")
    BY <2>4
  <2>12. block = at \/ (block[1] = New /\ block[2] # "pad")
    BY <2>4
  <2>13. Steady(tree', frames, pads, scopes', c2, block)
    BY <2>2, <2>6, <2>8, <2>9, <2>10, <2>11, <2>12, LeafSteady DEF Going
  <2> QED BY <1>1, <2>1, <2>13 DEF Going
<1> QED BY <1>2, <1>3

-----------------------------------------------------------------------------
(* The handlers that have other statements generated                       *)

(* A block of the statement's own is ended, or added to the function.      *)
LEMMA NextEnds ==
  ASSUME NEW c, NEW W, NEW V, NEW e, Stage(c, W, V, e), NEW y, y \notin W, y \notin V, Was(c, y) = <<>>,
         NEW s, Ended1(s)
  PROVE  Stage(c, W \cup {y}, V, e ++ In(y, s))
<1>1. Straight(Was(e, y))
  BY StageFresh
<1>2. Stage(c, W \cup {y}, V \ {y}, e ++ In(y, s))
  BY <1>1, StageEnds
<1>3. V \ {y} = V
  OBVIOUS
<1> QED BY <1>2, <1>3

LEMMA NextAdds ==
  ASSUME NEW c, NEW W, NEW V, NEW e, Stage(c, W, V, e), NEW y, y \notin W, Was(c, y) = <<>>
  PROVE  Stage(c, W, V \cup {y}, e ++ In(y, <<>>))
<1>1. Straight(Was(e, y))
  BY StageFresh
<1> QED BY <1>1, StageAdds

(* The statement begins with a branch.                                     *)
LEMMA FirstEnds ==
  ASSUME Writable, NEW r, Ended1(r)
  PROVE  Stage(code, {at}, {}, code ++ In(at, r))
<1>1. Stage(code, {} \cup {at}, {} \ {at}, code ++ In(at, r))
  BY StageEnds DEF Writable
<1> QED BY <1>1

(* What a handler leaves behind before it hands on its first child.        *)
Lays(u, L, slot, b, b2, W, V) ==
  /\ b \in W /\ b2 \in V
  /\ \A y \in W \cup {b2} : y = b \/ (y[1] = L /\ y[2] # "pad")
  /\ \A y \in V : y = b2 \/ y \in Reserved(u, L, slot) \/ (u[L].kind = "try" /\ y = Blk(L, "pad"))
  /\ u[L].kind = "try" => Blk(L, "pad") \in V /\ slot = 1
  /\ \A y \in Reserved(u, L, slot) : y \notin W /\ y # b2
  /\ Ahead(u, L) \subseteq V /\ Fits(u, L, slot) /\ slot \in Nat

LEMMA ScopesOpened ==
  ASSUME NEW t, NEW f, NEW x, NEW u, NEW L, NEW slot, NEW g, Begun(t, f, x, u, L, slot, g),
         NEW ss, HasScopes(t, f, ss)
  PROVE  HasScopes(u, g, IF Scoped(u, L) THEN Append(ss, Scope(Declared(u, L))) ELSE ss)
<1>1. /\ Grows(t, u) /\ Shaped(u) /\ Len(u) = L /\ L \in 1..Len(u) /\ L = Len(t) + 1
      /\ \A o \in Opened(f) : o[1] \in 1..Len(t) /\ u[o[1]] = t[o[1]]
  BY Standing DEF Begun
<1>2. Nested(t, f)
  BY DEF Begun, Stands
<1>3. Enters(f, g, L, slot) /\ More(u, f, g, L, slot)
  BY Began
<1>4. CASE Scoped(u, L)
  <2>1. Declared(u, L) \subseteq NamesOf(u)
    BY <1>1, DeclaredNames
  <2>2. HasScopes(u, g, Append(ss, Scope(Declared(u, L))))
    BY <1>1, <1>2, <1>3, <1>4, <2>1, ScopeOpens
  <2> QED BY <1>4, <2>2
<1>5. CASE ~Scoped(u, L)
  <2>1. ScopedIn(u, g) = ScopedIn(u, f)
    BY <1>3, <1>5 DEF More
  <2>2. ScopedIn(u, f) = ScopedIn(t, f)
    BY <1>1, <1>2, SameSets DEF Alike
  <2>3. HasScopes(u, g, ss)
    BY <1>1, <2>1, <2>2, ScopesStay
  <2> QED BY <1>5, <2>3
<1> QED BY <1>4, <1>5

LEMMA OpenGoes ==
  ASSUME NEW s \in Shapes, family \in DOMAIN Families, Struct, Going, CanAdd(s), s.kind \notin LeafKinds,
         tree' = Append(tree, Node(s)), NEW slot, frames' = Append(frames, Frame(New, slot)),
         NEW W, NEW V, Stage(code, W, V, code'), Lays(tree', New, slot, at, at', W, V),
         pads' = Pushed(s.kind = "try", pads, Blk(New, "pad")),
         scopes' = IF Scoped(tree', New) THEN Append(scopes, Scope(Declared(tree', New))) ELSE scopes
  PROVE  Going'
<1> DEFINE x == Node(s)
<1>1. /\ Writable /\ Stands(tree, frames, x, tree') /\ x.kind = s.kind /\ tree'[New] = x
  BY CanWrite
<1>2. New = Len(tree) + 1
  BY DEF New
<1> HIDE DEF x, New
<1>3. Begun(tree, frames, x, tree', New, slot, frames')
  BY <1>1, <1>2 DEF Begun, Lays
<1>4. HasScopes(tree, frames, scopes)
  BY <1>1 DEF Writable
<1>5. HasScopes(tree', frames', scopes')
  BY <1>3, <1>4, ScopesOpened
<1>6. /\ at \in W /\ at' \in V
      /\ \A y \in W \cup {at'} : y = at \/ (y[1] = New /\ y[2] # "pad")
      /\ \A y \in V : y = at' \/ y \in Reserved(tree', New, slot) \/ (x.kind = "try" /\ y = Blk(New, "pad"))
      /\ x.kind = "try" => Blk(New, "pad") \in V
      /\ \A y \in Reserved(tree', New, slot) : y \notin W /\ y # at'
      /\ Ahead(tree', New) \subseteq V
  BY <1>1 DEF Lays
<1>7. Ahead(tree', New) \subseteq DOMAIN code'
  BY <1>6 DEF Stage
<1>8. Steady(tree, frames, pads, scopes, code, at)
  BY DEF Going
<1>9. Steady(tree', frames', Pushed(x.kind = "try", pads, Blk(New, "pad")), scopes', code', at')
  BY <1>3, <1>5, <1>6, <1>7, <1>8, OpenSteady
<1> QED BY <1>1, <1>9 DEF Going

LEMMA OpenBlockGoes ==
  ASSUME NEW s \in Shapes, family \in DOMAIN Families, Struct, Going, OpenBlock(s)
  PROVE  Going' /\ phase' = "compiling"
<1> DEFINE x == Node(s)  n == Top(frames).node
           q1 == AcquireAll(CatchOf(New) \cup ExceptionVariable)
           q2 == AcquireAll(Hoisted(New, s))
           r == q1 \o q2
<1>1. /\ CanAdd(s) /\ s.kind = "block" /\ tree' = Append(tree, x) /\ frames' = Append(frames, Frame(New, 1))
      /\ code' = code ++ In(at, r) /\ at' = at /\ pads' = pads /\ phase' = "compiling"
      /\ scopes' = Append(scopes, Scope(ExceptionVariable \cup Hoisted(New, s)))
  BY DEF OpenBlock, Open, CanAdd
<1>2. /\ Writable /\ tree'[New] = x /\ x.kind = "block" /\ x.decl = s.decl /\ Grows(tree, tree')
      /\ x.parent = n /\ x.slot = Top(frames).slot /\ Shaped(tree)
  BY <1>1, CanWrite DEF Node, Struct
<1>3. n \in 1..Len(tree) /\ tree'[n] = tree[n] /\ New # 1
  <2>1. Top(frames) \in [node : 1..Len(tree), slot : Nat]
    BY Frames DEF Struct
  <2>2. n \in 1..Len(tree) /\ Len(tree) \in Nat
    BY <1>2, <2>1, NamesGrow
  <2> QED BY <1>2, <2>2 DEF Grows, New
<1>4. Straight(r)
  <2>1. Straight(q1) /\ Straight(q2)
    BY Simple
  <2> QED BY <2>1, StraightBoth
<1>5. Declared(tree', New) = ExceptionVariable \cup Hoisted(New, s)
  <2>1. /\ ExceptionVariable = IF tree[n].kind = "try" /\ Top(frames).slot = 2 /\ "var" \in tree[n].opts
                               THEN {Blk(n, "e")} ELSE {}
        /\ Hoisted(New, s) = IF s.decl THEN {Blk(New, "local")} ELSE {}
    BY DEF ExceptionVariable, CatchOf, Parent, Hoisted
  <2> HIDE DEF x, n
  <2> QED BY <1>2, <1>3, <2>1 DEF Declared
<1> HIDE DEF x, r, n
<1>6. Stage(code, {at}, {at}, code')
  <2>1. Stage(code, {} \cup {at}, {} \cup {at}, code ++ In(at, r))
    BY <1>2, <1>4, StageExtends DEF Writable
  <2> QED BY <1>1, <2>1
<1>7. Lays(tree', New, 1, at, at', {at}, {at}) /\ Scoped(tree', New)
  <2>1. Reserved(tree', New, 1) = {} /\ Ahead(tree', New) = {} /\ Fits(tree', New, 1) /\ Scoped(tree', New)
    BY <1>2 DEF Reserved, Ahead, Fits, Scoped
  <2> QED BY <1>1, <1>2, <2>1 DEF Lays
<1>8. s.kind \notin LeafKinds /\ pads' = Pushed(s.kind = "try", pads, Blk(New, "pad"))
  BY <1>1 DEF LeafKinds, JumpKinds, Pushed
<1>9. scopes' = IF Scoped(tree', New) THEN Append(scopes, Scope(Declared(tree', New))) ELSE scopes
  BY <1>1, <1>5, <1>7
<1> QED BY <1>1, <1>6, <1>7, <1>8, <1>9, OpenGoes DEF x

(* Nothing has been written into the blocks of a new statement.            *)
LEMMA OwnUnwritten ==
  ASSUME Writable
  PROVE  /\ \A p : Blk(New, p)[1] = New /\ Blk(New, p)[2] = p /\ Blk(New, p) # at /\ Was(code, Blk(New, p)) = <<>>
         /\ \A p, i : Part(New, p, i)[1] = New /\ Part(New, p, i)[2] = p /\ Part(New, p, i) # at /\
                      Was(code, Part(New, p, i)) = <<>>
         /\ \A p, q : Blk(New, p) = Blk(New, q) => p = q
<1>1. /\ \A p : Blk(New, p)[1] = New /\ Blk(New, p)[2] = p
      /\ \A p, i : Part(New, p, i)[1] = New /\ Part(New, p, i)[2] = p
      /\ \A p, q : Blk(New, p) = Blk(New, q) => p = q
  BY DEF Blk, Part
<1> QED BY <1>1 DEF Writable

LEMMA OpenIfGoes ==
  ASSUME NEW s \in Shapes, family \in DOMAIN Families, Struct, Going, OpenIf(s)
  PROVE  Going' /\ phase' = "compiling"
<1> DEFINE x == Node(s)  then == Blk(New, "then")  else == Blk(New, "else")  end == Blk(New, "endif")
           r == <<Eval(Blk(New, "cond")), Br({then, else})>>
           c1 == code ++ In(at, r)
           c2 == c1 ++ In(then, <<>>)
           c3 == c2 ++ In(else, <<>>)
           c4 == c3 ++ In(end, <<>>)
           W == {at}  V == {} \cup {then} \cup {else} \cup {end}
<1>1. /\ CanAdd(s) /\ s.kind = "if" /\ tree' = Append(tree, x) /\ frames' = Append(frames, Frame(New, 1))
      /\ code' = c4 /\ at' = then /\ pads' = pads /\ scopes' = scopes /\ phase' = "compiling"
  BY DEF OpenIf, Open, CanAdd
<1>2. Writable /\ tree'[New] = x /\ x.kind = "if"
  BY <1>1, CanWrite
<1>3. /\ \A y \in {then, else, end} : y[1] = New /\ y[2] # "pad" /\ y # at /\ Was(code, y) = <<>>
      /\ then # else /\ then # end
  BY <1>2, OwnUnwritten
<1>4. Ended1(r)
  BY Simple, StraightTwo
<1>5. /\ Reserved(tree', New, 1) = {end} \cup {else} /\ Ahead(tree', New) = {else, end} /\ Fits(tree', New, 1)
      /\ ~Scoped(tree', New)
  BY <1>1, <1>2 DEF Reserved, Ahead, Fits, Scoped
<1> HIDE DEF x, then, else, end, r, c1, c2, c3, c4
<1>6. Stage(code, W, {}, c1)
  BY <1>2, <1>4, FirstEnds DEF c1
<1>7. Stage(code, W, {} \cup {then}, c2)
  BY <1>3, <1>6, NextAdds DEF c2
<1>8. Stage(code, W, {} \cup {then} \cup {else}, c3)
  BY <1>3, <1>7, NextAdds DEF c3
<1>9. Stage(code, W, V, c4)
  BY <1>3, <1>8, NextAdds DEF c4
<1>10. Lays(tree', New, 1, at, at', W, V)
  BY <1>1, <1>2, <1>3, <1>5 DEF Lays
<1>11. s.kind \notin LeafKinds /\ pads' = Pushed(s.kind = "try", pads, Blk(New, "pad"))
  BY <1>1 DEF LeafKinds, JumpKinds, Pushed
<1>12. scopes' = IF Scoped(tree', New) THEN Append(scopes, Scope(Declared(tree', New))) ELSE scopes
  BY <1>1, <1>5
<1>13. Stage(code, W, V, code')
  BY <1>1, <1>9
<1> HIDE DEF W, V
<1> QED BY <1>1, <1>10, <1>11, <1>12, <1>13, OpenGoes DEF x

LEMMA OpenWhileGoes ==
  ASSUME NEW s \in Shapes, family \in DOMAIN Families, Struct, Going, OpenWhile(s)
  PROVE  Going' /\ phase' = "compiling"
<1> DEFINE x == Node(s)  cond == Blk(New, "cond")  body == Blk(New, "body")  latch == Blk(New, "latch")
           exit == Blk(New, "exiting")  end == Blk(New, "end")
           c1 == code ++ In(at, <<Br({cond})>>)
           c2 == c1 ++ In(cond, <<Eval(cond), Br({body, exit})>>)
           c3 == c2 ++ In(latch, <<Br({cond})>>)
           c4 == c3 ++ In(exit, <<Br({end})>>)
           c5 == c4 ++ In(body, <<>>)
           W == {at} \cup {cond} \cup {latch} \cup {exit}  V == {} \cup {body}
<1>1. /\ CanAdd(s) /\ s.kind = "while" /\ tree' = Append(tree, x) /\ frames' = Append(frames, Frame(New, 1))
      /\ code' = c5 /\ at' = body /\ pads' = pads /\ scopes' = Append(scopes, Scope({})) /\ phase' = "compiling"
  BY DEF OpenWhile, Open, CanAdd
<1>2. Writable /\ tree'[New] = x /\ x.kind = "while"
  BY <1>1, CanWrite
<1>3. /\ \A y \in {cond, body, latch, exit, end} : y[1] = New /\ y[2] # "pad" /\ y # at /\ Was(code, y) = <<>>
      /\ cond # latch /\ cond # exit /\ latch # exit /\ body \notin {cond, latch, exit, end}
      /\ end \notin {cond, latch, exit}
  BY <1>2, OwnUnwritten
<1>4. /\ Ended1(<<Br({cond})>>) /\ Ended1(<<Eval(cond), Br({body, exit})>>) /\ Ended1(<<Br({end})>>)
  BY Simple, StraightOne, StraightTwo
<1>5. /\ Reserved(tree', New, 1) = {end} /\ Ahead(tree', New) = {} /\ Fits(tree', New, 1)
      /\ Scoped(tree', New) /\ Declared(tree', New) = {}
  BY <1>1, <1>2 DEF Reserved, Ahead, Fits, Scoped, Declared
<1> HIDE DEF x, cond, body, latch, exit, end, c1, c2, c3, c4, c5
<1>6. Stage(code, {at}, {}, c1)
  BY <1>2, <1>4, FirstEnds DEF c1
<1>7. Stage(code, {at} \cup {cond}, {}, c2)
  BY <1>3, <1>4, <1>6, NextEnds DEF c2
<1>8. Stage(code, {at} \cup {cond} \cup {latch}, {}, c3)
  BY <1>3, <1>4, <1>7, NextEnds DEF c3
<1>9. Stage(code, W, {}, c4)
  BY <1>3, <1>4, <1>8, NextEnds DEF c4
<1>10. Stage(code, W, V, c5)
  BY <1>3, <1>9, NextAdds DEF c5
<1>11. Lays(tree', New, 1, at, at', W, V)
  BY <1>1, <1>2, <1>3, <1>5 DEF Lays
<1>12. s.kind \notin LeafKinds /\ pads' = Pushed(s.kind = "try", pads, Blk(New, "pad"))
  BY <1>1 DEF LeafKinds, JumpKinds, Pushed
<1>13. scopes' = IF Scoped(tree', New) THEN Append(scopes, Scope(Declared(tree', New))) ELSE scopes
  BY <1>1, <1>5
<1>14. Stage(code, W, V, code')
  BY <1>1, <1>10
<1> HIDE DEF W, V
<1> QED BY <1>1, <1>11, <1>12, <1>13, <1>14, OpenGoes DEF x

LEMMA OpenDoGoes ==
  ASSUME NEW s \in Shapes, family \in DOMAIN Families, Struct, Going, OpenDo(s)
  PROVE  Going' /\ phase' = "compiling"
<1> DEFINE x == Node(s)  cond == Blk(New, "cond")  body == Blk(New, "body")  latch == Blk(New, "latch")
           exit == Blk(New, "exiting")  end == Blk(New, "end")
           c1 == code ++ In(at, <<Br({body})>>)
           c2 == c1 ++ In(body, <<>>)
           c3 == c2 ++ In(cond, <<>>)
           c4 == c3 ++ In(latch, <<>>)
           c5 == c4 ++ In(exit, <<>>)
           c6 == c5 ++ In(end, <<>>)
           W == {at}  V == {} \cup {body} \cup {cond} \cup {latch} \cup {exit} \cup {end}
<1>1. /\ CanAdd(s) /\ s.kind = "do" /\ tree' = Append(tree, x) /\ frames' = Append(frames, Frame(New, 1))
      /\ code' = c6 /\ at' = body /\ pads' = pads /\ scopes' = Append(scopes, Scope({})) /\ phase' = "compiling"
  BY DEF OpenDo, Open, CanAdd
<1>2. Writable /\ tree'[New] = x /\ x.kind = "do"
  BY <1>1, CanWrite
<1>3. /\ \A y \in {cond, body, latch, exit, end} : y[1] = New /\ y[2] # "pad" /\ y # at /\ Was(code, y) = <<>>
      /\ body \notin {cond, latch, exit, end}
  BY <1>2, OwnUnwritten
<1>4. Ended1(<<Br({body})>>)
  BY Simple, StraightOne
<1>5. /\ Reserved(tree', New, 1) = {cond, latch, exit, end} /\ Ahead(tree', New) = {exit, end} /\ Fits(tree', New, 1)
      /\ Scoped(tree', New) /\ Declared(tree', New) = {}
  BY <1>1, <1>2 DEF Reserved, Ahead, Fits, Scoped, Declared
<1> HIDE DEF x, cond, body, latch, exit, end, c1, c2, c3, c4, c5, c6
<1>6. Stage(code, W, {}, c1)
  BY <1>2, <1>4, FirstEnds DEF c1
<1>7. Stage(code, W, {} \cup {body}, c2)
  BY <1>3, <1>6, NextAdds DEF c2
<1>8. Stage(code, W, {} \cup {body} \cup {cond}, c3)
  BY <1>3, <1>7, NextAdds DEF c3
<1>9. Stage(code, W, {} \cup {body} \cup {cond} \cup {latch}, c4)
  BY <1>3, <1>8, NextAdds DEF c4
<1>10. Stage(code, W, {} \cup {body} \cup {cond} \cup {latch} \cup {exit}, c5)
  BY <1>3, <1>9, NextAdds DEF c5
<1>11. Stage(code, W, V, c6)
  BY <1>3, <1>10, NextAdds DEF c6
<1>12. Lays(tree', New, 1, at, at', W, V)
  BY <1>1, <1>2, <1>3, <1>5 DEF Lays
<1>13. s.kind \notin LeafKinds /\ pads' = Pushed(s.kind = "try", pads, Blk(New, "pad"))
  BY <1>1 DEF LeafKinds, JumpKinds, Pushed
<1>14. scopes' = IF Scoped(tree', New) THEN Append(scopes, Scope(Declared(tree', New))) ELSE scopes
  BY <1>1, <1>5
<1>15. Stage(code, W, V, code')
  BY <1>1, <1>11
<1> HIDE DEF W, V
<1> QED BY <1>1, <1>12, <1>13, <1>14, <1>15, OpenGoes DEF x

LEMMA OpenForGoes ==
  ASSUME NEW s \in Shapes, family \in DOMAIN Families, Struct, Going, OpenFor(s)
  PROVE  Going' /\ phase' = "compiling"
<1> DEFINE x == Node(s)  cond == Blk(New, "cond")  body == Blk(New, "body")  latch == Blk(New, "latch")
           exit == Blk(New, "exiting")  end == Blk(New, "end")  start == Blk(New, "start")  inc == Blk(New, "inc")
           first == <<Br({IterationOf(New, s.opts)})>>
           begin == <<Acquire(Blk(New, "counter"))>> \o first
           copied == <<Acquire(Blk(New, "copy"))>>
           after == <<Br({AfterIteration(New, s.opts)})>>
           test == <<Eval(cond), Br({body, exit})>>
           opened == IF s.decl THEN code ++ In(at, <<Br({start})>>) ++ In(start, begin) ++ In(body, copied)
                     ELSE code ++ In(at, first) ++ In(body, <<>>)
           turned == opened ++ In(latch, after) ++ In(exit, <<Br({end})>>)
           V == {} \cup {body}
           own == {at, start, body, latch, exit, cond}
<1>1. /\ CanAdd(s) /\ s.kind = "for" /\ tree' = Append(tree, x) /\ frames' = Append(frames, Frame(New, 1))
      /\ code' = (IF "cond" \in s.opts THEN turned ++ In(cond, test) ELSE turned)
      /\ at' = body /\ pads' = pads /\ phase' = "compiling"
      /\ scopes' = IF s.decl THEN Append(scopes, Scope({Blk(New, "copy")})) ELSE scopes
  BY DEF OpenFor, Open, CanAdd
<1>2. Writable /\ tree'[New] = x /\ x.kind = "for" /\ x.decl = s.decl /\ x.opts = s.opts
  BY <1>1, CanWrite
<1>3. /\ \A y \in {cond, body, latch, exit, end, start, inc} :
           y[1] = New /\ y[2] # "pad" /\ y # at /\ Was(code, y) = <<>>
      /\ start # body /\ latch \notin {start, body} /\ exit \notin {start, body, latch}
      /\ cond \notin {start, body, latch, exit} /\ end \notin own /\ inc \notin own
  BY <1>2, OwnUnwritten
<1>4. /\ Ended1(<<Br({start})>>) /\ Ended1(first) /\ Ended1(begin) /\ Straight(copied) /\ Ended1(after)
      /\ Ended1(<<Br({end})>>) /\ Ended1(test)
  <2>1. /\ Ended1(<<Br({start})>>) /\ Ended1(first) /\ Straight(copied) /\ Ended1(after) /\ Ended1(<<Br({end})>>)
        /\ Straight(<<Acquire(Blk(New, "counter"))>>)
    BY Simple, StraightOne
  <2>2. Ended1(begin)
    BY <2>1, StraightBoth
  <2>3. Ended1(test)
    BY Simple, StraightTwo
  <2> QED BY <2>1, <2>2, <2>3
<1>5. /\ Reserved(tree', New, 1) \subseteq {end, inc} /\ Ahead(tree', New) = {} /\ Fits(tree', New, 1)
      /\ Scoped(tree', New) = s.decl /\ Declared(tree', New) = {Blk(New, "copy")}
  <2>1. s.decl \in BOOLEAN
    BY FamiliesAssumption DEF Shapes, Shape
  <2> QED BY <1>1, <1>2, <2>1 DEF Reserved, Ahead, Fits, Scoped, Declared
<1> HIDE DEF x, cond, body, latch, exit, end, start, inc, first, begin, copied, after, test
<1>6. \E W : Stage(code, W, V, opened) /\ at \in W /\ W \subseteq {at, start, body}
  <2>1. CASE s.decl
    <3>1. Stage(code, {at}, {}, code ++ In(at, <<Br({start})>>))
      BY <1>2, <1>4, FirstEnds
    <3>2. Stage(code, {at} \cup {start}, {}, code ++ In(at, <<Br({start})>>) ++ In(start, begin))
      BY <1>3, <1>4, <3>1, NextEnds
    <3>3. Straight(Was(code ++ In(at, <<Br({start})>>) ++ In(start, begin), body))
      BY <1>3, <3>2, StageFresh
    <3>4. Stage(code, {at} \cup {start} \cup {body}, {} \cup {body},
                code ++ In(at, <<Br({start})>>) ++ In(start, begin) ++ In(body, copied))
      BY <1>4, <3>2, <3>3, StageExtends
    <3>5. Stage(code, {at} \cup {start} \cup {body}, V, opened)
      BY <2>1, <3>4
    <3>6. at \in {at} \cup {start} \cup {body} /\ {at} \cup {start} \cup {body} \subseteq {at, start, body}
      OBVIOUS
    <3> HIDE DEF opened, V
    <3> QED BY <3>5, <3>6
  <2>2. CASE ~s.decl
    <3>1. Stage(code, {at}, {}, code ++ In(at, first))
      BY <1>2, <1>4, FirstEnds
    <3>2. Stage(code, {at}, {} \cup {body}, code ++ In(at, first) ++ In(body, <<>>))
      BY <1>3, <3>1, NextAdds
    <3>3. Stage(code, {at}, V, opened)
      BY <2>2, <3>2
    <3> HIDE DEF opened, V
    <3> QED BY <3>3
  <2> QED BY <2>1, <2>2
<1> HIDE DEF opened
<1>7. PICK W1 : Stage(code, W1, V, opened) /\ at \in W1 /\ W1 \subseteq {at, start, body}
  BY <1>6
<1>8. Stage(code, W1 \cup {latch}, V, opened ++ In(latch, after))
  BY <1>3, <1>4, <1>7, NextEnds
<1>9. Stage(code, W1 \cup {latch} \cup {exit}, V, turned)
  BY <1>3, <1>4, <1>7, <1>8, NextEnds
<1> HIDE DEF turned
<1>10. Stage(code, W1 \cup {latch} \cup {exit} \cup {cond}, V, turned ++ In(cond, test))
  BY <1>3, <1>4, <1>7, <1>9, NextEnds
<1>11. \E W : Stage(code, W, V, code') /\ at \in W /\ W \subseteq own
  <2>1. /\ W1 \cup {latch} \cup {exit} \subseteq own /\ W1 \cup {latch} \cup {exit} \cup {cond} \subseteq own
        /\ at \in W1 \cup {latch} \cup {exit} /\ at \in W1 \cup {latch} \cup {exit} \cup {cond}
    BY <1>7
  <2> HIDE DEF own, V
  <2> QED BY <1>1, <1>9, <1>10, <2>1
<1>12. PICK W : Stage(code, W, V, code') /\ at \in W /\ W \subseteq own
  BY <1>11
<1>13. Lays(tree', New, 1, at, at', W, V)
  BY <1>1, <1>2, <1>3, <1>5, <1>12 DEF Lays
<1>14. s.kind \notin LeafKinds /\ pads' = Pushed(s.kind = "try", pads, Blk(New, "pad"))
  BY <1>1 DEF LeafKinds, JumpKinds, Pushed
<1>15. scopes' = IF Scoped(tree', New) THEN Append(scopes, Scope(Declared(tree', New))) ELSE scopes
  BY <1>1, <1>5
<1> HIDE DEF V
<1> QED BY <1>1, <1>12, <1>13, <1>14, <1>15, OpenGoes DEF x

LEMMA OpenForOfGoes ==
  ASSUME NEW s \in Shapes, family \in DOMAIN Families, Struct, Going, OpenForOf(s) \/ OpenForIn(s)
  PROVE  Going' /\ phase' = "compiling"
<1> DEFINE x == Node(s)  cond == Blk(New, "cond")  body == Blk(New, "body")  latch == Blk(New, "latch")
           exit == Blk(New, "exiting")  end == Blk(New, "end")  inc == Blk(New, "incrementor")
           r == <<Acquire(Blk(New, "element"))>> \o <<Br({latch})>>
           c1 == code ++ In(at, r)
           c2 == c1 ++ In(latch, <<Br({cond})>>)
           c3 == c2 ++ In(cond, <<Eval(cond), Br({exit, inc})>>)
           c4 == c3 ++ In(inc, <<Br({body})>>)
           c5 == c4 ++ In(body, <<>>)
           c6 == c5 ++ In(exit, <<>>)
           c7 == c6 ++ In(end, <<>>)
           W == {at} \cup {latch} \cup {cond} \cup {inc}  V == {} \cup {body} \cup {exit} \cup {end}
<1>1. /\ CanAdd(s) /\ s.kind \in {"forof", "forin"} /\ tree' = Append(tree, x)
      /\ frames' = Append(frames, Frame(New, 1))
      /\ code' = c7 /\ at' = body /\ pads' = pads /\ phase' = "compiling"
      /\ s.kind = "forof" => scopes' = Append(scopes, Scope(IF "tuple" \in s.opts THEN {} ELSE {Blk(New, "element")}))
      /\ s.kind = "forin" => scopes' = Append(scopes, Scope({Blk(New, "element")}))
  BY DEF OpenForOf, OpenForIn, Iterate, Open, CanAdd
<1>2. Writable /\ tree'[New] = x /\ x.kind = s.kind /\ x.opts = s.opts
  BY <1>1, CanWrite
<1>3. /\ \A y \in {cond, body, latch, exit, end, inc} : y[1] = New /\ y[2] # "pad" /\ y # at /\ Was(code, y) = <<>>
      /\ cond # latch /\ inc \notin {cond, latch} /\ body \notin {cond, latch, exit, end, inc}
      /\ end \notin {cond, latch, inc} /\ exit \notin {cond, latch, inc}
  BY <1>2, OwnUnwritten
<1>4. /\ Ended1(r) /\ Ended1(<<Br({cond})>>) /\ Ended1(<<Eval(cond), Br({exit, inc})>>) /\ Ended1(<<Br({body})>>)
  <2>1. /\ Ended1(<<Br({latch})>>) /\ Ended1(<<Br({cond})>>) /\ Ended1(<<Br({body})>>)
        /\ Straight(<<Acquire(Blk(New, "element"))>>)
    BY Simple, StraightOne
  <2>2. Ended1(r)
    BY <2>1, StraightBoth
  <2>3. Ended1(<<Eval(cond), Br({exit, inc})>>)
    BY Simple, StraightTwo
  <2> QED BY <2>1, <2>2, <2>3
<1>5. /\ Reserved(tree', New, 1) = {exit, end} /\ Ahead(tree', New) = {exit, end} /\ Fits(tree', New, 1)
      /\ Scoped(tree', New)
      /\ s.kind = "forof" => Declared(tree', New) = IF "tuple" \in s.opts THEN {} ELSE {Blk(New, "element")}
      /\ s.kind = "forin" => Declared(tree', New) = {Blk(New, "element")}
  BY <1>1, <1>2 DEF Reserved, Ahead, Fits, Scoped, Declared
<1> HIDE DEF x, cond, body, latch, exit, end, inc, r, c1, c2, c3, c4, c5, c6, c7
<1>6. Stage(code, {at}, {}, c1)
  BY <1>2, <1>4, FirstEnds DEF c1
<1>7. Stage(code, {at} \cup {latch}, {}, c2)
  BY <1>3, <1>4, <1>6, NextEnds DEF c2
<1>8. Stage(code, {at} \cup {latch} \cup {cond}, {}, c3)
  BY <1>3, <1>4, <1>7, NextEnds DEF c3
<1>9. Stage(code, W, {}, c4)
  BY <1>3, <1>4, <1>8, NextEnds DEF c4
<1>10. Stage(code, W, {} \cup {body}, c5)
  BY <1>3, <1>9, NextAdds DEF c5
<1>11. Stage(code, W, {} \cup {body} \cup {exit}, c6)
  BY <1>3, <1>10, NextAdds DEF c6
<1>12. Stage(code, W, V, c7)
  BY <1>3, <1>11, NextAdds DEF c7
<1>13. Lays(tree', New, 1, at, at', W, V)
  BY <1>1, <1>2, <1>3, <1>5 DEF Lays
<1>14. s.kind \notin LeafKinds /\ pads' = Pushed(s.kind = "try", pads, Blk(New, "pad"))
  BY <1>1 DEF LeafKinds, JumpKinds, Pushed
<1>15. scopes' = IF Scoped(tree', New) THEN Append(scopes, Scope(Declared(tree', New))) ELSE scopes
  BY <1>1, <1>5
<1>16. Stage(code, W, V, code')
  BY <1>1, <1>12
<1> HIDE DEF W, V
<1> QED BY <1>1, <1>13, <1>14, <1>15, <1>16, OpenGoes DEF x

LEMMA OpenTryGoes ==
  ASSUME NEW s \in Shapes, family \in DOMAIN Families, Struct, Going, OpenTry(s)
  PROVE  Going' /\ phase' = "compiling"
<1> DEFINE x == Node(s)  try == Blk(New, "try")  pad == Blk(New, "pad")  after == Blk(New, "after")
           c1 == code ++ In(at, <<Br({try})>>)
           c2 == c1 ++ In(try, <<>>)
           c3 == c2 ++ In(pad, <<>>)
           W == {at}  V == {} \cup {try} \cup {pad}
<1>1. /\ CanAdd(s) /\ s.kind = "try" /\ tree' = Append(tree, x) /\ frames' = Append(frames, Frame(New, 1))
      /\ code' = c3 /\ at' = try /\ pads' = Append(pads, pad) /\ scopes' = scopes /\ phase' = "compiling"
  BY DEF OpenTry, Open, CanAdd
<1>2. Writable /\ tree'[New] = x /\ x.kind = "try"
  BY <1>1, CanWrite
<1>3. /\ \A y \in {try, pad, after} : y[1] = New /\ y # at /\ Was(code, y) = <<>>
      /\ try # pad /\ after # try /\ try[2] # "pad"
  BY <1>2, OwnUnwritten
<1>4. Ended1(<<Br({try})>>)
  BY Simple, StraightOne
<1>5. /\ Reserved(tree', New, 1) = {after} /\ Ahead(tree', New) = {} /\ Fits(tree', New, 1)
      /\ ~Scoped(tree', New)
  BY <1>1, <1>2 DEF Reserved, Ahead, Fits, Scoped
<1>6. pad = Blk(New, "pad")
  OBVIOUS
<1> HIDE DEF x, try, pad, after, c1, c2, c3
<1>7. Stage(code, W, {}, c1)
  BY <1>2, <1>4, FirstEnds DEF c1
<1>8. Stage(code, W, {} \cup {try}, c2)
  BY <1>3, <1>7, NextAdds DEF c2
<1>9. Stage(code, W, V, c3)
  BY <1>3, <1>8, NextAdds DEF c3
<1>10. Lays(tree', New, 1, at, at', W, V)
  BY <1>1, <1>2, <1>3, <1>5, <1>6 DEF Lays
<1>11. s.kind \notin LeafKinds /\ pads' = Pushed(s.kind = "try", pads, Blk(New, "pad"))
  BY <1>1, <1>6 DEF LeafKinds, JumpKinds, Pushed
<1>12. scopes' = IF Scoped(tree', New) THEN Append(scopes, Scope(Declared(tree', New))) ELSE scopes
  BY <1>1, <1>5
<1>13. Stage(code, W, V, code')
  BY <1>1, <1>9
<1> HIDE DEF W, V
<1> QED BY <1>1, <1>10, <1>11, <1>12, <1>13, OpenGoes DEF x

(* The clauses that are still to come are not the first one.               *)
LEMMA ClausesAhead ==
  ASSUME NEW u, NEW L, u[L].kind = "switch", NEW o, o = Ordered(u[L].clauses), Order(u[L].clauses, o, Cases(u[L].clauses))
  PROVE  /\ o[1] \in Nat /\ o[1] \in DOMAIN u[L].clauses
         /\ \A i \in DOMAIN u[L].clauses : i # o[1] => Clause(L, i) \in Reserved(u, L, o[1])
         /\ \A i : Clause(L, i) \in Reserved(u, L, o[1]) => i # o[1]
<1> DEFINE q == u[L].clauses  R == Reserved(u, L, o[1])
           later == {l \in DOMAIN o : \E k \in 1..(l - 1) : o[k] = o[1]}
<1>1. /\ Len(q) \in Nat \ {0} /\ DOMAIN q = 1..Len(q) /\ o \in Seq(1..Len(q)) /\ Len(o) = Len(q) /\ DOMAIN o = 1..Len(q)
      /\ \A i \in 1..Len(q) : \E k \in 1..Len(q) : o[k] = i
      /\ \A j, k \in 1..Len(q) : o[j] = o[k] => j = k
  BY DEF Order
<1>2. R = {Blk(L, "switch"), Blk(L, "end")} \cup {Clause(L, o[j]) : j \in later}
          \cup {Test(L, i) : i \in Elements(Cases(q))}
  BY DEF Reserved
<1>3. /\ \A i : Clause(L, i) \notin {Blk(L, "switch"), Blk(L, "end")} /\ \A j : Clause(L, i) # Test(L, j)
      /\ \A i, j : Clause(L, i) = Clause(L, j) => i = j
  BY DEF Blk, Clause, Test, Part
<1>4. o[1] \in 1..Len(q)
  <2>1. \A i \in 1..Len(o) : o[i] \in 1..Len(q)
    BY <1>1, Sequence
  <2> QED BY <1>1, <2>1
<1>5. ASSUME NEW i \in DOMAIN q, i # o[1]
      PROVE  Clause(L, i) \in R
  <2>1. PICK k \in 1..Len(q) : o[k] = i
    BY <1>1, <1>5
  <2>2. 1 \in 1..(k - 1) /\ k \in DOMAIN o
    BY <1>1, <1>5, <2>1
  <2>3. k \in later
    BY <2>2
  <2> HIDE DEF later, R
  <2>4. Clause(L, o[k]) \in {Clause(L, o[j]) : j \in later}
    BY <2>3
  <2> QED BY <1>2, <2>1, <2>4
<1>6. ASSUME NEW i, Clause(L, i) \in R
      PROVE  i # o[1]
  <2> HIDE DEF R, later
  <2>1. PICK j \in later : Clause(L, i) = Clause(L, o[j])
    BY <1>2, <1>3, <1>6
  <2>2. PICK k \in 1..(j - 1) : j \in DOMAIN o /\ o[k] = o[1]
    BY DEF later
  <2>3. j \in 1..Len(q) /\ k \in 1..Len(q) /\ 1 \in 1..Len(q) /\ j # 1
    <3>1. Len(q) \in Nat \ {0} /\ j \in 1..Len(q) /\ k \in 1..(j - 1)
      BY <1>1, <2>2
    <3> HIDE DEF q
    <3> QED BY <3>1
  <2>4. o[j] # o[1]
    BY <1>1, <2>3
  <2> QED BY <1>3, <2>1, <2>4
<1> QED BY <1>1, <1>4, <1>5, <1>6

LEMMA OpenSwitchGoes ==
  ASSUME NEW s \in Shapes, family \in DOMAIN Families, Struct, Going, OpenSwitch(s)
  PROVE  Going' /\ phase' = "compiling"
<1> DEFINE x == Node(s)  switch == Blk(New, "switch")  exit == Blk(New, "exiting")  end == Blk(New, "end")
           o == Ordered(s.clauses)  first == Clause(New, o[1])
           B == {Clause(New, i) : i \in 1..Len(s.clauses)}
           c1 == code ++ In(at, <<Br({switch})>>)
           c2 == c1 ++ In(switch, <<>>)
           c3 == c2 ++ In(exit, <<Br({end})>>)
           c4 == c3 ++ In(end, <<>>)
           c5 == c4 ++ [b \in B |-> <<>>]
           W == {at} \cup {exit}  V == {} \cup {switch} \cup {end} \cup B
<1>1. /\ CanAdd(s) /\ s.kind = "switch" /\ tree' = Append(tree, x) /\ frames' = Append(frames, Frame(New, o[1]))
      /\ code' = c5 /\ at' = first /\ pads' = pads /\ scopes' = scopes /\ phase' = "compiling"
  BY DEF OpenSwitch, CanAdd
<1>2. Writable /\ tree'[New] = x /\ x.kind = "switch" /\ x.clauses = s.clauses /\ Stands(tree, frames, x, tree')
  BY <1>1, CanWrite
<1>3. /\ \A y \in {switch, exit, end} : y[1] = New /\ y[2] # "pad" /\ y # at /\ Was(code, y) = <<>>
      /\ \A i : Clause(New, i)[1] = New /\ Clause(New, i)[2] # "pad" /\ Clause(New, i) # at /\
                Was(code, Clause(New, i)) = <<>> /\ Clause(New, i) \notin {switch, exit, end}
      /\ exit # switch /\ end # exit /\ end # switch
  <2>1. /\ \A y \in {switch, exit, end} : y[1] = New /\ y[2] # "pad" /\ y # at /\ Was(code, y) = <<>>
        /\ exit # switch /\ end # exit /\ end # switch
    BY <1>2, OwnUnwritten
  <2>2. \A i : Clause(New, i)[1] = New /\ Clause(New, i)[2] # "pad" /\ Clause(New, i) # at /\
                Was(code, Clause(New, i)) = <<>>
    BY <1>2, OwnUnwritten DEF Clause
  <2>3. \A i : Clause(New, i) \notin {switch, exit, end}
    BY DEF Clause, Part, Blk
  <2> QED BY <2>1, <2>2, <2>3
<1>4. Ended1(<<Br({switch})>>) /\ Ended1(<<Br({end})>>)
  BY Simple, StraightOne
<1>5. Order(s.clauses, o, Cases(s.clauses))
  <2>1. x \in NodeRecords /\ x.clauses # <<>> /\ \A j, k \in Defaults(x.clauses) : j = k
    BY <1>2 DEF Stands, Belongs
  <2>2. x.clauses \in Seq(Clauses)
    BY <2>1 DEF NodeRecords
  <2>3. s.clauses \in Seq(Clauses) /\ s.clauses # <<>> /\ \A j, k \in Defaults(s.clauses) : j = k
    BY <1>2, <2>1, <2>2
  <2> QED BY <2>3, OrderIs
<1>6. /\ o[1] \in Nat /\ o[1] \in DOMAIN s.clauses /\ DOMAIN s.clauses = 1..Len(s.clauses)
      /\ \A i \in DOMAIN s.clauses : i # o[1] => Clause(New, i) \in Reserved(tree', New, o[1])
      /\ first \notin Reserved(tree', New, o[1])
  <2> HIDE DEF x, o
  <2>1. tree'[New].kind = "switch" /\ tree'[New].clauses = s.clauses /\ o = Ordered(tree'[New].clauses)
    BY <1>2 DEF o
  <2>2. Order(tree'[New].clauses, o, Cases(tree'[New].clauses)) /\ DOMAIN s.clauses = 1..Len(s.clauses)
    BY <1>5, <2>1 DEF Order
  <2>3. /\ o[1] \in Nat /\ o[1] \in DOMAIN tree'[New].clauses
        /\ \A i \in DOMAIN tree'[New].clauses : i # o[1] => Clause(New, i) \in Reserved(tree', New, o[1])
        /\ \A i : Clause(New, i) \in Reserved(tree', New, o[1]) => i # o[1]
    BY <2>1, <2>2, ClausesAhead
  <2> QED BY <2>1, <2>2, <2>3
<1>7. /\ switch \in Reserved(tree', New, o[1]) /\ end \in Reserved(tree', New, o[1])
      /\ exit \notin Reserved(tree', New, o[1]) /\ \A y \in Reserved(tree', New, o[1]) : y[1] = New
      /\ Ahead(tree', New) = {switch, end} \cup {Clause(New, i) : i \in DOMAIN s.clauses}
      /\ Fits(tree', New, o[1]) /\ ~Scoped(tree', New)
  <2>1. /\ Reserved(tree', New, o[1]) =
             {switch, end} \cup {Clause(New, o[j]) : j \in {l \in DOMAIN o : \E k \in 1..(l - 1) : o[k] = o[1]}}
             \cup {Test(New, i) : i \in Elements(Cases(s.clauses))}
        /\ Ahead(tree', New) = {switch, end} \cup {Clause(New, i) : i \in DOMAIN s.clauses}
        /\ ~Scoped(tree', New)
    BY <1>2 DEF Reserved, Ahead, Scoped
  <2>2. \A i : Test(New, i)[1] = New /\ Test(New, i) # exit
    BY DEF Test, Part, Blk
  <2>3. Fits(tree', New, o[1])
    BY <1>2, <1>6 DEF Fits
  <2> HIDE DEF x, o, switch, exit, end
  <2> QED BY <1>3, <2>1, <2>2, <2>3
<1> HIDE DEF x, switch, exit, end, o, first, c1, c2, c3, c4, c5
<1>8. Stage(code, {at}, {}, c1)
  BY <1>2, <1>4, FirstEnds DEF c1
<1>9. Stage(code, {at}, {} \cup {switch}, c2)
  BY <1>3, <1>8, NextAdds DEF c2
<1>10. Stage(code, W, {} \cup {switch}, c3)
  BY <1>3, <1>4, <1>9, NextEnds DEF c3
<1>11. Stage(code, W, {} \cup {switch} \cup {end}, c4)
  BY <1>3, <1>10, NextAdds DEF c4
<1>12. \A y \in B : Straight(Was(c4, y))
  <2>1. \A y \in B : y \notin W /\ Was(code, y) = <<>>
    BY <1>3
  <2> HIDE DEF W, B
  <2> QED BY <1>11, <2>1, StageFresh
<1>13. Stage(code, W, V, c5)
  <2> HIDE DEF B
  <2> QED BY <1>11, <1>12, StageAddsAll DEF c5
<1>14. Lays(tree', New, o[1], at, at', W, V)
  <2>1. first \in B /\ first = Clause(New, o[1]) /\ B = {Clause(New, i) : i \in DOMAIN s.clauses}
    BY <1>6 DEF first
  <2>2. \A y \in B : y = first \/ y \in Reserved(tree', New, o[1])
    BY <1>6, <2>1
  <2>3. at' = first /\ first[1] = New /\ first[2] # "pad" /\ first # at
    BY <1>1, <1>3, <2>1
  <2>4. at \in W /\ at' \in V /\ \A y \in W \cup {at'} : y = at \/ (y[1] = New /\ y[2] # "pad")
    BY <1>3, <2>1, <2>3
  <2>5. \A y \in V : y = at' \/ y \in Reserved(tree', New, o[1]) \/ (tree'[New].kind = "try" /\ y = Blk(New, "pad"))
    BY <1>7, <2>2, <2>3
  <2>6. \A y \in Reserved(tree', New, o[1]) : y \notin W /\ y # at'
    <3>1. at \notin Reserved(tree', New, o[1])
      BY <1>2, <1>7 DEF Writable
    <3> QED BY <1>6, <1>7, <2>3, <3>1
  <2>7. Ahead(tree', New) \subseteq V
    BY <1>7, <2>1
  <2> HIDE DEF W, V, B
  <2> QED BY <1>2, <1>6, <1>7, <2>4, <2>5, <2>6, <2>7 DEF Lays
<1>15. s.kind \notin LeafKinds /\ pads' = Pushed(s.kind = "try", pads, Blk(New, "pad"))
  BY <1>1 DEF LeafKinds, JumpKinds, Pushed
<1>16. scopes' = IF Scoped(tree', New) THEN Append(scopes, Scope(Declared(tree', New))) ELSE scopes
  BY <1>1, <1>7
<1>17. Stage(code, W, V, code')
  BY <1>1, <1>13
<1> HIDE DEF W, V, B
<1> QED BY <1>1, <1>14, <1>15, <1>16, <1>17, OpenGoes DEF x

-----------------------------------------------------------------------------
(* The handlers after their last child, or between two of them             *)

(* What such a handler can rely on.                                        *)
Closable(n, slot) ==
  /\ Stage(code, {}, {}, code) /\ at \in DOMAIN code /\ Was(code, at) = code[at]
  /\ Straight(code[at]) \/ Ended1(code[at])
  /\ n \in 1..Len(tree) /\ Fits(tree, n, slot)
  /\ \A y \in Reserved(tree, n, slot) : y # at /\ Was(code, y) = <<>> /\ y[1] = n /\ y[2] # "pad"
  /\ Ahead(tree, n) \subseteq DOMAIN code
  /\ tree[n].kind = "try" /\ slot # 1 => Blk(n, "after") \in DOMAIN code
  /\ HasScopes(tree, frames, scopes)

LEMMA CanClose ==
  ASSUME Struct, Going, NEW n, n = Top(frames).node, NEW slot, slot = Top(frames).slot
  PROVE  Closable(n, slot)
<1>1. Shaped(tree) /\ Nested(tree, frames) /\ Steady(tree, frames, pads, scopes, code, at)
  BY DEF Struct, Going
<1>2. Inner(tree, frames, n, slot)
  BY <1>1, InnerIs
<1>3. n \in 1..Len(tree) /\ <<n, slot>> \in Opened(frames) /\ Fits(tree, n, slot)
  BY <1>2 DEF Inner
<1>4. /\ Stage(code, {}, {}, code) /\ at \in DOMAIN code /\ Was(code, at) = code[at]
      /\ (Straight(code[at]) \/ Ended1(code[at]))
  BY <1>1, StageHere
<1>5. Laid(tree, frames, code, at) /\ HasScopes(tree, frames, scopes)
  BY <1>1 DEF Steady
<1>6. ASSUME NEW y \in Reserved(tree, n, slot)
      PROVE  y # at /\ Was(code, y) = <<>> /\ y[1] = n /\ y[2] # "pad"
  <2>1. y \in Expected(tree, frames)
    <3>1. y \in Reserved(tree, <<n, slot>>[1], <<n, slot>>[2])
      OBVIOUS
    <3> QED BY <1>3, <3>1 DEF Expected
  <2>2. y[1] = n /\ y[2] # "pad"
    BY ReservedOwn
  <2> QED BY <1>5, <2>1, <2>2 DEF Laid
<1>7. Ahead(tree, n) \subseteq DOMAIN code /\ (tree[n].kind = "try" /\ slot # 1 => Blk(n, "after") \in DOMAIN code)
  <2>1. Ahead(tree, <<n, slot>>[1]) \subseteq DOMAIN code /\ AfterTry(tree, <<n, slot>>, code)
    BY <1>3, <1>5 DEF Laid, Built
  <2> QED BY <2>1 DEF AfterTry
<1> QED BY <1>3, <1>4, <1>5, <1>6, <1>7 DEF Closable

(* The block in which the child has been built falls through.              *)
LEMMA FallsTo ==
  ASSUME NEW n, NEW slot, Closable(n, slot), NEW z
  PROVE  Stage(code, {at}, {}, BrUnlessTerminated(code, at, z))
<1>1. Stage(code, {} \cup {at}, {} \ {at}, BrUnlessTerminated(code, at, z))
  BY StageFalls DEF Closable
<1> QED BY <1>1

(* What a handler leaves behind at its end. *)
Quits(t, n, slot, b, b2, W, V) ==
  /\ b \in W /\ b2 \in V /\ V \subseteq {b2}
  /\ \A y \in W \cup {b2} : y = b \/ (y[1] = n /\ y[2] # "pad")
  /\ \A y \in Reserved(t, n, slot) : y \in W \/ y = b2

LEMMA CloseGoes ==
  ASSUME Struct, Going, Close, NEW n, n = Top(frames).node, NEW slot, slot = Top(frames).slot,
         tree[n].kind \notin {"function", "block"}, tree[n].kind = "try" => slot # 1,
         NEW W, NEW V, Stage(code, W, V, code'), Quits(tree, n, slot, at, at', W, V),
         pads' = pads, scopes' = IF Scoped(tree, n) THEN Pop(scopes) ELSE scopes
  PROVE  Going'
<1>1. /\ Shaped(tree) /\ Nested(tree, frames) /\ Steady(tree, frames, pads, scopes, code, at)
      /\ tree' = tree /\ frames' = Pop(frames)
  BY DEF Struct, Going, Close
<1>2. Inner(tree, frames, n, slot)
  BY <1>1, InnerIs
<1>3. Grows(tree, tree) /\ n \in 1..Len(tree)
  BY <1>2 DEF Inner
<1>4. Leaves(frames, frames', n, slot) /\ Fewer(tree, frames, frames', n, slot)
  BY <1>1, LeftIs
<1>5. HasScopes(tree, frames, scopes)
  BY <1>1 DEF Steady
<1>6. HasScopes(tree, frames', scopes')
  <2>1. CASE Scoped(tree, n)
    <3>1. HasScopes(tree, frames', Pop(scopes))
      BY <1>1, <1>4, <1>5, <2>1, ScopeCloses
    <3> QED BY <2>1, <3>1
  <2>2. CASE ~Scoped(tree, n)
    <3>1. ScopedIn(tree, frames') = ScopedIn(tree, frames) \ {n}
      BY <1>4 DEF Fewer
    <3>2. n \notin ScopedIn(tree, frames)
      BY <2>2 DEF ScopedIn
    <3>3. ScopedIn(tree, frames') = ScopedIn(tree, frames) /\ \A o \in Opened(frames) : tree[o[1]] = tree[o[1]]
      BY <3>1, <3>2
    <3>4. HasScopes(tree, frames', scopes)
      BY <1>3, <1>5, <3>3, ScopesStay
    <3> QED BY <2>2, <3>4
  <2> QED BY <2>1, <2>2
<1>7. at \in W /\ at' \in V /\ V \subseteq {at'} /\ at' \in DOMAIN code' /\ ~Terminated(code', at')
  <2>1. at \in W /\ at' \in V /\ V \subseteq {at'}
    BY DEF Quits
  <2>2. at' \in DOMAIN code' /\ Straight(code'[at'])
    BY <2>1 DEF Stage
  <2> QED BY <2>1, <2>2, Terminators
<1>8. /\ \A y \in W \cup {at'} : y = at \/ (y[1] = n /\ y[2] # "pad")
      /\ \A y \in Reserved(tree, n, slot) : y \in W \/ y = at'
  BY DEF Quits
<1>9. Steady(tree, frames', pads, scopes', code', at')
  BY <1>1, <1>6, <1>7, <1>8, CloseSteady
<1> QED BY <1>1, <1>9 DEF Going

LEMMA CloseIfGoes ==
  ASSUME Struct, Going, CloseIf
  PROVE  Going' /\ phase' = "compiling"
<1> DEFINE n == Top(frames).node  slot == Top(frames).slot  end == Blk(n, "endif")
           e == BrUnlessTerminated(code, at, end)  W == {at}  V == {} \cup {end}
<1>1. /\ tree[n].kind = "if" /\ slot = 2 /\ Close /\ code' = e /\ at' = end
      /\ pads' = pads /\ scopes' = scopes /\ phase' = "compiling"
  BY DEF CloseIf, Doing, Parent
<1>2. Closable(n, slot)
  BY CanClose
<1>3. Reserved(tree, n, slot) = {end} /\ end \in Ahead(tree, n) /\ ~Scoped(tree, n)
  BY <1>1 DEF Reserved, Ahead, Scoped
<1> HIDE DEF n, slot, end, e
<1>4. end # at /\ Was(code, end) = <<>> /\ end[1] = n /\ end[2] # "pad" /\ end \in DOMAIN code
  BY <1>2, <1>3 DEF Closable
<1>5. Stage(code, W, {}, e)
  BY <1>2, FallsTo DEF e
<1>6. Stage(code, W, V, e)
  <2>1. Straight(Was(e, end))
    BY <1>4, <1>5, StageFresh
  <2>2. end \in DOMAIN e
    BY <1>4, <1>5 DEF Stage
  <2> QED BY <1>5, <2>1, <2>2, StageAdds
<1>7. Quits(tree, n, slot, at, at', W, V)
  BY <1>1, <1>3, <1>4 DEF Quits
<1>8. Stage(code, W, V, code') /\ scopes' = (IF Scoped(tree, n) THEN Pop(scopes) ELSE scopes)
      /\ tree[n].kind \notin {"function", "block"} /\ (tree[n].kind = "try" => slot # 1)
  BY <1>1, <1>3, <1>6
<1> HIDE DEF W, V
<1>9. Going'
  BY <1>1, <1>7, <1>8, CloseGoes DEF n, slot
<1> QED BY <1>1, <1>9

LEMMA CloseWhileGoes ==
  ASSUME Struct, Going, CloseWhile
  PROVE  Going' /\ phase' = "compiling"
<1> DEFINE n == Top(frames).node  slot == Top(frames).slot  end == Blk(n, "end")
           e == BrUnlessTerminated(code, at, Blk(n, "latch"))  c2 == e ++ In(end, <<>>)
           W == {at}  V == {} \cup {end}
<1>1. /\ tree[n].kind = "while" /\ Close /\ code' = c2 /\ at' = end
      /\ pads' = pads /\ scopes' = Pop(scopes) /\ phase' = "compiling"
  BY DEF CloseWhile, Doing, Parent
<1>2. Closable(n, slot)
  BY CanClose
<1>3. Reserved(tree, n, slot) = {end} /\ Scoped(tree, n)
  BY <1>1 DEF Reserved, Scoped
<1> HIDE DEF n, slot, end, e, c2
<1>4. end # at /\ Was(code, end) = <<>> /\ end[1] = n /\ end[2] # "pad"
  BY <1>2, <1>3 DEF Closable
<1>5. Stage(code, W, {}, e)
  BY <1>2, FallsTo DEF e
<1>6. Stage(code, W, V, c2)
  BY <1>4, <1>5, NextAdds DEF c2
<1>7. Quits(tree, n, slot, at, at', W, V)
  BY <1>1, <1>3, <1>4 DEF Quits
<1>8. Stage(code, W, V, code') /\ scopes' = (IF Scoped(tree, n) THEN Pop(scopes) ELSE scopes)
      /\ tree[n].kind \notin {"function", "block"} /\ (tree[n].kind = "try" => slot # 1)
  BY <1>1, <1>3, <1>6
<1> HIDE DEF W, V
<1>9. Going'
  BY <1>1, <1>7, <1>8, CloseGoes DEF n, slot
<1> QED BY <1>1, <1>9

LEMMA CloseDoGoes ==
  ASSUME Struct, Going, CloseDo
  PROVE  Going' /\ phase' = "compiling"
<1> DEFINE n == Top(frames).node  slot == Top(frames).slot  end == Blk(n, "end")
           cond == Blk(n, "cond")  latch == Blk(n, "latch")  exit == Blk(n, "exiting")
           test == <<Eval(cond), Br({Blk(n, "body"), exit})>>
           e == BrUnlessTerminated(code, at, latch)
           c2 == e ++ In(latch, <<Br({cond})>>)
           c3 == c2 ++ In(cond, test)
           c4 == c3 ++ In(exit, <<Br({end})>>)
           W == {at} \cup {latch} \cup {cond} \cup {exit}  V == {} \cup {end}
<1>1. /\ tree[n].kind = "do" /\ Close /\ code' = c4 /\ at' = end
      /\ pads' = pads /\ scopes' = Pop(scopes) /\ phase' = "compiling"
  BY DEF CloseDo, Doing, Parent
<1>2. Closable(n, slot)
  BY CanClose
<1>3. Reserved(tree, n, slot) = {cond, latch, exit, end} /\ Scoped(tree, n) /\ end \in Ahead(tree, n)
  BY <1>1 DEF Reserved, Scoped, Ahead
<1>4. latch # cond /\ exit \notin {latch, cond} /\ end \notin {latch, cond, exit}
  BY DEF Blk
<1>5. Ended1(<<Br({cond})>>) /\ Ended1(test) /\ Ended1(<<Br({end})>>)
  BY Simple, StraightOne, StraightTwo
<1> HIDE DEF n, slot, end, cond, latch, exit, test, e, c2, c3, c4
<1>6. /\ \A y \in {cond, latch, exit, end} : y # at /\ Was(code, y) = <<>> /\ y[1] = n /\ y[2] # "pad"
      /\ end \in DOMAIN code
  BY <1>2, <1>3 DEF Closable
<1>7. Stage(code, {at}, {}, e)
  BY <1>2, FallsTo DEF e
<1>8. Stage(code, {at} \cup {latch}, {}, c2)
  BY <1>5, <1>6, <1>7, NextEnds DEF c2
<1>9. Stage(code, {at} \cup {latch} \cup {cond}, {}, c3)
  BY <1>4, <1>5, <1>6, <1>8, NextEnds DEF c3
<1>10. Stage(code, W, {}, c4)
  BY <1>4, <1>5, <1>6, <1>9, NextEnds DEF c4
<1>11. Stage(code, W, V, c4)
  <2>1. end \notin W /\ end \in DOMAIN c4
    BY <1>4, <1>6, <1>10 DEF Stage
  <2> HIDE DEF W
  <2>2. Straight(Was(c4, end))
    BY <1>6, <1>10, <2>1, StageFresh
  <2> QED BY <1>10, <2>1, <2>2, StageAdds
<1>12. Quits(tree, n, slot, at, at', W, V)
  BY <1>1, <1>3, <1>6 DEF Quits
<1>13. Stage(code, W, V, code') /\ scopes' = (IF Scoped(tree, n) THEN Pop(scopes) ELSE scopes)
      /\ tree[n].kind \notin {"function", "block"} /\ (tree[n].kind = "try" => slot # 1)
  BY <1>1, <1>3, <1>11
<1> HIDE DEF W, V
<1>14. Going'
  BY <1>1, <1>12, <1>13, CloseGoes DEF n, slot
<1> QED BY <1>1, <1>14

LEMMA CloseForGoes ==
  ASSUME Struct, Going, CloseFor
  PROVE  Going' /\ phase' = "compiling"
<1> DEFINE n == Top(frames).node  slot == Top(frames).slot  end == Blk(n, "end")  inc == Blk(n, "inc")
           opts == tree[n].opts
           r == ReleaseAll(BodyExit)  left == r \o <<Br({Blk(n, "latch")})>>
           step == <<Eval(inc), Br({IterationOf(n, opts)})>>
           body == IF Terminated(code, at) THEN BeforeTerminator(code, at, r) ELSE code ++ In(at, left)
           turned == IF "inc" \in opts THEN body ++ In(inc, step) ELSE body
           original == IF tree[n].decl THEN [Top(scopes) EXCEPT !.vals = {Blk(n, "counter")}] ELSE Scope({})
           over == Deinitialize(original)
           V == {} \cup {end}
<1>1. /\ tree[n].kind = "for" /\ Close /\ code' = turned ++ In(end, over) /\ at' = end
      /\ pads' = pads /\ scopes' = (IF tree[n].decl THEN Pop(scopes) ELSE scopes) /\ phase' = "compiling"
  BY DEF CloseFor, Doing, Parent
<1>2. Closable(n, slot)
  BY CanClose
<1>3. /\ Reserved(tree, n, slot) = {end} \cup (IF "inc" \in opts THEN {inc} ELSE {})
      /\ Scoped(tree, n) <=> tree[n].decl
  BY <1>1 DEF Reserved, Scoped
<1>4. Straight(r) /\ Ended1(left) /\ Ended1(step) /\ Straight(over)
  <2>1. Straight(r) /\ Ended1(<<Br({Blk(n, "latch")})>>) /\ Straight(over)
    BY Simple, StraightOne
  <2>2. Ended1(left)
    BY <2>1, StraightBoth
  <2>3. Ended1(step)
    BY Simple, StraightTwo
  <2> QED BY <2>1, <2>2, <2>3
<1>5. inc # end /\ inc[1] = n /\ inc[2] # "pad"
  BY DEF Blk
<1> HIDE DEF n, slot, end, inc, r, left, step, over, opts
<1>6. /\ end # at /\ Was(code, end) = <<>> /\ end[1] = n /\ end[2] # "pad"
      /\ "inc" \in opts => inc # at /\ Was(code, inc) = <<>>
  BY <1>2, <1>3 DEF Closable
<1>7. Stage(code, {at}, {}, body)
  <2>1. Stage(code, {}, {}, code) /\ at \in DOMAIN code /\ Was(code, at) = code[at] /\ (Straight(code[at]) \/ Ended1(code[at]))
    BY <1>2 DEF Closable
  <2>2. CASE Terminated(code, at)
    <3>1. Ended1(code[at])
      BY <2>1, <2>2, Terminators
    <3>2. Stage(code, {} \cup {at}, {}, BeforeTerminator(code, at, r))
      BY <1>4, <2>1, <3>1, StageInserts
    <3>3. Stage(code, {at}, {}, BeforeTerminator(code, at, r))
      BY <3>2
    <3> QED BY <2>2, <3>3
  <2>3. CASE ~Terminated(code, at)
    <3>1. Straight(code[at])
      BY <2>1, <2>3, Terminators
    <3>2. Straight(Was(code, at))
      BY <2>1, <3>1
    <3>3. Stage(code, {} \cup {at}, {} \ {at}, code ++ In(at, left))
      BY <1>4, <2>1, <3>2, StageEnds
    <3>4. Stage(code, {at}, {}, code ++ In(at, left))
      BY <3>3
    <3> QED BY <2>3, <3>4
  <2> QED BY <2>2, <2>3
<1> HIDE DEF body
<1>8. \E W : /\ Stage(code, W, {}, turned) /\ at \in W /\ W \subseteq {at, inc}
             /\ "inc" \in opts => inc \in W
  <2>1. CASE "inc" \in opts
    <3>1. Stage(code, {at} \cup {inc}, {}, body ++ In(inc, step))
      BY <1>4, <1>6, <1>7, <2>1, NextEnds
    <3>2. Stage(code, {at} \cup {inc}, {}, turned)
      BY <2>1, <3>1
    <3> HIDE DEF turned
    <3>3. at \in {at} \cup {inc} /\ {at} \cup {inc} \subseteq {at, inc} /\ inc \in {at} \cup {inc}
      OBVIOUS
    <3> QED BY <3>2, <3>3
  <2>2. CASE "inc" \notin opts
    <3>1. Stage(code, {at}, {}, turned)
      BY <1>7, <2>2
    <3> HIDE DEF turned
    <3> QED BY <2>2, <3>1
  <2> QED BY <2>1, <2>2
<1> HIDE DEF turned
<1>9. PICK W1 : /\ Stage(code, W1, {}, turned) /\ at \in W1 /\ W1 \subseteq {at, inc}
                /\ "inc" \in opts => inc \in W1
  BY <1>8
<1>10. \A y \in W1 : y = at \/ (y[1] = n /\ y[2] # "pad")
  BY <1>5, <1>9
<1>11. Stage(code, W1 \cup {end}, V, turned ++ In(end, over))
  <2>1. end \notin W1
    BY <1>5, <1>6, <1>9
  <2>2. Straight(Was(turned, end))
    BY <1>6, <1>9, <2>1, StageFresh
  <2> QED BY <1>4, <1>9, <2>2, StageExtends
<1>12. Quits(tree, n, slot, at, at', W1 \cup {end}, V)
  BY <1>1, <1>3, <1>6, <1>9, <1>10 DEF Quits
<1>13. Stage(code, W1 \cup {end}, V, code') /\ scopes' = (IF Scoped(tree, n) THEN Pop(scopes) ELSE scopes)
       /\ tree[n].kind \notin {"function", "block"} /\ (tree[n].kind = "try" => slot # 1)
  BY <1>1, <1>3, <1>11
<1> HIDE DEF V
<1>14. Going'
  BY <1>1, <1>12, <1>13, CloseGoes DEF n, slot
<1> QED BY <1>1, <1>14

LEMMA CloseForOfGoes ==
  ASSUME Struct, Going, CloseForOf \/ CloseForIn
  PROVE  Going' /\ phase' = "compiling"
<1> DEFINE n == Top(frames).node  slot == Top(frames).slot  end == Blk(n, "end")  exit == Blk(n, "exiting")
           place == IF tree[n].kind = "forof" /\ "tuple" \in tree[n].opts THEN {Blk(n, "element")} ELSE {}
           over == ReleaseAll(place) \o Deinitialize(Top(scopes))
           e == BrUnlessTerminated(code, at, Blk(n, "latch"))
           c2 == e ++ In(exit, <<Br({end})>>)
           c3 == c2 ++ In(end, over)
           W == {at} \cup {exit} \cup {end}  V == {} \cup {end}
<1>1. /\ tree[n].kind \in {"forof", "forin"} /\ Close /\ code' = c3 /\ at' = end
      /\ pads' = pads /\ scopes' = Pop(scopes) /\ phase' = "compiling"
  BY DEF CloseForOf, CloseForIn, EndIterations, Doing, Parent
<1>2. Closable(n, slot)
  BY CanClose
<1>3. Reserved(tree, n, slot) = {exit, end} /\ Scoped(tree, n)
  BY <1>1 DEF Reserved, Scoped
<1>4. Straight(over) /\ Ended1(<<Br({end})>>)
  <2>1. Straight(ReleaseAll(place)) /\ Straight(Deinitialize(Top(scopes)))
    BY Simple
  <2>2. Ended1(<<Br({end})>>)
    BY Simple, StraightOne
  <2> QED BY <2>1, <2>2, StraightBoth
<1>5. exit # end
  BY DEF Blk
<1> HIDE DEF n, slot, end, exit, place, over, e, c2, c3
<1>6. \A y \in {exit, end} : y # at /\ Was(code, y) = <<>> /\ y[1] = n /\ y[2] # "pad"
  BY <1>2, <1>3 DEF Closable
<1>7. Stage(code, {at}, {}, e)
  BY <1>2, FallsTo DEF e
<1>8. Stage(code, {at} \cup {exit}, {}, c2)
  BY <1>4, <1>6, <1>7, NextEnds DEF c2
<1>9. Stage(code, W, V, c3)
  <2>1. end \notin {at} \cup {exit}
    BY <1>5, <1>6
  <2>2. Straight(Was(c2, end))
    BY <1>6, <1>8, <2>1, StageFresh
  <2> QED BY <1>4, <1>8, <2>2, StageExtends DEF c3
<1>10. Quits(tree, n, slot, at, at', W, V)
  BY <1>1, <1>3, <1>6 DEF Quits
<1>11. Stage(code, W, V, code') /\ scopes' = (IF Scoped(tree, n) THEN Pop(scopes) ELSE scopes)
       /\ tree[n].kind \notin {"function", "block"} /\ (tree[n].kind = "try" => slot # 1)
  BY <1>1, <1>3, <1>9
<1> HIDE DEF W, V
<1>12. Going'
  BY <1>1, <1>10, <1>11, CloseGoes, SMTT(60) DEF n, slot
<1> QED BY <1>1, <1>12

(* Clause o[j] of the switch is the j-th that is read, slot the k-th.       *)
ReadsAs(q, o, k, slot) ==
  /\ Len(q) \in Nat \ {0} /\ DOMAIN q = 1..Len(q)
  /\ Len(o) = Len(q) /\ DOMAIN o = 1..Len(q) /\ (\A j \in 1..Len(q) : o[j] \in 1..Len(q))
  /\ k \in 1..Len(q) /\ o[k] = slot /\ \A i, j \in 1..Len(q) : o[i] = o[j] => i = j

LEMMA ClausesOf ==
  ASSUME Struct, NEW n, n = Top(frames).node, NEW slot, slot = Top(frames).slot, tree[n].kind = "switch",
         NEW q, q = tree[n].clauses, NEW o, o = Ordered(q), NEW k, k = Position(o, slot)
  PROVE  ReadsAs(q, o, k, slot)
<1>1. Shaped(tree) /\ Inner(tree, frames, n, slot)
  BY InnerIs DEF Struct
<1>2. n \in 1..Len(tree) /\ Fits(tree, n, slot)
  BY <1>1 DEF Inner
<1>3. /\ Order(q, o, Cases(q)) /\ Len(q) \in Nat \ {0} /\ DOMAIN q = 1..Len(q)
      /\ Len(o) = Len(q) /\ DOMAIN o = 1..Len(q) /\ \A j \in 1..Len(q) : o[j] \in 1..Len(q)
      /\ Position(o, slot) \in 1..Len(q) /\ o[Position(o, slot)] = slot
  BY <1>1, <1>2, SwitchOrder, SMTT(60)
<1>4. \A i, j \in 1..Len(q) : o[i] = o[j] => i = j
  BY <1>3 DEF Order
<1> QED BY <1>3, <1>4 DEF ReadsAs

LEMMA SwitchIsLast ==
  ASSUME CloseSwitch
  PROVE  Position(Ordered(Parent.clauses), Top(frames).slot) = Len(Ordered(Parent.clauses))
BY Zenon DEF CloseSwitch

LEMMA CloseSwitchGoes ==
  ASSUME Struct, Going, CloseSwitch
  PROVE  Going' /\ phase' = "compiling"
<1> DEFINE n == Top(frames).node  slot == Top(frames).slot  q == tree[n].clauses  o == Ordered(q)
           d == Discriminant(n, tree[n].opts)
           end == Blk(n, "end")  switch == Blk(n, "switch")
           tests == SwitchTests(n, q)  new == [y \in tests |-> SwitchTest(n, q, y, d)]
           first == <<Br({SwitchNext(n, q, 0)})>>
           e == BrUnlessTerminated(code, at, end)
           c2 == e ++ In(switch, first)
           c3 == c2 ++ new
           later == {l \in DOMAIN o : \E k \in 1..(l - 1) : o[k] = slot}
           W == {at} \cup {switch} \cup tests  V == {} \cup {end}
<1>1. /\ tree[n].kind = "switch" /\ Close /\ at' = end /\ pads' = pads /\ scopes' = scopes /\ phase' = "compiling"
      /\ Position(o, slot) = Len(o)
  <2>1. Position(o, slot) = Len(o)
    BY SwitchIsLast DEF Parent
  <2>2. /\ tree[n].kind = "switch" /\ Close /\ at' = end /\ pads' = pads /\ scopes' = scopes /\ phase' = "compiling"
    BY SwitchLeaves DEF Parent
  <2> QED BY <2>1, <2>2
<1>2. code' = c3
  <2>1. q = Parent.clauses /\ d = Discriminant(n, Parent.opts)
    BY DEF Parent
  <2> HIDE DEF n, q, d
  <2>2. n = Top(frames).node
    BY DEF n
  <2> QED BY <2>1, <2>2, SwitchCode
<1>3. Closable(n, slot)
  BY CanClose
<1>4. later = {}
  <2> DEFINE N == Len(q)
  <2> HIDE DEF n, slot, q, o, later
  <2>1. /\ N \in Nat \ {0} /\ Len(o) = N /\ DOMAIN o = 1..N
        /\ Position(o, slot) \in 1..N /\ o[Position(o, slot)] = slot /\ \A i, j \in 1..N : o[i] = o[j] => i = j
    <3>1. n = Top(frames).node /\ slot = Top(frames).slot /\ q = tree[n].clauses /\ o = Ordered(q)
      BY DEF n, slot, q, o
    <3>2. ReadsAs(q, o, Position(o, slot), slot)
      BY <1>1, <3>1, ClausesOf
    <3> QED BY <3>2 DEF ReadsAs, N
  <2>2. SUFFICES ASSUME NEW l \in DOMAIN o, NEW k \in 1..(l - 1), o[k] = slot PROVE FALSE
    BY DEF later
  <2> HIDE DEF N
  <2>3. k \in 1..N /\ l \in 1..N /\ k < l
    BY <2>1, <2>2
  <2>4. k = N
    BY <1>1, <2>1, <2>2, <2>3
  <2> QED BY <2>1, <2>3, <2>4
<1>5. /\ Reserved(tree, n, slot) = {switch, end} \cup tests /\ end \in Ahead(tree, n) /\ ~Scoped(tree, n)
  <2>1. Reserved(tree, n, slot) = {switch, end} \cup {Clause(n, o[j]) : j \in later} \cup {Test(n, i) : i \in Elements(Cases(q))}
    BY <1>1 DEF Reserved
  <2>2. tests = {Test(n, i) : i \in Elements(Cases(q))}
    <3>1. Shaped(tree) /\ Fits(tree, n, slot) /\ n \in 1..Len(tree)
      BY <1>3 DEF Closable, Struct
    <3> HIDE DEF n, slot, q
    <3>2. q = tree[n].clauses
      BY DEF q
    <3> QED BY <1>1, <3>1, <3>2, SwitchTargets
  <2>3. {Clause(n, o[j]) : j \in later} = {}
    <3> HIDE DEF later
    <3> QED BY <1>4
  <2>4. end \in Ahead(tree, n) /\ ~Scoped(tree, n)
    BY <1>1 DEF Ahead, Scoped
  <2> HIDE DEF tests, later, n, slot, q, o, switch, end
  <2> QED BY <2>1, <2>2, <2>3, <2>4
<1>6. switch # end /\ switch \notin tests /\ end \notin tests
  BY DEF Blk, Test, Part, SwitchTests
<1>7. Ended1(first) /\ DOMAIN new = tests /\ \A y \in tests : Ended1(new[y])
  <2>1. Ended1(first)
    BY Simple, StraightOne
  <2>2. Straight(d)
    BY Simple, StraightOne, StraightNone, SMTT(60) DEF Discriminant
  <2> HIDE DEF d
  <2>3. \A y : Ended1(SwitchTest(n, q, y, d))
    BY <2>2, Simple, StraightTwo, StraightBoth DEF SwitchTest
  <2> HIDE DEF tests, first, n, q
  <2> QED BY <2>1, <2>3
<1> HIDE DEF n, slot, q, o, d, end, switch, tests, new, first, e, c2, c3, later
<1>8. /\ \A y \in {switch, end} \cup tests : y # at /\ Was(code, y) = <<>> /\ y[1] = n /\ y[2] # "pad"
      /\ end \in DOMAIN code
  BY <1>3, <1>5 DEF Closable
<1>9. Stage(code, {at}, {}, e)
  BY <1>3, FallsTo DEF e
<1>10. Stage(code, {at} \cup {switch}, {}, c2)
  BY <1>7, <1>8, <1>9, NextEnds DEF c2
<1>11. Stage(code, W, {}, c3)
  <2>1. \A y \in tests : Was(c2, y) = <<>>
    <3> SUFFICES ASSUME NEW y \in tests PROVE Was(c2, y) = <<>>
      OBVIOUS
    <3>1. y \notin {at} \cup {switch} /\ Was(code, y) = <<>>
      BY <1>6, <1>8
    <3> QED BY <1>10, <3>1, StageFresh
  <2>2. Stage(code, {at} \cup {switch} \cup DOMAIN new, {} \ DOMAIN new, c2 ++ new)
    BY <1>7, <1>10, <2>1, StageEndsAll
  <2>3. {} \ DOMAIN new = {}
    OBVIOUS
  <2> QED BY <1>7, <2>2, <2>3 DEF c3
<1>12. Stage(code, W, V, c3)
  <2>1. end \notin W /\ end \in DOMAIN c3
    BY <1>6, <1>8, <1>11 DEF Stage
  <2> HIDE DEF W
  <2>2. Straight(Was(c3, end))
    BY <1>8, <1>11, <2>1, StageFresh
  <2> QED BY <1>11, <2>1, <2>2, StageAdds
<1>13. Quits(tree, n, slot, at, at', W, V)
  BY <1>1, <1>5, <1>8 DEF Quits
<1>14. Stage(code, W, V, code') /\ scopes' = (IF Scoped(tree, n) THEN Pop(scopes) ELSE scopes)
       /\ tree[n].kind \notin {"function", "block"} /\ (tree[n].kind = "try" => slot # 1)
  BY <1>1, <1>2, <1>5, <1>12
<1> HIDE DEF W, V
<1>15. Going'
  BY <1>1, <1>13, <1>14, CloseGoes DEF n, slot
<1> QED BY <1>1, <1>15

LEMMA ElseGoes ==
  ASSUME Struct, Going, Else
  PROVE  Going' /\ phase' = "compiling"
<1> DEFINE n == Top(frames).node  slot == Top(frames).slot  else == Blk(n, "else")  end == Blk(n, "endif")
           e == BrUnlessTerminated(code, at, end)
<1>1. /\ tree[n].kind = "if" /\ slot = 1 /\ code' = e /\ at' = else
      /\ tree' = tree /\ frames' = Append(Pop(frames), Frame(n, 2))
      /\ pads' = pads /\ scopes' = scopes /\ phase' = "compiling"
  BY DEF Else, Doing, NextSlot, Parent
<1>2. Closable(n, slot)
  BY CanClose
<1>3. /\ Reserved(tree, n, 1) = {end, else} /\ Reserved(tree, n, 2) = {end} /\ else # end
      /\ else \in Ahead(tree, n) /\ Fits(tree, n, 2)
  <2>1. Reserved(tree, n, 1) = {end} \cup {else} /\ Reserved(tree, n, 2) = {end} \cup {} /\ else # end
    BY <1>1 DEF Reserved, Blk
  <2>2. else \in Ahead(tree, n) /\ Fits(tree, n, 2)
    BY <1>1 DEF Ahead, Fits
  <2> QED BY <2>1, <2>2
<1> HIDE DEF n, slot, end, else, e
<1>4. else # at /\ Was(code, else) = <<>> /\ else \in DOMAIN code
  BY <1>1, <1>2, <1>3 DEF Closable
<1>5. Stage(code, {at}, {}, e)
  BY <1>2, FallsTo DEF e
<1>6. Stage(code, {at}, {else}, e)
  <2>1. Straight(Was(e, else))
    BY <1>4, <1>5, StageFresh
  <2>2. else \in DOMAIN e
    BY <1>4, <1>5 DEF Stage
  <2>3. Stage(code, {at}, {} \cup {else}, e)
    BY <1>5, <2>1, <2>2, StageAdds
  <2> QED BY <2>3
<1>7. Steady(tree, frames', pads, scopes, e, else)
  <2>1. /\ Shaped(tree) /\ Nested(tree, frames) /\ n = Top(frames).node /\ slot = Top(frames).slot
        /\ Steady(tree, frames, pads, scopes, code, at)
    BY DEF Struct, Going, n, slot
  <2>2. Moves(tree, frames, n, slot, 2, frames')
    BY <1>1, <1>3, <2>1 DEF Moves
  <2>3. HandsOn(tree, n, slot, 2, else)
    BY <1>1, <1>3 DEF HandsOn
  <2> QED BY <1>6, <2>1, <2>2, <2>3, MoveSteady
<1> QED BY <1>1, <1>7 DEF Going

LEMMA NextClauseGoes ==
  ASSUME Struct, Going, NextClause
  PROVE  Going' /\ phase' = "compiling"
<1> DEFINE n == Top(frames).node  slot == Top(frames).slot  q == tree[n].clauses  o == Ordered(q)  N == Len(q)
           k == Position(o, slot)  next == o[k + 1]  y == Clause(n, next)
           e == BrUnlessTerminated(code, at, y)
           R == Reserved(tree, n, slot)  Q == Reserved(tree, n, next)
           Rest(i) == {Clause(n, o[j]) : j \in {l \in DOMAIN o : \E m \in 1..(l - 1) : o[m] = i}}
           others == {Blk(n, "switch"), Blk(n, "end")}
           tests == {Test(n, i) : i \in Elements(Cases(q))}
<1>1. /\ tree[n].kind = "switch" /\ k < Len(o) /\ code' = e /\ at' = y
      /\ tree' = tree /\ frames' = Append(Pop(frames), Frame(n, next))
      /\ pads' = pads /\ scopes' = scopes /\ phase' = "compiling"
  BY DEF NextClause, NextSlot, Parent
<1>2. Closable(n, slot)
  BY CanClose
<1>3. R = others \cup Rest(slot) \cup tests /\ Q = others \cup Rest(next) \cup tests
  BY <1>1 DEF Reserved
<1>4. /\ N \in Nat \ {0} /\ DOMAIN q = 1..N /\ Len(o) = N /\ DOMAIN o = 1..N /\ (\A j \in 1..N : o[j] \in 1..N)
      /\ k \in 1..N /\ o[k] = slot /\ \A i, j \in 1..N : o[i] = o[j] => i = j
  <2> HIDE DEF n, slot, q, o, k
  <2>1. n = Top(frames).node /\ slot = Top(frames).slot /\ q = tree[n].clauses /\ o = Ordered(q) /\ k = Position(o, slot)
    BY SMTT(60) DEF n, slot, q, o, k
  <2>2. ReadsAs(q, o, k, slot)
    BY <1>1, <2>1, ClausesOf
  <2> QED BY <2>2 DEF ReadsAs, N
<1> HIDE DEF n, slot, q, o, N, k
<1>5. k + 1 \in 1..N /\ next \in 1..N /\ next \in Nat /\ (k + 1) - 1 = k
  BY <1>1, <1>4
<1>6. Fits(tree, n, next) /\ y \in Ahead(tree, n)
  <2>1. Ahead(tree, n) = others \cup {Clause(n, i) : i \in DOMAIN q}
    BY <1>1 DEF Ahead, q
  <2>2. Fits(tree, n, next)
    BY <1>1, <1>4, <1>5 DEF Fits, q
  <2> QED BY <1>4, <1>5, <2>1, <2>2
<1>7. y \in Rest(slot)
  <2>1. k \in 1..((k + 1) - 1) /\ o[k] = slot /\ k + 1 \in DOMAIN o
    BY <1>4, <1>5
  <2> QED BY <2>1
<1>8. Rest(next) \subseteq Rest(slot)
  <2> SUFFICES ASSUME NEW j \in DOMAIN o, NEW m \in 1..(j - 1), o[m] = next
               PROVE  \E i \in 1..(j - 1) : o[i] = slot
    OBVIOUS
  <2>1. j \in 1..N /\ m \in 1..N
    BY <1>4
  <2>2. m = k + 1
    BY <1>4, <1>5, <2>1
  <2>3. k \in 1..(j - 1)
    BY <1>4, <2>1, <2>2
  <2> QED BY <1>4, <2>3
<1>9. Rest(slot) \subseteq Rest(next) \cup {y}
  <2> SUFFICES ASSUME NEW j \in DOMAIN o, NEW m \in 1..(j - 1), o[m] = slot, o[j] # next
               PROVE  \E i \in 1..(j - 1) : o[i] = next
    OBVIOUS
  <2>1. j \in 1..N /\ m \in 1..N
    BY <1>4
  <2>2. m = k /\ j # k + 1
    BY <1>4, <2>1
  <2>3. k + 1 \in 1..(j - 1)
    BY <1>4, <2>1, <2>2
  <2> QED BY <2>3
<1>10. y \notin Q
  <2>1. y \notin others /\ y \notin tests
    BY DEF Clause, Test, Part, Blk
  <2>2. y \notin Rest(next)
    <3> SUFFICES ASSUME NEW j \in DOMAIN o, NEW m \in 1..(j - 1), o[m] = next, y = Clause(n, o[j])
                 PROVE  FALSE
      OBVIOUS
    <3>1. j \in 1..N /\ m \in 1..N /\ m # j
      BY <1>4
    <3>2. m = k + 1
      BY <1>4, <1>5, <3>1
    <3>3. o[j] = next
      BY DEF Clause, Part
    <3>4. j = k + 1
      BY <1>4, <1>5, <3>1, <3>3
    <3> QED BY <3>1, <3>2, <3>4
  <2> QED BY <1>3, <2>1, <2>2
<1> HIDE DEF next, y, e, Rest, others, tests, R, Q
<1>11. y \in R /\ y \notin Q /\ Q \subseteq R /\ R \subseteq Q \cup {y}
  BY <1>3, <1>7, <1>8, <1>9, <1>10
<1>12. y # at /\ Was(code, y) = <<>> /\ y \in DOMAIN code
  BY <1>2, <1>6, <1>11 DEF Closable, R
<1>13. Stage(code, {at}, {}, e)
  BY <1>2, FallsTo DEF e
<1>14. Stage(code, {at}, {y}, e)
  <2>1. Straight(Was(e, y))
    BY <1>12, <1>13, StageFresh
  <2>2. y \in DOMAIN e
    BY <1>12, <1>13 DEF Stage
  <2>3. Stage(code, {at}, {} \cup {y}, e)
    BY <1>13, <2>1, <2>2, StageAdds
  <2> QED BY <2>3
<1>15. Steady(tree, frames', pads, scopes, e, y)
  <2>1. /\ Shaped(tree) /\ Nested(tree, frames) /\ n = Top(frames).node /\ slot = Top(frames).slot
        /\ Steady(tree, frames, pads, scopes, code, at)
    BY DEF Struct, Going, n, slot
  <2>2. Moves(tree, frames, n, slot, next, frames')
    BY <1>1, <1>5, <1>6, <2>1 DEF Moves
  <2>3. HandsOn(tree, n, slot, next, y)
    BY <1>11 DEF HandsOn, R, Q
  <2> QED BY <1>14, <2>1, <2>2, <2>3, MoveSteady
<1> QED BY <1>1, <1>15 DEF Going

(* Nothing is written.                                                     *)
LEMMA StageSame ==
  ASSUME NEW c, NEW W, NEW V, NEW e, Stage(c, W, V, e), NEW y \in DOMAIN e
  PROVE  Stage(c, W, V, e ++ In(y, <<>>)) /\ y \in DOMAIN (e ++ In(y, <<>>)) /\ (e ++ In(y, <<>>))[y] = e[y]
<1> DEFINE d == e ++ In(y, <<>>)
<1>1. \A x \in DOMAIN e : IsList(e[x])
  BY DEF Stage
<1>2. DOMAIN In(y, <<>>) = {y} /\ In(y, <<>>)[y] = <<>> /\ IsList(<<>>)
  BY InIs, StraightNone, StraightIsList
<1>3. AddsTo(e, In(y, <<>>), d)
  BY <1>1, <1>2, AddedTo
<1> HIDE DEF d
<1>4. DOMAIN d = DOMAIN e /\ (\A x \in DOMAIN d : IsList(d[x])) /\ \A x : Was(d, x) = Was(e, x)
  BY <1>2, <1>3 DEF AddsTo
<1>5. \A x \in DOMAIN e : d[x] = e[x]
  BY <1>4 DEF Was
<1>6. Stage(c, W, V, d)
  BY <1>4, <1>5 DEF Stage
<1> QED BY <1>4, <1>5, <1>6 DEF d

LEMMA CloseTryGoes ==
  ASSUME Struct, Going, CloseTry
  PROVE  Going' /\ phase' = "compiling"
<1> DEFINE n == Top(frames).node  slot == Top(frames).slot  after == Blk(n, "after")
           r == CaughtReleased(n, code, at)
           c1 == code ++ In(at, r)
           e == BrUnlessTerminated(c1, at, after)
           W == {at}  V == {} \cup {after}
<1>1. /\ tree[n].kind = "try" /\ slot = 2 /\ Close /\ code' = e /\ at' = after
      /\ pads' = pads /\ scopes' = scopes /\ phase' = "compiling"
  BY DEF CloseTry, Doing, Parent, CaughtReleased
<1>2. Closable(n, slot)
  BY CanClose
<1>3. Reserved(tree, n, slot) = {after} /\ ~Scoped(tree, n)
  BY <1>1 DEF Reserved, Scoped
<1>4. after \in DOMAIN code
  BY <1>1, <1>2 DEF Closable
<1>5. r = IF Terminated(code, at) THEN <<>> ELSE <<Release({Blk(n, "caught")})>>
  BY DEF CaughtReleased
<1>6. Straight(<<Release({Blk(n, "caught")})>>)
  BY Simple, StraightOne
<1> HIDE DEF n, slot, after, r, c1, e
<1>7. after # at /\ Was(code, after) = <<>> /\ after[1] = n /\ after[2] # "pad"
  BY <1>2, <1>3 DEF Closable
<1>8. Stage(code, {}, {}, code) /\ at \in DOMAIN code /\ Was(code, at) = code[at] /\ (Straight(code[at]) \/ Ended1(code[at]))
  BY <1>2 DEF Closable
<1>9. Stage(code, W, {}, e)
  <2>1. CASE Terminated(code, at)
    <3>1. Stage(code, {}, {}, c1) /\ at \in DOMAIN c1 /\ c1[at] = code[at]
      BY <1>5, <1>8, <2>1, StageSame DEF c1
    <3>2. Stage(code, {} \cup {at}, {} \ {at}, e)
      BY <1>8, <3>1, StageFalls DEF e
    <3> QED BY <3>2
  <2>2. CASE ~Terminated(code, at)
    <3>1. Straight(code[at])
      BY <1>8, <2>2, Terminators
    <3>2. Straight(Was(code, at)) /\ Straight(r)
      BY <1>5, <1>6, <1>8, <2>2, <3>1
    <3>3. Stage(code, {} \cup {at}, {} \cup {at}, c1)
      BY <1>8, <3>2, StageExtends DEF c1
    <3>4. at \in DOMAIN c1 /\ Straight(c1[at])
      BY <3>3 DEF Stage
    <3>5. Stage(code, {} \cup {at} \cup {at}, ({} \cup {at}) \ {at}, e)
      BY <3>3, <3>4, StageFalls DEF e
    <3>6. {} \cup {at} \cup {at} = W /\ ({} \cup {at}) \ {at} = {}
      OBVIOUS
    <3> QED BY <3>5, <3>6
  <2> QED BY <2>1, <2>2
<1>10. Stage(code, W, V, e)
  <2>1. Straight(Was(e, after))
    BY <1>7, <1>9, StageFresh
  <2>2. after \in DOMAIN e
    BY <1>4, <1>9 DEF Stage
  <2> QED BY <1>9, <2>1, <2>2, StageAdds
<1>11. Quits(tree, n, slot, at, at', W, V)
  BY <1>1, <1>3, <1>7 DEF Quits
<1>12. Stage(code, W, V, code') /\ scopes' = (IF Scoped(tree, n) THEN Pop(scopes) ELSE scopes)
       /\ tree[n].kind \notin {"function", "block"} /\ (tree[n].kind = "try" => slot # 1)
  BY <1>1, <1>3, <1>10
<1> HIDE DEF W, V
<1>13. Going'
  BY <1>1, <1>11, <1>12, CloseGoes DEF n, slot
<1> QED BY <1>1, <1>13

(* A try statement without a catch clause explains a rejection.            *)
LEMMA WithoutCatchExplains ==
  ASSUME Struct, Going, CloseTryWithoutCatch
  PROVE  Explained(tree')
<1> DEFINE n == Top(frames).node  slot == Top(frames).slot
<1>1. tree[n].kind = "try" /\ "catch" \notin tree[n].opts /\ tree' = tree
  BY DEF CloseTryWithoutCatch, Doing, Close, Parent
<1>2. Closable(n, slot)
  BY CanClose
<1> HIDE DEF n, slot
<1>3. ~CaughtIn(tree)
  BY <1>1, <1>2 DEF Closable, CaughtIn
<1> QED BY <1>1, <1>3 DEF Explained

(* The block at the end of which a jump stands is explained or has nothing *)
(* to let go of.                                                           *)
LEMMA JumpedOut ==
  ASSUME NEW t, Shaped(t), NEW n \in 1..Len(t), t[n].kind \in {"function", "block"},
         NEW ss, Top(ss).vals = Declared(t, n), NEW j, Jumped(t, n, ss, j)
  PROVE  Deinitialize(Top(ss)) = <<>> \/ Explained(t)
<1> SUFFICES ASSUME Deinitialize(Top(ss)) # <<>>
             PROVE  Explained(t)
  OBVIOUS
<1>1. /\ j \in 1..Len(t) /\ t[j].kind \in JumpKinds /\ n \in Climb(t)[j]
      /\ \A m \in Climb(t)[j] : m > n => t[m].kind = "block"
      /\ t[j].kind \in {"return", "throw"} /\ t[j].parent = n => Top(ss).isDeinitialized
  BY DEF Jumped
<1>2. ~Top(ss).isDeinitialized /\ Declared(t, n) # {}
  BY DEF Deinitialize, ReleaseAll
<1>3. DeclaresIn(t, n)
  <2>1. t[n].decl \/ (n # 1 /\ t[t[n].parent].kind = "try" /\ t[n].slot = 2 /\ "var" \in t[t[n].parent].opts)
    BY <1>2 DEF Declared
  <2>2. n # 1 => t[n].parent \in 1..Len(t)
    BY ShapedIsRooted DEF Shaped
  <2> QED BY <2>1, <2>2 DEF DeclaresIn
<1>4. EndsIn(t, j, n)
  <2> SUFFICES ASSUME NEW m \in Climb(t)[j], m = n \/ n \in Climb(t)[m]
               PROVE  t[m].kind \in {"block", "function"}
    BY <1>1 DEF EndsIn
  <2>1. CASE m = n
    BY <2>1
  <2>2. CASE n \in Climb(t)[m]
    <3>1. m \in 0..(j - 1) /\ Len(t) \in Nat
      BY <1>1, Paths, ShapedIsRooted
    <3>2. m # 0
      <4>1. Climb(t)[0] = {}
        BY ShapedIsRooted, Climbing
      <4> QED BY <2>2, <4>1
    <3>3. m \in 1..Len(t)
      BY <1>1, <3>1, <3>2
    <3>4. Climb(t)[m] \subseteq 0..(m - 1)
      BY <3>3, Paths
    <3>5. m > n
      BY <2>2, <3>3, <3>4
    <3> QED BY <1>1, <3>5
  <2> QED BY <2>1, <2>2
<1>5. JumpsOut(t, j, n)
  BY <1>1, <1>2, <1>3, <1>4 DEF JumpsOut
<1> QED BY <1>1, <1>5 DEF Explained

(* It ends the list that the block stands in, too.                         *)
LEMMA JumpedOn ==
  ASSUME NEW t, Shaped(t), NEW n \in 1..Len(t), t[n].kind = "block", NEW p, p = t[n].parent,
         NEW ss, NEW j, Jumped(t, n, ss, j), NEW ss2
  PROVE  Jumped(t, p, ss2, j)
<1>1. /\ j \in 1..Len(t) /\ t[j].kind \in JumpKinds /\ n \in Climb(t)[j]
      /\ \A m \in Climb(t)[j] : m > n => t[m].kind = "block"
  BY DEF Jumped
<1>2. p \in 0..(n - 1) /\ Len(t) \in Nat /\ p \in 0..Len(t)
  BY ShapedIsRooted DEF Shaped
<1>3. Climb(t)[n] = {p} \cup Climb(t)[p] /\ \A m \in Climb(t)[p] : m < p
  <2>1. Climb(t)[n] = {p} \cup Climb(t)[p] /\ Climb(t)[0] = {}
    BY ShapedIsRooted, Climbing
  <2>2. p # 0 => p \in 1..Len(t)
    BY <1>2
  <2>3. p # 0 => Climb(t)[p] \subseteq 0..(p - 1)
    BY <2>2, Paths
  <2>4. \A m \in Climb(t)[p] : m < p
    BY <1>2, <2>1, <2>3
  <2> QED BY <2>1, <2>4
<1>4. p \in Climb(t)[j] /\ \A m \in Climb(t)[j] : m = n \/ m \in Climb(t)[n] \/ n \in Climb(t)[m]
  <2>1. n \in 0..Len(t) /\ j \in 0..Len(t)
    BY <1>1, <1>2
  <2>2. Chained(t, j, n)
    BY <2>1, ClimbChain
  <2> QED BY <1>1, <1>3, <2>2 DEF Chained
<1>5. ASSUME NEW m \in Climb(t)[j], m > p
      PROVE  t[m].kind = "block"
  <2>1. m \notin Climb(t)[n]
    <3>1. m \in 0..(j - 1)
      BY <1>1, Paths
    <3> QED BY <1>1, <1>2, <1>3, <1>5, <3>1
  <2>2. CASE m = n
    BY <2>2
  <2>3. CASE n \in Climb(t)[m]
    <3>1. m \in 0..(j - 1)
      BY <1>1, Paths
    <3>2. m \in 1..Len(t)
      BY <1>1, <1>2, <1>5, <3>1
    <3>3. Climb(t)[m] \subseteq 0..(m - 1)
      BY <3>2, Paths
    <3>4. m > n
      BY <2>3, <3>2, <3>3
    <3> QED BY <1>1, <3>4
  <2> QED BY <1>4, <2>1, <2>2, <2>3
<1>6. t[j].parent # p
  <2> SUFFICES ASSUME t[j].parent = p
               PROVE  FALSE
    OBVIOUS
  <2>1. Climb(t)[j] = {p} \cup Climb(t)[p]
    BY <1>1, ShapedIsRooted, Climbing
  <2>2. n = p \/ n < p
    BY <1>1, <1>3, <2>1
  <2> QED BY <1>2, <2>2
<1> QED BY <1>1, <1>4, <1>5, <1>6 DEF Jumped

(* A block that a jump has ended is the last of its list.                  *)
LEMMA HaltsOn ==
  ASSUME NEW t, NEW f, Shaped(t), Nested(t, f), NEW n, n = Top(f).node, t[n].kind = "block",
         NEW ss, Halted(t, f, ss), NEW g, g = Pop(f), NEW ss2
  PROVE  Halted(t, g, ss2)
<1> DEFINE slot == Top(f).slot  p == t[n].parent  r == t[n].slot
<1>1. Inner(t, f, n, slot)
  BY InnerIs
<1>2. n \in 1..Len(t) /\ slot = 1
  <2>1. n \in 1..Len(t) /\ Fits(t, n, slot)
    BY <1>1 DEF Inner
  <2> HIDE DEF slot
  <2> QED BY <2>1 DEF Fits
<1>3. Top(g).node = p /\ Top(g).slot = r
  BY LeftIs
<1>4. KidsIn(t, n, 1) # {} /\ CompletesIn(t)[LastIn(t, n, 1)] = FALSE /\ \E j : Jumped(t, n, ss, j)
  BY <1>2 DEF Halted
<1> HIDE DEF slot, p, r
<1>5. p \in 0..(n - 1) /\ Len(t) \in Nat
  BY <1>2, ShapedIsRooted DEF Shaped, p
<1>6. n \in KidsIn(t, p, r)
  BY <1>2 DEF KidsIn, p, r
<1>7. LastIn(t, p, r) = n
  <2> DEFINE k == LastIn(t, p, r)
  <2>1. k \in KidsIn(t, p, r) /\ n <= k
    BY <1>6, LastIs
  <2>2. k \in 1..Len(t) /\ t[k].parent = p
    BY <2>1 DEF KidsIn
  <2> HIDE DEF k
  <2>3. SUFFICES ASSUME k # n PROVE FALSE
    BY DEF k
  <2>4. k \in (n + 1)..Len(t)
    BY <1>2, <1>5, <2>1, <2>2, <2>3
  <2>5. n \in Climb(t)[k]
    <3>1. Openings(t, Opened(f), n, slot)
      BY Frames DEF slot
    <3>2. <<n, slot>> \in Opened(f) /\ \A o \in Opened(f) : \A m \in (o[1] + 1)..Len(t) : o[1] \in Climb(t)[m]
      BY <3>1 DEF Openings
    <3>3. \A m \in (<<n, slot>>[1] + 1)..Len(t) : <<n, slot>>[1] \in Climb(t)[m]
      BY <3>2
    <3> QED BY <2>4, <3>3
  <2>6. Climb(t)[k] = {p} \cup Climb(t)[p] /\ Climb(t)[0] = {}
    BY <2>2, ShapedIsRooted, Climbing
  <2>7. p # 0 => p \in 1..Len(t)
    BY <1>2, <1>5
  <2>8. p # 0 => Climb(t)[p] \subseteq 0..(p - 1)
    BY <2>7, Paths
  <2>9. n \in Climb(t)[p]
    BY <1>2, <1>5, <2>5, <2>6
  <2> QED BY <1>2, <1>5, <2>6, <2>8, <2>9
<1>8. CompletesIn(t)[n] = FALSE
  <2>1. ~CompletesIn(t)[n]
    BY <1>2, <1>4, JumpsEnd
  <2>2. CompletesIn(t)[n] \in BOOLEAN
    BY <1>2, CompletesIs, CompletesBoolean
  <2> QED BY <2>1, <2>2
<1>9. PICK j : Jumped(t, n, ss, j)
  BY <1>4
<1>10. Jumped(t, p, ss2, j)
  BY <1>2, <1>9, JumpedOn DEF p
<1> QED BY <1>3, <1>6, <1>7, <1>8, <1>10 DEF Halted

(* A block that was ended stays ended.                                     *)
LEMMA StageWidens ==
  ASSUME NEW c, NEW W, NEW V, NEW e, Stage(c, W, V, e), NEW y \in DOMAIN e, Ended1(e[y])
  PROVE  Stage(c, W \cup {y}, V, e)
BY DEF Stage

LEMMA CloseBlockGoes ==
  ASSUME Struct, Going, CloseBlock
  PROVE  Explained(tree') \/ (Going' /\ phase' = "compiling")
<1> DEFINE n == Top(frames).node  slot == Top(frames).slot  r == Deinitialize(Top(scopes))
<1>1. /\ tree[n].kind = "block" /\ Close /\ code' = code ++ In(at, r) /\ at' = at
      /\ pads' = pads /\ scopes' = Pop(scopes) /\ phase' = "compiling"
  BY DEF CloseBlock, Doing, Parent
<1>2. /\ Shaped(tree) /\ Nested(tree, frames) /\ Steady(tree, frames, pads, scopes, code, at)
      /\ tree' = tree /\ frames' = Pop(frames)
  BY <1>1 DEF Struct, Going, Close
<1>3. Closable(n, slot) /\ Inner(tree, frames, n, slot)
  BY <1>2, CanClose, InnerIs
<1>4. HasScopes(tree, frames, scopes) /\ Scoped(tree, n) /\ Reserved(tree, n, slot) = {} /\ n \in 1..Len(tree)
  BY <1>1, <1>2, <1>3 DEF Steady, Scoped, Reserved, Inner
<1>5. Top(scopes).vals = Declared(tree, n)
  BY <1>2, <1>4, TopScope
<1>6. Stage(code, {}, {}, code) /\ at \in DOMAIN code /\ Was(code, at) = code[at] /\ (Straight(code[at]) \/ Ended1(code[at]))
  BY <1>3 DEF Closable
<1>7. Straight(r)
  BY Simple
<1>8. Leaves(frames, frames', n, slot) /\ HasScopes(tree, frames', scopes')
  <2>1. Leaves(frames, frames', n, slot)
    BY <1>1, <1>2, LeftIs
  <2>2. HasScopes(tree, frames', Pop(scopes))
    BY <1>2, <1>4, <2>1, ScopeCloses
  <2> QED BY <1>1, <2>1, <2>2
<1>9. ASSUME NEW V, Stage(code, {at}, V, code'), V \subseteq {at}, at \in DOMAIN code',
             Terminated(code', at) => Halted(tree, frames', scopes')
      PROVE  Steady(tree, frames', pads, scopes', code', at)
  <2>1. \A y \in {at} \cup {at} : y = at \/ (y[1] = n /\ y[2] # "pad")
    OBVIOUS
  <2>2. \A y \in Reserved(tree, n, slot) : y \in {at} \/ y = at
    BY <1>4
  <2>3. tree[n].kind # "function" /\ (tree[n].kind = "try" => slot # 1) /\ at \in {at}
    BY <1>1
  <2> QED BY <1>2, <1>8, <1>9, <2>1, <2>2, <2>3, CloseSteady
<1> HIDE DEF n, slot, r
<1>10. CASE Terminated(code, at)
  <2>1. Halted(tree, frames, scopes)
    BY <1>2, <1>10 DEF Steady
  <2>2. PICK j : Jumped(tree, n, scopes, j)
    BY <2>1 DEF Halted, n
  <2>3. r = <<>> \/ Explained(tree)
    BY <1>1, <1>2, <1>4, <1>5, <2>2, JumpedOut DEF r
  <2>4. SUFFICES ASSUME r = <<>> PROVE Going' /\ phase' = "compiling"
    BY <1>2, <2>3
  <2>5. Halted(tree, frames', scopes')
    BY <1>1, <1>2, <2>1, HaltsOn DEF n
  <2>6. Ended1(code[at])
    BY <1>6, <1>10, Terminators
  <2>7. Stage(code, {}, {}, code') /\ at \in DOMAIN code' /\ code'[at] = code[at]
    BY <1>1, <1>6, <2>4, StageSame
  <2>8. Stage(code, {} \cup {at}, {}, code')
    BY <2>6, <2>7, StageWidens
  <2>9. {} \cup {at} = {at}
    OBVIOUS
  <2>10. Steady(tree, frames', pads, scopes', code', at)
    BY <1>9, <2>5, <2>7, <2>8, <2>9
  <2> QED BY <1>1, <1>2, <2>10 DEF Going
<1>11. CASE ~Terminated(code, at)
  <2>1. Straight(Was(code, at))
    BY <1>6, <1>11, Terminators
  <2>2. Stage(code, {} \cup {at}, {} \cup {at}, code')
    BY <1>1, <1>6, <1>7, <2>1, StageExtends
  <2>3. {} \cup {at} = {at}
    OBVIOUS
  <2>4. at \in DOMAIN code' /\ Straight(code'[at])
    BY <2>2 DEF Stage
  <2>5. ~Terminated(code', at)
    BY <2>4, Terminators
  <2>6. Steady(tree, frames', pads, scopes', code', at)
    BY <1>9, <2>2, <2>3, <2>4, <2>5
  <2> QED BY <1>1, <1>2, <2>6 DEF Going
<1> QED BY <1>10, <1>11

(* The catch clause is built in the landing pad that is taken.             *)
LEMMA CatchGoes ==
  ASSUME Struct, Going, Catch
  PROVE  Going' /\ phase' = "compiling"
<1> DEFINE t == tree  f == frames  g == frames'  n == Top(f).node  slot == Top(f).slot  y == Blk(n, "after")
           p0 == Top(pads)  qs == Pop(pads)  b == at  c == code
           e == BrUnlessTerminated(c, b, y)
           c2 == e ++ In(y, <<>>)
<1>1. /\ t[n].kind = "try" /\ slot = 1 /\ "catch" \in t[n].opts /\ code' = c2 /\ at' = p0 /\ pads' = qs
      /\ tree' = t /\ g = Append(Pop(f), Frame(n, 2)) /\ scopes' = scopes /\ phase' = "compiling"
  BY DEF Catch, Doing, NextSlot, Parent
<1>2. Shaped(t) /\ Nested(t, f) /\ n = Top(f).node /\ slot = Top(f).slot /\ Steady(t, f, pads, scopes, c, b)
  BY DEF Struct, Going
<1>3. Closable(n, slot)
  BY CanClose
<1>4. Laid(t, f, c, b) /\ PadsMatch(t, f, pads, c, b) /\ Flowing(t, f, pads, c, b) /\ HasScopes(t, f, scopes)
  BY <1>2 DEF Steady
<1>5. \A s : Reserved(t, n, s) = {y}
  BY <1>1 DEF Reserved
<1>6. Ahead(t, n) = {} /\ y[1] = n /\ y[2] # "pad"
  BY <1>1 DEF Ahead, Blk
<1>7. y = Blk(n, "after")
  OBVIOUS
<1> HIDE DEF t, f, g, n, slot, y, p0, qs, b, c, e, c2
<1>8. Inner(t, f, n, slot)
  BY <1>2, InnerIs
<1>9. n # 1 /\ n \in 1..Len(t) /\ Grows(t, t) /\ <<n, slot>> \in Opened(f)
  BY <1>1, <1>8 DEF Inner
<1>10. Fits(t, n, 2) /\ 2 \in Nat /\ Top(f).slot <= 2
  BY <1>1, <1>2 DEF Fits
<1>11. Nested(t, g) /\ GoesOn(f, g, n, slot, 2) /\ Top(g) = Frame(n, 2)
  BY <1>1, <1>2, <1>9, <1>10, Moved DEF GoesOn
<1>12. Shifted(t, f, g, n, slot, 2)
  BY <1>2, <1>11, MovedSets
<1>13. y # b /\ Was(c, y) = <<>>
  BY <1>3, <1>5 DEF Closable, b, c, t
<1>14. Stage(c, {b}, {y}, c2)
  <2>1. Stage(c, {b}, {}, e)
    BY <1>3, FallsTo DEF e, b, c
  <2>2. y \notin {b}
    BY <1>13
  <2>3. Stage(c, {b}, {} \cup {y}, c2)
    BY <1>13, <2>1, <2>2, NextAdds DEF c2
  <2> QED BY <2>3
<1>15. /\ DOMAIN c \subseteq DOMAIN c2 /\ y \in DOMAIN c2
       /\ \A x : x # b => Was(c2, x) = Was(c, x)
       /\ \A x \in DOMAIN c2 : x \in DOMAIN c \/ x = b \/ x = y
  BY <1>14 DEF Stage
<1>16. Expected(t, g) = Expected(t, f)
  <2>1. \A x : x \in Expected(t, f) <=> \E o \in Opened(f) : x \in Reserved(t, o[1], o[2])
    BY Readings
  <2>2. \A x : x \in Expected(t, g) <=> \E o \in Opened(g) : x \in Reserved(t, o[1], o[2])
    BY Readings
  <2>3. <<n, slot>>[1] = n /\ <<n, 2>>[1] = n /\ <<n, 2>> \in Opened(g)
    BY <1>12 DEF Shifted
  <2>4. \A o : o[1] = n => Reserved(t, o[1], o[2]) = {y}
    BY <1>5
  <2>5. \A o \in Opened(g) : o \in Opened(f) \/ o = <<n, 2>>
    BY <1>11 DEF GoesOn
  <2>6. \A o \in Opened(f) : o \in Opened(g) \/ o = <<n, slot>>
    BY <1>11 DEF GoesOn
  <2>7. \A x : x \in Expected(t, f) => x \in Expected(t, g)
    BY <2>1, <2>2, <2>3, <2>4, <2>6
  <2>8. \A x : x \in Expected(t, g) => x \in Expected(t, f)
    BY <1>9, <2>1, <2>2, <2>3, <2>4, <2>5
  <2> QED BY <2>7, <2>8
<1>17. y \in Expected(t, f)
  <2>1. y \in Reserved(t, <<n, slot>>[1], <<n, slot>>[2])
    BY <1>5
  <2> QED BY <1>9, <2>1 DEF Expected
<1>18. n \in OpenTries(t, f) /\ OpenTries(t, f) \subseteq 1..n /\ OpenTries(t, g) = OpenTries(t, f) \ {n}
  <2>1. \A k : k \in OpenTries(t, f) <=> \E o \in Opened(f) : k = o[1] /\ t[o[1]].kind = "try" /\ o[2] = 1
    BY Readings
  <2>2. <<n, slot>>[1] = n /\ <<n, slot>>[2] = 1
    BY <1>1
  <2>3. n \in OpenTries(t, f)
    BY <1>1, <1>9, <2>1, <2>2
  <2>4. OpenTries(t, f) \subseteq 1..n
    <3>1. \A o \in Opened(f) : o[1] \in 1..Len(t) /\ o[1] <= n
      BY <1>2, Frames DEF Openings
    <3> QED BY <1>9, <2>1, <3>1
  <2>5. OpenTries(t, g) = OpenTries(t, f) \ {n}
    BY <1>1, <1>12 DEF Shifted
  <2> QED BY <2>3, <2>4, <2>5
<1>19. PadsMatch(t, g, qs, c2, p0) /\ p0 \in DOMAIN c /\ p0[2] = "pad"
  <2>1. DOMAIN c \subseteq DOMAIN c2 /\ \A x : x # b /\ x[2] = "pad" => Was(c2, x) = Was(c, x)
    BY <1>15
  <2>2. PadsMatch(t, g, Pop(pads), c2, Top(pads)) /\ Top(pads) \in DOMAIN c /\ Top(pads)[2] = "pad"
    BY <1>1, <1>2, <1>4, <1>9, <1>18, <2>1, PadsTaken
  <2> QED BY <2>2 DEF p0, qs
<1>20. /\ Elements(pads) = Elements(qs) \cup {p0} /\ p0 \in Elements(pads) /\ p0 # b /\ Was(c, p0) = <<>>
  <2>1. pads \in Seq(NamesOf(t)) /\ Sorted(pads) /\ Blk(n, "pad") \in Elements(pads)
    BY <1>4, <1>18 DEF PadsMatch
  <2>2. pads # <<>>
    BY <2>1 DEF Elements
  <2>3. p0 \in Elements(pads) /\ Elements(pads) = Elements(qs) \cup {p0}
    BY <2>1, <2>2, SortedPop DEF p0, qs
  <2> QED BY <1>4, <2>3 DEF PadsMatch
<1>21. Laid(t, g, c2, p0)
  <2>1. p0 \in DOMAIN c2
    BY <1>15, <1>19
  <2>2. \A x \in DOMAIN c2 : x[1] \in 1..Len(t)
    BY <1>4, <1>6, <1>9, <1>15 DEF Laid
  <2>3. Built(t, g, c2)
    <3>1. \A o \in Opened(f) : Ahead(t, o[1]) \subseteq DOMAIN c /\ AfterTry(t, o, c)
      BY <1>4 DEF Laid, Built
    <3>2. \A o \in Opened(f) : Ahead(t, o[1]) \subseteq DOMAIN c2 /\ AfterTry(t, o, c2)
      BY <1>15, <3>1 DEF AfterTry
    <3>3. <<n, 2>>[1] = n
      OBVIOUS
    <3>4. AfterTry(t, <<n, 2>>, c2)
      BY <1>7, <1>15, <3>3 DEF AfterTry
    <3>5. \A o \in Opened(g) : o \in Opened(f) \/ o = <<n, 2>>
      BY <1>11 DEF GoesOn
    <3> QED BY <1>6, <3>2, <3>3, <3>4, <3>5 DEF Built
  <2>4. \A x \in Expected(t, g) : x # p0 /\ Was(c2, x) = <<>>
    <3>1. \A x \in Expected(t, f) : x[2] # "pad"
      BY ExpectedOwn
    <3>2. \A x \in Expected(t, f) : x # b /\ Was(c, x) = <<>>
      BY <1>4 DEF Laid
    <3> QED BY <1>15, <1>16, <1>19, <3>1, <3>2
  <2> QED BY <2>1, <2>2, <2>3, <2>4 DEF Laid
<1>22. Flowing(t, g, qs, c2, p0)
  <2>1. {y} \subseteq Pending(t, g, qs, p0)
    BY <1>16, <1>17 DEF Pending
  <2>2. \A x \in Pending(t, f, pads, b) : x \in {b} \/ x \in Pending(t, g, qs, p0)
    BY <1>16, <1>20 DEF Pending
  <2> QED BY <1>4, <1>14, <2>1, <2>2, FlowsOn
<1>23. HasScopes(t, g, scopes)
  <2>1. ScopedIn(t, g) = ScopedIn(t, f) /\ \A o \in Opened(f) : t[o[1]] = t[o[1]]
    BY <1>12 DEF Shifted
  <2> QED BY <1>4, <1>9, <2>1, ScopesStay
<1>24. ~Terminated(c2, p0)
  <2>1. c2[p0] = <<>>
    BY <1>15, <1>19, <1>20 DEF Was
  <2> QED BY <2>1 DEF Terminated
<1>25. Steady(t, g, qs, scopes, c2, p0)
  BY <1>19, <1>21, <1>22, <1>23, <1>24 DEF Steady
<1> QED BY <1>1, <1>25 DEF Going, t, g

(* Nothing is left open at the end but the function itself.                *)
LEMMA OnlyThisPends ==
  ASSUME NEW t, NEW f, Shaped(t), Nested(t, f), t[Top(f).node].kind = "function", CaughtIn(t),
         NEW ps, NEW c, NEW b, PadsMatch(t, f, ps, c, b)
  PROVE  Pending(t, f, ps, b) = {b}
<1>1. Opened(f) = {<<1, Top(f).slot>>} /\ t[1].kind = "function"
  BY OnlyFunction
<1>2. Expected(t, f) = {}
  <2>1. \A o \in Opened(f) : o[1] = 1 /\ t[o[1]].kind = "function"
    BY <1>1
  <2>2. \A o \in Opened(f) : Reserved(t, o[1], o[2]) = {}
    BY <2>1 DEF Reserved
  <2> QED BY <2>2 DEF Expected
<1>3. Elements(ps) = {}
  <2>1. \A k : k \in OpenTries(t, f) <=> \E o \in Opened(f) : k = o[1] /\ t[o[1]].kind = "try" /\ o[2] = 1
    BY Readings
  <2>2. \A k : k \notin OpenTries(t, f)
    BY <1>1, <2>1
  <2>3. \A p \in Elements(ps) : p[1] \in OpenTries(t, f)
    BY DEF PadsMatch
  <2> QED BY <2>2, <2>3
<1> QED BY <1>2, <1>3 DEF Pending

LEMMA CloseFunctionGoes ==
  ASSUME Struct, Going, CloseFunction
  PROVE  Explained(tree') \/ phase' = "accepted" \/ (phase' = "rejected" /\ MissingIn(tree', code'))
<1> DEFINE n == Top(frames).node  slot == Top(frames).slot  q == Deinitialize(Top(scopes))
           r == q \o (IF Terminated(code, at) THEN <<>> ELSE <<Ret>>)
           done == code ++ In(at, r)
<1>1. /\ tree[n].kind = "function" /\ tree' = tree /\ phase' = IF WellFormed(done) THEN "accepted" ELSE "rejected"
      /\ code' = done
  BY DEF CloseFunction, Doing, Parent
<1>2. SUFFICES ASSUME ~Explained(tree) PROVE EndsOnce(done)
  <2> HIDE DEF done
  <2>1. Defined(done) <=> DefinedIn(tree, done)
    BY MissingIs
  <2> QED BY <1>1, <2>1 DEF WellFormed, MissingIn
<1>3. /\ Shaped(tree) /\ Nested(tree, frames) /\ Steady(tree, frames, pads, scopes, code, at)
  BY DEF Struct, Going
<1>4. Closable(n, slot) /\ CaughtIn(tree)
  BY <1>2, CanClose DEF Explained
<1>5. HasScopes(tree, frames, scopes) /\ Scoped(tree, n) /\ n \in 1..Len(tree)
      /\ PadsMatch(tree, frames, pads, code, at) /\ Flowing(tree, frames, pads, code, at)
  BY <1>1, <1>3, <1>4 DEF Steady, Scoped, Closable
<1>6. Top(scopes).vals = Declared(tree, n)
  BY <1>3, <1>5, TopScope
<1>7. Stage(code, {}, {}, code) /\ at \in DOMAIN code /\ Was(code, at) = code[at] /\ (Straight(code[at]) \/ Ended1(code[at]))
  BY <1>4 DEF Closable
<1>8. Pending(tree, frames, pads, at) = {at}
  BY <1>1, <1>3, <1>4, <1>5, OnlyThisPends
<1>9. \A x \in DOMAIN code : x # at => Ended1(code[x])
  BY <1>5, <1>8 DEF Flowing
<1>10. Straight(q) /\ Ended1(<<Ret>>)
  BY Simple, StraightOne
<1> HIDE DEF n, slot, q, r, done
<1>11. \A x \in DOMAIN done : Ended1(done[x])
  <2>1. CASE Terminated(code, at)
    <3>1. Halted(tree, frames, scopes)
      BY <1>3, <2>1 DEF Steady
    <3>2. PICK j : Jumped(tree, n, scopes, j)
      BY <3>1 DEF Halted, n
    <3>3. q = <<>>
      BY <1>1, <1>2, <1>3, <1>5, <1>6, <3>2, JumpedOut DEF q
    <3>4. r = <<>>
      <4>1. r = q \o <<>>
        BY <2>1 DEF r
      <4> QED BY <3>3, <4>1
    <3>5. Stage(code, {}, {}, done) /\ done[at] = code[at]
      BY <1>7, <3>4, StageSame DEF done
    <3>6. Ended1(code[at])
      BY <1>7, <2>1, Terminators
    <3>7. \A x \in DOMAIN done : x \in DOMAIN code /\ Was(done, x) = Was(code, x)
      BY <3>5 DEF Stage
    <3> QED BY <1>9, <3>5, <3>6, <3>7 DEF Was
  <2>2. CASE ~Terminated(code, at)
    <3>1. Straight(Was(code, at))
      BY <1>7, <2>2, Terminators
    <3>2. Ended1(r)
      <4>1. r = q \o <<Ret>>
        BY <2>2 DEF r
      <4>2. Ended1(q \o <<Ret>>)
        BY <1>10, StraightBoth
      <4> QED BY <4>1, <4>2
    <3>3. Stage(code, {} \cup {at}, {} \ {at}, done)
      BY <1>7, <3>1, <3>2, StageEnds DEF done
    <3>4. Ended1(done[at]) /\ \A x \in DOMAIN done : (x \in DOMAIN code \/ x = at) /\ (x # at => Was(done, x) = Was(code, x))
      BY <3>3 DEF Stage
    <3> QED BY <1>9, <3>4 DEF Was
  <2> QED BY <2>1, <2>2
<1>12. \A x \in DOMAIN done : Terminated(done, x)
  BY <1>11, Terminators
<1>13. \A x \in DOMAIN done : \A i \in 1..(Len(done[x]) - 1) : ~IsTerminator(done[x][i])
  BY <1>11 DEF Ended1
<1> QED BY <1>12, <1>13 DEF EndsOnce

-----------------------------------------------------------------------------
(* Every step *)

(* After a step the compiler goes on, it has a reason not to, or it has    *)
(* accepted the program, or blocks that all end but miss a value.          *)
Reasoned ==
  \/ Explained(tree') \/ (Going' /\ phase' = "compiling")
  \/ phase' = "accepted" \/ (phase' = "rejected" /\ MissingIn(tree', code'))

LEMMA StatementReasoned ==
  ASSUME NEW s \in Shapes, family \in DOMAIN Families, Struct, Going, Statement(s)
  PROVE  Reasoned
<1>1. CASE Expression(s) \/ Closure(s) \/ Logic(s)
  BY <1>1, ExpressionGoes DEF Reasoned
<1>2. CASE Ternary(s)
  BY <1>2, TernaryGoes DEF Reasoned
<1>3. CASE Invoke(s)
  BY <1>3, InvokeGoes DEF Reasoned
<1>4. CASE Break(s)
  BY <1>4, BreakGoes1 DEF Reasoned
<1>5. CASE Continue(s)
  BY <1>5, ContinueGoes1 DEF Reasoned
<1>6. CASE Return(s)
  BY <1>6, ReturnGoes DEF Reasoned
<1>7. CASE Throw(s)
  BY <1>7, ThrowGoes DEF Reasoned
<1>8. CASE OpenBlock(s)
  BY <1>8, OpenBlockGoes DEF Reasoned
<1>9. CASE OpenIf(s)
  BY <1>9, OpenIfGoes DEF Reasoned
<1>10. CASE OpenWhile(s)
  BY <1>10, OpenWhileGoes DEF Reasoned
<1>11. CASE OpenDo(s)
  BY <1>11, OpenDoGoes DEF Reasoned
<1>12. CASE OpenFor(s)
  BY <1>12, OpenForGoes DEF Reasoned
<1>13. CASE OpenForOf(s) \/ OpenForIn(s)
  BY <1>13, OpenForOfGoes DEF Reasoned
<1>14. CASE OpenSwitch(s)
  BY <1>14, OpenSwitchGoes DEF Reasoned
<1>15. CASE OpenTry(s)
  BY <1>15, OpenTryGoes DEF Reasoned
<1> QED BY <1>1, <1>2, <1>3, <1>4, <1>5, <1>6, <1>7, <1>8, <1>9, <1>10, <1>11, <1>12, <1>13, <1>14, <1>15 DEF Statement

LEMMA ClosingReasoned ==
  ASSUME Struct, Going, Closing
  PROVE  Reasoned
<1>1. CASE CloseBlock
  BY <1>1, CloseBlockGoes DEF Reasoned
<1>2. CASE Else
  BY <1>2, ElseGoes DEF Reasoned
<1>3. CASE CloseIf
  BY <1>3, CloseIfGoes DEF Reasoned
<1>4. CASE CloseWhile
  BY <1>4, CloseWhileGoes DEF Reasoned
<1>5. CASE CloseDo
  BY <1>5, CloseDoGoes DEF Reasoned
<1>6. CASE CloseFor
  BY <1>6, CloseForGoes DEF Reasoned
<1>7. CASE CloseForOf \/ CloseForIn
  BY <1>7, CloseForOfGoes DEF Reasoned
<1>8. CASE NextClause
  BY <1>8, NextClauseGoes DEF Reasoned
<1>9. CASE CloseSwitch
  BY <1>9, CloseSwitchGoes DEF Reasoned
<1>10. CASE Catch
  BY <1>10, CatchGoes DEF Reasoned
<1>11. CASE CloseTry
  BY <1>11, CloseTryGoes DEF Reasoned
<1>12. CASE CloseTryWithoutCatch
  BY <1>12, WithoutCatchExplains DEF Reasoned
<1>13. CASE CloseFunction
  BY <1>13, CloseFunctionGoes DEF Reasoned
<1> QED BY <1>1, <1>2, <1>3, <1>4, <1>5, <1>6, <1>7, <1>8, <1>9, <1>10, <1>11, <1>12, <1>13 DEF Closing

(* What explains a rejection is in the program for good.                   *)
LEMMA ExplainedStays ==
  ASSUME family \in DOMAIN Families, Struct, Explained(tree), Next
  PROVE  Explained(tree')
<1>1. ASSUME NEW s \in Shapes, Statement(s)
      PROVE  Explained(tree')
  <2>1. CanAdd(s) /\ tree' = Append(tree, Node(s))
    BY <1>1 DEF Statement, Expression, Closure, Logic, Ternary, Invoke, Break, Continue, Return, Throw, OpenBlock,
                OpenIf, OpenWhile, OpenDo, OpenFor, OpenForOf, OpenForIn, OpenSwitch, OpenTry, Leaf, Open
  <2>2. Stands(tree, frames, Node(s), tree')
    BY <2>1, CanStand
  <2>3. Grows(tree, tree')
    BY <2>2, StandsNew
  <2> QED BY <2>3, StaysExplained, SMTT(60)
<1>2. ASSUME Closing
      PROVE  Explained(tree')
  <2>1. tree' = tree
    BY <1>2 DEF Closing, CloseBlock, Else, CloseIf, CloseWhile, CloseDo, CloseFor, CloseForOf, CloseForIn, NextClause,
                CloseSwitch, Catch, CloseTry, CloseTryWithoutCatch, CloseFunction, Close, NextSlot
  <2> QED BY <2>1, SMTT(60)
<1> QED BY <1>1, <1>2 DEF Next

(* The compiler goes on, or the program explains why it need not.          *)
ReasonInv ==
  /\ phase = "compiling" => Explained(tree) \/ Going
  /\ phase = "rejected" => Explained(tree) \/ MissingIn(tree, code)

LEMMA CompileReasons ==
  ASSUME HeldInv, ReasonInv, Compile
  PROVE  ReasonInv'
<1>1. Next /\ family \in DOMAIN Families /\ (phase = "compiling" => CompilingInv)
  BY DEF Compile, HeldInv
<1>2. phase = "compiling" /\ CompilingInv
  BY <1>1, CompilerStep
<1>3. Struct
  BY <1>2 DEF CompilingInv
<1>4. CASE Explained(tree)
  <2>1. Explained(tree')
    BY <1>1, <1>3, <1>4, ExplainedStays
  <2> QED BY <2>1 DEF ReasonInv
<1>5. CASE Going
  <2>1. Reasoned
    <3>1. CASE \E s \in Shapes : Statement(s)
      BY <1>1, <1>3, <1>5, <3>1, StatementReasoned
    <3>2. CASE Closing
      BY <1>3, <1>5, <3>2, ClosingReasoned
    <3> QED BY <1>1, <3>1, <3>2 DEF Next
  <2> QED BY <2>1 DEF Reasoned, ReasonInv
<1> QED BY <1>2, <1>4, <1>5 DEF ReasonInv

(* A run changes nothing the compiler has made.                            *)
LEMMA NothingReasons ==
  ASSUME ReasonInv, UNCHANGED vars
  PROVE  ReasonInv'
<1>1. /\ tree' = tree /\ frames' = frames /\ code' = code /\ at' = at /\ pads' = pads /\ scopes' = scopes
      /\ phase' = phase
  BY DEF vars
<1>2. Going' <=> Going
  BY <1>1 DEF Going
<1> QED BY <1>1, <1>2 DEF ReasonInv

LEMMA ReasonBegins ==
  ASSUME RunInit
  PROVE  ReasonInv
<1>1. Init
  BY DEF RunInit
<1>2. family \in DOMAIN Families /\ phase = "compiling"
  BY <1>1 DEF Init
<1>3. PICK s \in Shapes :
        /\ s.kind = "function"
        /\ tree = <<[kind |-> "function", decl |-> s.decl, opts |-> s.opts, clauses |-> <<>>, parent |-> 0, slot |-> 1]>>
        /\ frames = <<Frame(1, 1)>> /\ code = In(Blk(1, "entry"), AcquireAll(Hoisted(1, s)))
        /\ at = Blk(1, "entry") /\ latches = <<>> /\ exiting = <<>> /\ bodyExit = <<>> /\ pads = <<>>
        /\ scopes = <<Scope(Hoisted(1, s))>>
  BY <1>1 DEF Init
<1>4. Struct /\ (MatchIn(tree) => Matches(tree, frames, exiting, latches, bodyExit, pads, scopes, code, at))
  BY <1>2, StartHeld DEF HeldInv, CompilingInv
<1>5. MatchIn(tree)
  <2>1. Len(tree) = 1 /\ tree[1].kind = "function"
    BY <1>3
  <2> QED BY <2>1 DEF MatchIn
<1>6. /\ PadsMatch(tree, frames, pads, code, at) /\ ScopesMatch(tree, frames, scopes, code, at)
      /\ CodeMatches(tree, frames, code, at)
  BY <1>4, <1>5 DEF Matches, Stacked
<1>7. HasScopes(tree, frames, scopes)
  BY <1>6, NothingIsGood DEF HasScopes, ScopesMatch
<1>8. DOMAIN code = {at} /\ Straight(code[at]) /\ at[1] = 1 /\ 1 \in 1..Len(tree)
  <2>1. DOMAIN code = {at} /\ code[at] = AcquireAll(Hoisted(1, s))
    BY <1>3, InIs
  <2>2. at[1] = 1 /\ Len(tree) = 1
    BY <1>3 DEF Blk
  <2> QED BY <2>1, <2>2, Simple
<1>9. Laid(tree, frames, code, at)
  BY <1>6, <1>8 DEF Laid, CodeMatches
<1>10. Flowing(tree, frames, pads, code, at)
  BY <1>8 DEF Flowing, Pending
<1>11. ~Terminated(code, at)
  BY <1>8, Terminators
<1>12. Steady(tree, frames, pads, scopes, code, at)
  BY <1>6, <1>7, <1>9, <1>10, <1>11 DEF Steady
<1> QED BY <1>2, <1>12 DEF ReasonInv, Going

(* The compiler turns down a program, itself or by the verifier of LLVM,   *)
(* only if it has a continue that is not the statement of an if, a try     *)
(* statement without a catch clause, something that throws in a catch      *)
(* clause with no try around it, or a jump out of a block that declares    *)
(* variables, or if a value is used that has not been made: every other    *)
(* program is compiled into blocks that each end exactly once.             *)
THEOREM RejectionsHaveReasons == RunSpec => []RejectionHasReason
<1>1. RunInit => ReasonInv
  BY ReasonBegins
<1>2. HeldInv /\ ReasonInv /\ [Compile \/ Execute]_allVars => ReasonInv'
  <2> SUFFICES ASSUME HeldInv, ReasonInv, [Compile \/ Execute]_allVars
               PROVE  ReasonInv'
    OBVIOUS
  <2>1. CASE Compile
    BY <2>1, CompileReasons
  <2>2. CASE Execute
    <3>1. UNCHANGED vars
      BY <2>2 DEF Execute, Enter, Evaluate, CallReturns, CallThrows, Take, Drop, Jump, Leave
    <3> QED BY <3>1, NothingReasons
  <2>3. CASE UNCHANGED allVars
    <3>1. UNCHANGED vars
      BY <2>3 DEF allVars
    <3> QED BY <3>1, NothingReasons
  <2> QED BY <2>1, <2>2, <2>3
<1>3. ReasonInv => RejectionHasReason
  BY ExplainedIs, MissingIs DEF ReasonInv, RejectionHasReason
<1> QED BY <1>1, <1>2, <1>3, BlocksHoldScopes, PTL DEF RunSpec
=============================================================================
