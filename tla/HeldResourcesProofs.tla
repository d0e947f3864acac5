-------------------------- MODULE HeldResourcesProofs --------------------------
(***************************************************************************)
(* Every function the compiler accepts holds what its scopes declare       *)
(* wherever they use it, and has released everything where it returns: a   *)
(* proof for every program and every run of it.  The handlers end, as in   *)
(* HandlersProofs they begin; the invariant of the compiler follows, and   *)
(* from that the one of the run.                                           *)
(***************************************************************************)
EXTENDS HandlersProofs

-----------------------------------------------------------------------------
(* The innermost handler ends, or goes on to another slot *)

Working(t, f, n, slot, ex, ls, bs, ps, ss, c, b) ==
  /\ Shaped(t) /\ Nested(t, f) /\ n = Top(f).node /\ slot = Top(f).slot
  /\ Matches(t, f, ex, ls, bs, ps, ss, c, b)

Inner(t, f, n, slot) ==
  /\ n \in 1..Len(t) /\ <<n, slot>> \in Opened(f) /\ Fits(t, n, slot) /\ t[n].kind \notin LeafKinds
  /\ \A kinds : OpenIn(t, f, kinds) \subseteq 1..Len(t) /\ \A m \in OpenIn(t, f, kinds) : m <= n
  /\ \A kinds : t[n].kind \in kinds => n \in OpenIn(t, f, kinds)
  /\ n # 1 <=> t[n].kind # "function"
  /\ Grows(t, t)

(* What is known of the innermost handler. *)
LEMMA InnerIs ==
  ASSUME NEW t, NEW f, NEW n, NEW slot, Shaped(t), Nested(t, f), n = Top(f).node, slot = Top(f).slot
  PROVE  Inner(t, f, n, slot)
<1>1. Openings(t, Opened(f), n, slot)
  BY Frames
<1>2. /\ <<n, slot>> \in Opened(f)
      /\ \A o \in Opened(f) : o[1] \in 1..Len(t) /\ o[1] <= n /\ t[o[1]].kind \notin LeafKinds /\ Fits(t, o[1], o[2])
  BY <1>1 DEF Openings
<1>3. <<n, slot>>[1] = n /\ <<n, slot>>[2] = slot
  OBVIOUS
<1>4. n \in 1..Len(t) /\ t[n].kind \notin LeafKinds /\ Fits(t, n, slot)
  BY <1>2, <1>3
<1>5. \A kinds : \A k : k \in OpenIn(t, f, kinds) <=> \E o \in Opened(f) : k = o[1] /\ t[o[1]].kind \in kinds
  BY Readings
<1>6. \A kinds : OpenIn(t, f, kinds) \subseteq 1..Len(t) /\ \A m \in OpenIn(t, f, kinds) : m <= n
  BY <1>2, <1>5
<1>7. \A kinds : t[n].kind \in kinds => n \in OpenIn(t, f, kinds)
  BY <1>2, <1>3, <1>5
<1>8. n # 1 <=> t[n].kind # "function"
  BY <1>4 DEF Shaped
<1>9. Grows(t, t)
  <2>1. Len(t) <= Len(t)
    BY ShapedIsRooted
  <2> QED BY <2>1 DEF Grows
<1> QED BY <1>2, <1>4, <1>6, <1>7, <1>8, <1>9 DEF Inner

(* Where the handler has been left.                                        *)
LEMMA LeftIs ==
  ASSUME NEW t, NEW f, NEW n, NEW slot, Shaped(t), Nested(t, f), n = Top(f).node, slot = Top(f).slot,
         t[n].kind # "function", NEW g, g = Pop(f)
  PROVE  /\ Nested(t, g) /\ Leaves(f, g, n, slot) /\ Fewer(t, f, g, n, slot)
         /\ Top(g).node = t[n].parent /\ Top(g).slot = t[n].slot
         /\ t[n].kind # "block" => Now(t, g) = ScopeIn(t, n)
         /\ \A c2, b2 : CatchBegins(t, g, c2, b2)
<1>1. Inner(t, f, n, slot)
  BY InnerIs
<1>2. n # 1 /\ n \in 1..Len(t)
  BY <1>1 DEF Inner
<1>3. Nested(t, g) /\ Leaves(f, g, n, slot) /\ Top(g).node = t[n].parent /\ Top(g).slot = t[n].slot
  BY <1>2, Exited DEF Leaves
<1>4. Fewer(t, f, g, n, slot)
  BY <1>3, FewerSets
<1>5. ASSUME t[n].kind # "block"
      PROVE  Now(t, g) = ScopeIn(t, n)
  <2>1. t[t[n].parent].kind # "try"
    BY <1>2, <1>5 DEF Shaped
  <2>2. Kept(t, Opened(g)) = ScopeIn(t, n)
    BY <1>4 DEF Fewer
  <2> QED BY <1>3, <2>1, <2>2 DEF Now
<1>6. \A c2, b2 : CatchBegins(t, g, c2, b2)
  BY <1>2, <1>3 DEF CatchBegins
<1> QED BY <1>3, <1>4, <1>5, <1>6

Popped(cond, s) == IF cond THEN Pop(s) ELSE s

(* The stacks where a handler has ended. *)
LEMMA CloseStacks ==
  ASSUME NEW t, NEW f, NEW n, NEW slot, NEW ex, NEW ls, NEW bs, NEW ps, NEW ss, NEW c, NEW b,
         Working(t, f, n, slot, ex, ls, bs, ps, ss, c, b), NEW g, g = Pop(f),
         t[n].kind # "function", t[n].kind = "try" => slot # 1,
         NEW c2, NEW b2, Touched(c, b, c2, b2, n)
  PROVE  Stacked(t, g, Popped(t[n].kind \in LoopKinds, ex), ls, Popped(t[n].kind = "for", bs), ps, c2, b2)
<1>1. Inner(t, f, n, slot) /\ Shaped(t)
  BY InnerIs DEF Working
<1>2. Fewer(t, f, g, n, slot)
  BY LeftIs DEF Working
<1>3. ExitsMatch(t, f, ex) /\ LatchesMatch(t, ls) /\ BodyExitsMatch(t, f, bs) /\ PadsMatch(t, f, ps, c, b)
  BY DEF Working, Matches, Stacked
<1>4. /\ Grows(t, t)
      /\ \A kinds : OpenIn(t, f, kinds) \subseteq 1..Len(t) /\ \A m \in OpenIn(t, f, kinds) : m <= n
      /\ \A kinds : t[n].kind \in kinds => n \in OpenIn(t, f, kinds)
  BY <1>1 DEF Inner
<1>5. \A kinds : OpenIn(t, g, kinds) = OpenIn(t, f, kinds) \ {n}
  BY <1>2 DEF Fewer
<1>6. \A kinds : t[n].kind \notin kinds => OpenIn(t, g, kinds) = OpenIn(t, f, kinds)
  <2> SUFFICES ASSUME NEW kinds, t[n].kind \notin kinds
               PROVE  OpenIn(t, g, kinds) = OpenIn(t, f, kinds)
    OBVIOUS
  <2>1. \A k : k \in OpenIn(t, f, kinds) <=> \E o \in Opened(f) : k = o[1] /\ t[o[1]].kind \in kinds
    BY Readings
  <2>2. n \notin OpenIn(t, f, kinds)
    BY <2>1
  <2> QED BY <1>5, <2>2
<1>7. ExitsMatch(t, g, Popped(t[n].kind \in LoopKinds, ex))
  <2>1. CASE t[n].kind \in LoopKinds
    <3>1. n \in OpenIn(t, f, Breakable)
      BY <1>4, <2>1 DEF Breakable
    <3>2. ExitsMatch(t, g, Pop(ex))
      BY <1>1, <1>3, <1>4, <1>5, <3>1, ExitsPop
    <3> QED BY <2>1, <3>2 DEF Popped
  <2>2. CASE t[n].kind = "switch"
    <3>1. n \in OpenIn(t, f, Breakable) /\ t[n].kind \notin LoopKinds
      BY <1>4, <2>2 DEF Breakable, LoopKinds
    <3>2. ExitsMatch(t, g, ex)
      BY <1>1, <1>3, <1>4, <1>5, <2>2, <3>1, ExitsLeft
    <3> QED BY <3>1, <3>2 DEF Popped
  <2>3. CASE t[n].kind \notin LoopKinds \cup {"switch"}
    <3>1. OpenIn(t, g, Breakable) = OpenIn(t, f, Breakable)
      BY <1>6, <2>3 DEF Breakable
    <3>2. ExitsMatch(t, g, ex)
      BY <1>3, <1>4, <3>1, ExitsKept
    <3> QED BY <2>3, <3>2 DEF Popped
  <2> QED BY <2>1, <2>2, <2>3
<1>8. BodyExitsMatch(t, g, Popped(t[n].kind = "for", bs))
  <2>1. CASE t[n].kind = "for"
    <3>1. n \in OpenIn(t, f, {"for"})
      BY <1>4, <2>1
    <3>2. BodyExitsMatch(t, g, Pop(bs))
      BY <1>1, <1>3, <1>4, <1>5, <3>1, BodyExitsPop
    <3> QED BY <2>1, <3>2 DEF Popped
  <2>2. CASE t[n].kind # "for"
    <3>1. OpenIn(t, g, {"for"}) = OpenIn(t, f, {"for"})
      BY <1>6, <2>2
    <3>2. BodyExitsMatch(t, g, bs)
      BY <1>3, <1>4, <3>1, BodyExitsKept
    <3> QED BY <2>2, <3>2 DEF Popped
  <2> QED BY <2>1, <2>2
<1>9. PadsMatch(t, g, ps, c2, b2)
  <2>1. OpenTries(t, g) = OpenTries(t, f) \ {n}
    BY <1>2 DEF Fewer
  <2>2. n \notin OpenTries(t, f)
    <3>1. SUFFICES ASSUME n \in OpenTries(t, f) PROVE FALSE
      OBVIOUS
    <3>2. PICK o \in Opened(f) : n = o[1] /\ t[o[1]].kind = "try" /\ o[2] = 1
      BY <3>1, Readings
    <3>3. o = <<n, slot>>
      BY <1>2, <3>2 DEF Fewer
    <3> QED BY <3>2, <3>3
  <2>3. OpenTries(t, g) = OpenTries(t, f)
    BY <2>1, <2>2
  <2> QED BY <1>3, <1>4, <2>3, PadsKept
<1> QED BY <1>3, <1>7, <1>8, <1>9 DEF Stacked

(* The code where a handler has ended. *)
LEMMA CloseCode ==
  ASSUME NEW t, NEW f, NEW n, NEW slot, NEW ex, NEW ls, NEW bs, NEW ps, NEW ss, NEW c, NEW b,
         Working(t, f, n, slot, ex, ls, bs, ps, ss, c, b), NEW g, g = Pop(f), t[n].kind # "function",
         NEW c2, NEW b2, Touched(c, b, c2, b2, n), Written(NamesOf(t), Typing(t), c2),
         Reserved(t, n, slot) \subseteq DOMAIN c2,
         CaughtIn(t) /\ WellBlocks(c2) => PlaceIsRight(t, g, c2, b2)
  PROVE  CodeMatches(t, g, c2, b2)
<1>1. Fewer(t, f, g, n, slot) /\ \A c3, b3 : CatchBegins(t, g, c3, b3)
  BY LeftIs DEF Working
<1>2. CodeMatches(t, f, c, b)
  BY DEF Working, Matches
<1>3. Expected(t, f) = Expected(t, g) \cup Reserved(t, n, slot) /\ \A o \in Opened(g) : o[1] < n
  BY <1>1 DEF Fewer
<1>4. \A x \in Expected(t, g) : x[1] # n
  <2> SUFFICES ASSUME NEW x \in Expected(t, g)
               PROVE  x[1] # n
    OBVIOUS
  <2>1. PICK o \in Opened(g) : x[1] = o[1]
    BY ExpectedOwn
  <2>2. o[1] < n /\ n \in Int /\ o[1] \in Int
    <3>1. o \in Opened(f) /\ o[1] \in 1..Len(t) /\ o[1] < n /\ <<n, slot>> \in Opened(f)
      BY <1>1 DEF Fewer
    <3>2. <<n, slot>>[1] \in 1..Len(t)
      BY <1>1, <3>1 DEF Fewer
    <3> QED BY <3>1, <3>2
  <2> QED BY <2>1, <2>2
<1>5. Settled(t, t, f, g, c2, b2, n, Expected(t, g), {})
  BY <1>3, <1>4 DEF Settled
<1>6. CatchBegins(t, g, c2, b2)
  BY <1>1
<1>7. Built(t, g, c2)
  <2>1. \A o \in Opened(g) : o \in Opened(f)
    BY <1>1 DEF Fewer
  <2> QED BY <1>2, <2>1, BuiltKept
<1> QED BY <1>2, <1>5, <1>6, <1>7, CodeFrame

(* A statement other than a block ends.                                    *)
LEMMA CloseStep ==
  ASSUME NEW t, NEW f, NEW n, NEW slot, NEW ex, NEW ls, NEW bs, NEW ps, NEW ss, NEW c, NEW b,
         Working(t, f, n, slot, ex, ls, bs, ps, ss, c, b), NEW g, g = Pop(f),
         t[n].kind \notin {"function", "block"}, t[n].kind = "try" => slot # 1,
         NEW c2, NEW b2, Touched(c, b, c2, b2, n), Written(NamesOf(t), Typing(t), c2),
         Reserved(t, n, slot) \subseteq DOMAIN c2, WellBlocks(c2) => WellBlocks(c),
         CaughtIn(t) /\ WellBlocks(c2) => PlaceIsRight(t, g, c2, b2)
  PROVE  Matches(t, g, Popped(t[n].kind \in LoopKinds, ex), ls, Popped(t[n].kind = "for", bs), ps,
                 Popped(Scoped(t, n), ss), c2, b2)
<1>1. Stacked(t, g, Popped(t[n].kind \in LoopKinds, ex), ls, Popped(t[n].kind = "for", bs), ps, c2, b2)
  BY CloseStacks
<1>2. CodeMatches(t, g, c2, b2)
  BY CloseCode
<1>3. ScopesMatch(t, f, ss, c, b) /\ Shaped(t) /\ Nested(t, f) /\ n = Top(f).node /\ slot = Top(f).slot
  BY DEF Working, Matches
<1>4. Leaves(f, g, n, slot) /\ Fewer(t, f, g, n, slot)
  BY <1>3, LeftIs
<1>5. Good(t, c2) => Good(t, c) /\ NoFlags(ss)
  <2> SUFFICES ASSUME Good(t, c2)
               PROVE  Good(t, c) /\ NoFlags(ss)
    OBVIOUS
  <2>1. Good(t, c)
    BY DEF Good
  <2>2. t[Top(f).node].kind \notin {"function", "block"}
    BY <1>3
  <2> QED BY <1>3, <2>1, <2>2, NoFlagsHere
<1>6. ScopesMatch(t, g, Popped(Scoped(t, n), ss), c2, b2)
  <2>1. CASE Scoped(t, n)
    <3>1. ScopesMatch(t, g, Pop(ss), c2, b2)
      BY <1>3, <1>4, <1>5, <2>1, ScopesPop
    <3> QED BY <2>1, <3>1 DEF Popped
  <2>2. CASE ~Scoped(t, n)
    <3>1. Grows(t, t) /\ \A o \in Opened(f) : t[o[1]] = t[o[1]]
      BY <1>3, InnerIs DEF Inner
    <3>2. ScopedIn(t, g) = ScopedIn(t, f)
      <4>1. n \notin ScopedIn(t, f)
        BY <2>2, Readings
      <4> QED BY <1>4, <4>1 DEF Fewer
    <3>3. ScopesMatch(t, g, ss, c2, b2)
      BY <1>3, <1>5, <3>1, <3>2, ScopesKept
    <3> QED BY <2>2, <3>3 DEF Popped
  <2> QED BY <2>1, <2>2
<1> QED BY <1>1, <1>2, <1>6 DEF Matches

(* What is held where the compiler stands, if it has not left.             *)
LEMMA HeldNow ==
  ASSUME NEW t, NEW f, NEW n, NEW slot, NEW ex, NEW ls, NEW bs, NEW ps, NEW ss, NEW c, NEW b,
         Working(t, f, n, slot, ex, ls, bs, ps, ss, c, b)
  PROVE  /\ Written(NamesOf(t), Typing(t), c) /\ b \in DOMAIN c /\ b \in NamesOf(t)
         /\ CaughtIn(t) /\ WellBlocks(c) /\ ~Terminated(c, b) =>
              Now(t, f) \subseteq Held(t, c, b) /\ (TidyIn(t) => Held(t, c, b) \subseteq Now(t, f))
         /\ ~(t[n].kind = "try" /\ slot = 2) => Now(t, f) = ScopeIn(t, n) \cup Keeps(t, n, slot)
<1>1. CodeMatches(t, f, c, b) /\ Shaped(t) /\ Nested(t, f) /\ n = Top(f).node /\ slot = Top(f).slot
  BY DEF Working, Matches
<1>2. Written(NamesOf(t), Typing(t), c) /\ b \in DOMAIN c
  BY <1>1 DEF CodeMatches
<1>3. b \in NamesOf(t)
  BY <1>2 DEF Written, Named
<1>4. CaughtIn(t) /\ WellBlocks(c) /\ ~Terminated(c, b) =>
              Now(t, f) \subseteq Held(t, c, b) /\ (TidyIn(t) => Held(t, c, b) \subseteq Now(t, f))
  BY <1>1 DEF CodeMatches, PlaceIsRight, Held
<1>5. ~(t[n].kind = "try" /\ slot = 2) => Now(t, f) = ScopeIn(t, n) \cup Keeps(t, n, slot)
  <2>1. Openings(t, Opened(f), n, slot)
    BY <1>1, Frames
  <2>2. KeptInside(t, Opened(f), n, slot)
    BY <2>1, OpenScopes
  <2> QED BY <1>1, <2>2 DEF KeptInside, Now
<1> QED BY <1>2, <1>3, <1>4, <1>5

(* The end of the block where the compiler stands.                         *)
Rested(t, f, c, b, e) ==
  /\ Fills(t, e, {}, {}, e) /\ Only(c, b, e) /\ DOMAIN e = DOMAIN c /\ b \in DOMAIN e
  /\ WellBlocks(e) => WellBlocks(c)
  /\ \A y \in Expected(t, f) : Was(e, y) = <<>>

(* The end of a block that falls through to the next. *)
LEMMA FallsThrough ==
  ASSUME NEW t, NEW f, NEW n, NEW slot, NEW ex, NEW ls, NEW bs, NEW ps, NEW ss, NEW c, NEW b,
         Working(t, f, n, slot, ex, ls, bs, ps, ss, c, b),
         NEW y \in NamesOf(t), y \in BlocksOf(t), HeldIn(t, y) = Now(t, f)
  PROVE  Rested(t, f, c, b, BrUnlessTerminated(c, b, y))
<1> DEFINE e == BrUnlessTerminated(c, b, y)  T == Typing(t)
<1>1. /\ Written(NamesOf(t), T, c) /\ b \in DOMAIN c /\ b \in NamesOf(t)
      /\ CaughtIn(t) /\ WellBlocks(c) /\ ~Terminated(c, b) =>
           Now(t, f) \subseteq Held(t, c, b) /\ (TidyIn(t) => Held(t, c, b) \subseteq Now(t, f))
  BY HeldNow
<1>2. T.caught = CaughtIn(t) /\ T.held[b] = HeldIn(t, b)
  BY <1>1, TypingIs
<1> HIDE DEF e, T
<1>3. T.caught /\ WellBlocks(c) /\ ~Terminated(c, b) => Expects(T, y, After(T.held[b], c[b]))
  <2> SUFFICES ASSUME T.caught, WellBlocks(c), ~Terminated(c, b)
               PROVE  Expects(T, y, After(T.held[b], c[b]))
    OBVIOUS
  <2>1. HeldIn(t, y) \subseteq Held(t, c, b) /\ (TidyIn(t) => Held(t, c, b) \subseteq HeldIn(t, y))
    BY <1>1, <1>2
  <2>2. Expects(T, y, Held(t, c, b))
    BY <2>1, Reached DEF T
  <2> QED BY <1>2, <2>2 DEF Held
<1>4. /\ Written(NamesOf(t), T, e) /\ DOMAIN e = DOMAIN c
      /\ WellBlocks(e) => WellBlocks(c)
      /\ \A x : x # b => Was(e, x) = Was(c, x)
  BY <1>1, <1>3, Ended DEF e
<1>5. Fills(t, e, {}, {}, e)
  BY <1>4, FillNone DEF T
<1>6. \A x \in Expected(t, f) : x # b /\ Was(c, x) = <<>>
  BY DEF Working, Matches, CodeMatches
<1>7. Rested(t, f, c, b, e)
  BY <1>1, <1>4, <1>5, <1>6 DEF Rested, Only
<1> QED BY <1>7 DEF e

(* The handler of a branch or a switch goes on to another slot.            *)
Vacated(t, n, slot, next, c2, b2) ==
  /\ \A y \in Reserved(t, n, next) : y # b2 /\ Was(c2, y) = <<>>
  /\ Reserved(t, n, slot) \subseteq DOMAIN c2 \cup Reserved(t, n, next)

(* A handler goes on to another slot, on the whole. *)
LEMMA MoveStep ==
  ASSUME NEW t, NEW f, NEW n, NEW slot, NEW ex, NEW ls, NEW bs, NEW ps, NEW ss, NEW c, NEW b,
         Working(t, f, n, slot, ex, ls, bs, ps, ss, c, b), t[n].kind \in {"if", "switch"},
         NEW next \in Nat, Fits(t, n, next), NEW g, g = Append(Pop(f), Frame(n, next)),
         NEW c2, NEW b2, Touched(c, b, c2, b2, n), Written(NamesOf(t), Typing(t), c2),
         Vacated(t, n, slot, next, c2, b2), WellBlocks(c2) => WellBlocks(c),
         CaughtIn(t) /\ WellBlocks(c2) => PlaceIsRight(t, g, c2, b2)
  PROVE  Matches(t, g, ex, ls, bs, ps, ss, c2, b2) /\ Nested(t, g)
<1>1. Shaped(t) /\ Nested(t, f) /\ n = Top(f).node /\ slot = Top(f).slot
      /\ Stacked(t, f, ex, ls, bs, ps, c, b) /\ ScopesMatch(t, f, ss, c, b) /\ CodeMatches(t, f, c, b)
  BY DEF Working, Matches
<1>2. Inner(t, f, n, slot)
  BY <1>1, InnerIs
<1>3. n # 1 /\ n \in 1..Len(t) /\ Grows(t, t) /\ t[n].kind \notin {"function", "block", "try"}
  BY <1>2 DEF Inner
<1>4. Nested(t, g) /\ GoesOn(f, g, n, slot, next) /\ Top(g) = Frame(n, next)
  BY <1>1, <1>3, Moved DEF GoesOn
<1>5. Shifted(t, f, g, n, slot, next)
  BY <1>1, <1>4, MovedSets
<1>6. Leaves(f, Pop(f), n, slot) /\ Fewer(t, f, Pop(f), n, slot)
  BY <1>1, <1>3, LeftIs
<1>7. More(t, Pop(f), g, n, next)
  <2>1. Enters(Pop(f), g, n, next)
    BY <1>4, <1>6 DEF Enters, Leaves, GoesOn
  <2> QED BY <2>1, MoreSets
<1>8. /\ Expected(t, g) = Expected(t, Pop(f)) \cup Reserved(t, n, next)
      /\ Expected(t, f) = Expected(t, Pop(f)) \cup Reserved(t, n, slot)
      /\ \A o \in Opened(Pop(f)) : o \in Opened(f) /\ o[1] < n
      /\ \A o \in Opened(f) : o[1] \in 1..Len(t)
  BY <1>6, <1>7 DEF More, Fewer
<1>9. CodeMatches(t, g, c2, b2)
  <2>1. \A x \in Expected(t, Pop(f)) : x[1] # n
    <3> SUFFICES ASSUME NEW x \in Expected(t, Pop(f))
                 PROVE  x[1] # n
      OBVIOUS
    <3>1. PICK o \in Opened(Pop(f)) : x[1] = o[1]
      BY ExpectedOwn
    <3> QED BY <1>3, <1>8, <3>1
  <2>2. Settled(t, t, f, g, c2, b2, n, Expected(t, Pop(f)), Reserved(t, n, next))
    BY <1>8, <2>1 DEF Settled, Vacated
  <2>3. CatchBegins(t, g, c2, b2)
    BY <1>3, <1>4 DEF CatchBegins, Frame
  <2>4. Built(t, g, c2)
    <3>1. \A o \in Opened(g) : o \in Opened(f) \/ o[1] = <<n, slot>>[1]
      BY <1>4 DEF GoesOn
    <3>2. <<n, slot>> \in Opened(f)
      BY <1>2 DEF Inner
    <3>3. \A o \in Opened(g) : o \in Opened(f) \/ o[1] = n
      BY <3>1
    <3>4. \A o : o[1] = n => AfterTry(t, o, c2)
      BY <1>3 DEF AfterTry
    <3> QED BY <1>1, <3>1, <3>2, <3>3, <3>4, BuiltKept
  <2> QED BY <1>1, <2>2, <2>3, <2>4, CodeFrame
<1>10. Stacked(t, g, ex, ls, bs, ps, c2, b2)
  <2>1. /\ \A kinds : OpenIn(t, g, kinds) = OpenIn(t, f, kinds)
        /\ OpenTries(t, g) = OpenTries(t, f)
    BY <1>3, <1>5 DEF Shifted
  <2>2. ExitsMatch(t, f, ex) /\ LatchesMatch(t, ls) /\ BodyExitsMatch(t, f, bs) /\ PadsMatch(t, f, ps, c, b)
    BY <1>1 DEF Stacked
  <2>3. OpenIn(t, g, Breakable) = OpenIn(t, f, Breakable) /\ OpenIn(t, g, {"for"}) = OpenIn(t, f, {"for"})
    BY <2>1
  <2>4. ExitsMatch(t, g, ex)
    BY <1>3, <2>2, <2>3, ExitsKept
  <2>5. BodyExitsMatch(t, g, bs)
    BY <1>3, <2>2, <2>3, BodyExitsKept
  <2>6. PadsMatch(t, g, ps, c2, b2)
    BY <1>3, <2>1, <2>2, PadsKept
  <2> QED BY <2>2, <2>4, <2>5, <2>6 DEF Stacked
<1>11. ScopesMatch(t, g, ss, c2, b2)
  <2>1. Good(t, c2) => Good(t, c) /\ NoFlags(ss)
    <3> SUFFICES ASSUME Good(t, c2)
                 PROVE  Good(t, c) /\ NoFlags(ss)
      OBVIOUS
    <3>1. Good(t, c)
      BY DEF Good
    <3>2. t[Top(f).node].kind \notin {"function", "block"}
      BY <1>1, <1>3
    <3> QED BY <1>1, <3>1, <3>2, NoFlagsHere
  <2>2. ScopedIn(t, g) = ScopedIn(t, f) /\ \A o \in Opened(f) : t[o[1]] = t[o[1]]
    BY <1>5 DEF Shifted
  <2> QED BY <1>1, <1>3, <2>1, <2>2, ScopesKept
<1> QED BY <1>4, <1>9, <1>10, <1>11 DEF Matches

(* A statement ends with the block that follows it, still empty.           *)
LEMMA CloseEmpty ==
  ASSUME NEW t, NEW f, NEW n, NEW slot, NEW ex, NEW ls, NEW bs, NEW ps, NEW ss, NEW c, NEW b,
         Working(t, f, n, slot, ex, ls, bs, ps, ss, c, b), NEW g, g = Pop(f),
         t[n].kind \notin {"function", "block"}, t[n].kind = "try" => slot # 1,
         NEW e, Rested(t, f, c, b, e), NEW F, NEW D, NEW c2, Fills(t, e, F, D, c2), Owned(F, n),
         NEW b2 \in DOMAIN c2, b2[1] = n, b2[2] # "pad", HeldIn(t, b2) = ScopeIn(t, n), c2[b2] = <<>>,
         Reserved(t, n, slot) \subseteq DOMAIN c2
  PROVE  Matches(t, g, Popped(t[n].kind \in LoopKinds, ex), ls, Popped(t[n].kind = "for", bs), ps,
                 Popped(Scoped(t, n), ss), c2, b2)
<1>1. Only(c, b, e) /\ (WellBlocks(e) => WellBlocks(c))
  BY DEF Rested
<1>2. Written(NamesOf(t), Typing(t), c2) /\ (WellBlocks(c2) => WellBlocks(e))
  BY DEF Fills
<1>3. Touched(c, b, c2, b2, n)
  BY <1>1, TouchedBy DEF Owned
<1>4. Now(t, g) = ScopeIn(t, n)
  BY LeftIs DEF Working
<1>5. PlaceIsRight(t, g, c2, b2)
  BY <1>4, PlaceEmpty
<1> QED BY <1>1, <1>2, <1>3, <1>5, CloseStep

(* The blocks the innermost handler has reserved.                          *)
LEMMA OwnReserved ==
  ASSUME NEW t, NEW f, NEW n, NEW slot, NEW ex, NEW ls, NEW bs, NEW ps, NEW ss, NEW c, NEW b,
         Working(t, f, n, slot, ex, ls, bs, ps, ss, c, b)
  PROVE  /\ n \in 1..Len(t) /\ Ahead(t, n) \subseteq DOMAIN c
         /\ \A y \in Reserved(t, n, slot) : y \in Expected(t, f) /\ y # b /\ Was(c, y) = <<>> /\ y[1] = n /\
               y[2] # "pad"
         /\ Made(t, n) \subseteq BlocksOf(t)
<1>1. Inner(t, f, n, slot)
  BY InnerIs DEF Working
<1>2. CodeMatches(t, f, c, b)
  BY DEF Working, Matches
<1>3. n \in 1..Len(t) /\ <<n, slot>> \in Opened(f)
  BY <1>1 DEF Inner
<1>4. Ahead(t, <<n, slot>>[1]) \subseteq DOMAIN c
  BY <1>2, <1>3 DEF CodeMatches, Built
<1>5. Reserved(t, <<n, slot>>[1], <<n, slot>>[2]) \subseteq Expected(t, f)
  BY <1>3 DEF Expected
<1>6. \A y \in Expected(t, f) : y # b /\ Was(c, y) = <<>>
  BY <1>2 DEF CodeMatches
<1>7. \A y \in Reserved(t, n, slot) : y[1] = n /\ y[2] # "pad"
  BY ReservedOwn
<1>8. Made(t, n) \subseteq BlocksOf(t)
  BY <1>3 DEF BlocksOf
<1> QED BY <1>3, <1>4, <1>5, <1>6, <1>7, <1>8

(* An if statement ends. *)
LEMMA CloseIfStep ==
  ASSUME NEW t, NEW f, NEW n, NEW slot, NEW ex, NEW ls, NEW bs, NEW ps, NEW ss, NEW c, NEW b,
         Working(t, f, n, slot, ex, ls, bs, ps, ss, c, b), t[n].kind = "if", slot = 2, NEW g, g = Pop(f)
  PROVE  Matches(t, g, ex, ls, bs, ps, ss, BrUnlessTerminated(c, b, Blk(n, "endif")), Blk(n, "endif"))
<1> DEFINE end == Blk(n, "endif")  e == BrUnlessTerminated(c, b, end)
<1>1. n \in 1..Len(t) /\ Ahead(t, n) \subseteq DOMAIN c
  BY OwnReserved
<1>2. Made(t, n) = {Blk(n, "then"), Blk(n, "else"), end} /\ Reserved(t, n, slot) = {end} /\ end \in Ahead(t, n)
      /\ Keeps(t, n, slot) = {} /\ OwnHeld(t, n, "endif") = {} /\ ~Scoped(t, n)
  BY DEF Made, Reserved, Ahead, Keeps, OwnHeld, Scoped
<1>3. Inside1(t, n, "endif")
  BY <1>1, <1>2, InsideIs DEF Parts
<1>4. end \in NamesOf(t) /\ end \in BlocksOf(t) /\ HeldIn(t, end) = ScopeIn(t, n) /\ end[1] = n /\ end[2] # "pad"
  BY <1>2, <1>3 DEF Inside1
<1>5. Now(t, f) = ScopeIn(t, n)
  BY <1>2, HeldNow
<1> HIDE DEF end, e
<1>6. Rested(t, f, c, b, e)
  BY <1>4, <1>5, FallsThrough DEF e
<1>7. end \in Expected(t, f)
  BY <1>2, OwnReserved
<1>8. Fills(t, e, {}, {}, e) /\ Owned({}, n) /\ Was(e, end) = <<>> /\ DOMAIN e = DOMAIN c
  BY <1>6, <1>7 DEF Rested, Owned
<1>9. end \in DOMAIN e /\ e[end] = <<>> /\ Reserved(t, n, slot) \subseteq DOMAIN e
  BY <1>1, <1>2, <1>8 DEF Was
<1>10. Matches(t, g, Popped(t[n].kind \in LoopKinds, ex), ls, Popped(t[n].kind = "for", bs), ps,
               Popped(Scoped(t, n), ss), e, end)
  BY <1>4, <1>6, <1>8, <1>9, CloseEmpty
<1>11. t[n].kind \notin LoopKinds /\ t[n].kind # "for"
  BY DEF LoopKinds
<1> QED BY <1>2, <1>10, <1>11 DEF Popped, e, end

(* What is kept where a branch or a switch goes on.                        *)
LEMMA NowMoved ==
  ASSUME NEW t, NEW f, NEW n, NEW slot, NEW ex, NEW ls, NEW bs, NEW ps, NEW ss, NEW c, NEW b,
         Working(t, f, n, slot, ex, ls, bs, ps, ss, c, b), t[n].kind \in {"if", "switch"},
         NEW next \in Nat, Fits(t, n, next), NEW g, g = Append(Pop(f), Frame(n, next))
  PROVE  Now(t, f) = ScopeIn(t, n) /\ Now(t, g) = ScopeIn(t, n)
<1>1. Shaped(t) /\ Nested(t, f) /\ n = Top(f).node /\ slot = Top(f).slot
  BY DEF Working
<1>2. n # 1 /\ t[n].kind # "try"
  BY <1>1, InnerIs DEF Inner
<1>3. Nested(t, g) /\ GoesOn(f, g, n, slot, next) /\ Top(g) = Frame(n, next)
  BY <1>1, <1>2, Moved DEF GoesOn
<1>4. Shifted(t, f, g, n, slot, next)
  BY <1>1, <1>3, MovedSets
<1>5. Top(g).node = n /\ Top(f).node = n /\ t[n].kind # "try"
  BY <1>1, <1>2, <1>3 DEF Frame
<1>6. Now(t, f) = Kept(t, Opened(f)) /\ Now(t, g) = Kept(t, Opened(g))
  BY <1>5 DEF Now
<1>7. Keeps(t, n, slot) = {} /\ Keeps(t, n, next) = {}
  BY DEF Keeps
<1> QED BY <1>4, <1>6, <1>7 DEF Shifted

(* An if statement goes on to its else part. *)
LEMMA ElseStep ==
  ASSUME NEW t, NEW f, NEW n, NEW slot, NEW ex, NEW ls, NEW bs, NEW ps, NEW ss, NEW c, NEW b,
         Working(t, f, n, slot, ex, ls, bs, ps, ss, c, b), t[n].kind = "if", slot = 1,
         NEW g, g = Append(Pop(f), Frame(n, 2))
  PROVE  Matches(t, g, ex, ls, bs, ps, ss, BrUnlessTerminated(c, b, Blk(n, "endif")), Blk(n, "else")) /\ Nested(t, g)
<1> DEFINE end == Blk(n, "endif")  else == Blk(n, "else")  e == BrUnlessTerminated(c, b, end)
<1>1. n \in 1..Len(t) /\ Ahead(t, n) \subseteq DOMAIN c
  BY OwnReserved
<1>2. Made(t, n) = {Blk(n, "then"), else, end} /\ Reserved(t, n, slot) = {else, end} /\ Ahead(t, n) = {else, end}
      /\ Reserved(t, n, 2) = {end} /\ (\A s : Keeps(t, n, s) = {}) /\ (\A part : OwnHeld(t, n, part) = {})
      /\ Fits(t, n, 2) /\ 2 \in Nat
  BY DEF Made, Reserved, Ahead, Keeps, OwnHeld, Fits
<1>3. Inside1(t, n, "endif") /\ Inside1(t, n, "else")
  <2>1. "endif" \in Parts /\ "else" \in Parts
    BY DEF Parts
  <2> QED BY <1>1, <1>2, <2>1, InsideIs
<1>4. /\ end \in NamesOf(t) /\ end \in BlocksOf(t) /\ HeldIn(t, end) = ScopeIn(t, n) /\ end[1] = n /\ end[2] = "endif"
      /\ HeldIn(t, else) = ScopeIn(t, n) /\ else[1] = n /\ else[2] = "else"
  BY <1>2, <1>3 DEF Inside1
<1>5. Now(t, f) = ScopeIn(t, n) /\ Now(t, g) = ScopeIn(t, n)
  <2>1. t[n].kind \in {"if", "switch"}
    OBVIOUS
  <2> QED BY <1>2, <2>1, NowMoved
<1>6. end # else
  BY DEF Blk
<1> HIDE DEF end, else, e
<1>7. Rested(t, f, c, b, e)
  BY <1>4, <1>5, FallsThrough DEF e
<1>8. end \in Expected(t, f) /\ else \in Expected(t, f)
  BY <1>2, OwnReserved
<1>9. Fills(t, e, {}, {}, e) /\ Only(c, b, e) /\ Was(e, end) = <<>> /\ Was(e, else) = <<>> /\ DOMAIN e = DOMAIN c
      /\ (WellBlocks(e) => WellBlocks(c))
  BY <1>7, <1>8 DEF Rested
<1>10. else \in DOMAIN e /\ end \in DOMAIN e /\ e[else] = <<>>
  BY <1>1, <1>2, <1>9 DEF Was
<1>11. Touched(c, b, e, else, n)
  <2>1. else \in DOMAIN e /\ (else = b \/ (else[1] = n /\ else[2] # "pad"))
    BY <1>4, <1>10
  <2>2. \A x \in {} : x[1] = n /\ x[2] # "pad"
    OBVIOUS
  <2> QED BY <1>9, <2>1, <2>2, TouchedBy
<1>12. Written(NamesOf(t), Typing(t), e)
  BY <1>9 DEF Fills
<1>13. Vacated(t, n, slot, 2, e, else)
  <2>1. \A y \in Reserved(t, n, 2) : y # else /\ Was(e, y) = <<>>
    BY <1>2, <1>6, <1>9
  <2>2. Reserved(t, n, slot) \subseteq DOMAIN e \cup Reserved(t, n, 2)
    BY <1>2, <1>10
  <2> QED BY <2>1, <2>2 DEF Vacated
<1>15. t[n].kind \in {"if", "switch"}
  OBVIOUS
<1>16. PlaceIsRight(t, g, e, else)
  <2>1. HeldIn(t, else) = Now(t, g)
    BY <1>4, <1>5
  <2> QED BY <1>10, <2>1, PlaceEmpty
<1>17. Matches(t, g, ex, ls, bs, ps, ss, e, else) /\ Nested(t, g)
  BY <1>2, <1>9, <1>11, <1>12, <1>13, <1>15, <1>16, MoveStep
<1> QED BY <1>17 DEF e, end, else

(* Blocks of a statement that holds nothing of its own.                    *)
PlainBlock(t, n, part) ==
  LET y == Blk(n, part)
  IN y \in NamesOf(t) /\ y \in BlocksOf(t) /\ y[1] = n /\ y[2] = part /\ HeldIn(t, y) = ScopeIn(t, n)

(* The blocks of loops without a variable. *)
LEMMA PlainBlocks ==
  ASSUME NEW t, NEW n \in 1..Len(t), t[n].kind \in {"while", "do"}
  PROVE  \A part \in {"cond", "body", "latch", "exiting", "end"} : PlainBlock(t, n, part)
<1> SUFFICES ASSUME NEW part \in {"cond", "body", "latch", "exiting", "end"}
             PROVE  PlainBlock(t, n, part)
  OBVIOUS
<1>1. Made(t, n) = {Blk(n, "cond"), Blk(n, "body"), Blk(n, "latch"), Blk(n, "exiting"), Blk(n, "end")}
  BY DEF Made
<1>2. OwnHeld(t, n, part) = {} /\ t[n].kind # "throw"
  BY DEF OwnHeld
<1>3. part \in Parts
  BY DEF Parts
<1>4. Blk(n, part) \in Made(t, n)
  BY <1>1
<1>5. Inside1(t, n, part)
  BY <1>2, <1>3, <1>4, InsideIs
<1> QED BY <1>2, <1>5 DEF Inside1, PlainBlock

(* A while loop ends. *)
LEMMA CloseWhileStep ==
  ASSUME NEW t, NEW f, NEW n, NEW slot, NEW ex, NEW ls, NEW bs, NEW ps, NEW ss, NEW c, NEW b,
         Working(t, f, n, slot, ex, ls, bs, ps, ss, c, b), t[n].kind = "while", NEW g, g = Pop(f)
  PROVE  Matches(t, g, Pop(ex), ls, bs, ps, Pop(ss),
                 BrUnlessTerminated(c, b, Blk(n, "latch")) ++ In(Blk(n, "end"), <<>>), Blk(n, "end"))
<1> DEFINE latch == Blk(n, "latch")  end == Blk(n, "end")  e == BrUnlessTerminated(c, b, latch)
         c2 == e ++ In(end, <<>>)
<1>1. n \in 1..Len(t)
  BY OwnReserved
<1>2. Reserved(t, n, slot) = {end} /\ Scoped(t, n) /\ t[n].kind \in LoopKinds /\ t[n].kind # "for"
  BY DEF Reserved, Scoped, LoopKinds
<1>3. PlainBlock(t, n, "latch") /\ PlainBlock(t, n, "end")
  BY <1>1, PlainBlocks
<1>4. /\ latch \in NamesOf(t) /\ latch \in BlocksOf(t) /\ HeldIn(t, latch) = ScopeIn(t, n)
      /\ end \in NamesOf(t) /\ HeldIn(t, end) = ScopeIn(t, n) /\ end[1] = n /\ end[2] # "pad"
  BY <1>3 DEF PlainBlock
<1>5. Now(t, f) = ScopeIn(t, n)
  <2>1. Now(t, f) = ScopeIn(t, n) \cup Keeps(t, n, slot)
    BY HeldNow
  <2>2. Keeps(t, n, slot) = {}
    BY DEF Keeps
  <2> QED BY <2>1, <2>2
<1> HIDE DEF latch, end, e, c2
<1>6. Rested(t, f, c, b, e)
  BY <1>4, <1>5, FallsThrough DEF e
<1>7. end \in Expected(t, f)
  BY <1>2, OwnReserved
<1>8. Fills(t, e, {}, {}, e) /\ Owned({}, n) /\ Was(e, end) = <<>>
  BY <1>6, <1>7 DEF Rested, Owned
<1>9. Fills(t, e, {}, {} \cup {end}, c2) /\ c2[end] = <<>>
  <2>1. end \notin {}
    OBVIOUS
  <2> QED BY <1>4, <1>8, <2>1, FillEmpty DEF c2
<1>10. end \in DOMAIN c2 /\ Reserved(t, n, slot) \subseteq DOMAIN c2
  BY <1>2, <1>9 DEF Fills
<1>11. Matches(t, g, Popped(t[n].kind \in LoopKinds, ex), ls, Popped(t[n].kind = "for", bs), ps,
               Popped(Scoped(t, n), ss), c2, end)
  BY <1>2, <1>4, <1>6, <1>8, <1>9, <1>10, CloseEmpty
<1>12. Matches(t, g, Pop(ex), ls, bs, ps, Pop(ss), c2, end)
  BY <1>2, <1>11 DEF Popped
<1> QED BY <1>12 DEF c2, e, end, latch

(* A do loop ends. *)
LEMMA CloseDoStep ==
  ASSUME NEW t, NEW f, NEW n, NEW slot, NEW ex, NEW ls, NEW bs, NEW ps, NEW ss, NEW c, NEW b,
         Working(t, f, n, slot, ex, ls, bs, ps, ss, c, b), t[n].kind = "do", NEW g, g = Pop(f)
  PROVE  Matches(t, g, Pop(ex), ls, bs, ps, Pop(ss),
                 BrUnlessTerminated(c, b, Blk(n, "latch"))
                   ++ In(Blk(n, "latch"), <<Br({Blk(n, "cond")})>>)
                   ++ In(Blk(n, "cond"), <<Eval(Blk(n, "cond")), Br({Blk(n, "body"), Blk(n, "exiting")})>>)
                   ++ In(Blk(n, "exiting"), <<Br({Blk(n, "end")})>>),
                 Blk(n, "end"))
<1> DEFINE cond == Blk(n, "cond")  body == Blk(n, "body")  latch == Blk(n, "latch")  exit == Blk(n, "exiting")
         end == Blk(n, "end")
           e == BrUnlessTerminated(c, b, latch)
           c2 == e ++ In(latch, <<Br({cond})>>)
           c3 == c2 ++ In(cond, <<Eval(cond), Br({body, exit})>>)
           c4 == c3 ++ In(exit, <<Br({end})>>)
<1>1. n \in 1..Len(t) /\ Ahead(t, n) \subseteq DOMAIN c
  BY OwnReserved
<1>2. Reserved(t, n, slot) = {cond, latch, exit, end} /\ Scoped(t, n) /\ t[n].kind \in LoopKinds /\ t[n].kind # "for"
      /\ end \in Ahead(t, n)
  BY DEF Reserved, Scoped, LoopKinds, Ahead
<1>3. \A part \in {"cond", "body", "latch", "exiting", "end"} : PlainBlock(t, n, part)
  BY <1>1, PlainBlocks
<1>4. \A y \in {cond, body, latch, exit, end} :
        y \in NamesOf(t) /\ y \in BlocksOf(t) /\ HeldIn(t, y) = ScopeIn(t, n) /\ y[1] = n /\ y[2] # "pad"
  BY <1>3 DEF PlainBlock
<1>5. Now(t, f) = ScopeIn(t, n)
  <2>1. Now(t, f) = ScopeIn(t, n) \cup Keeps(t, n, slot)
    BY HeldNow
  <2>2. Keeps(t, n, slot) = {}
    BY DEF Keeps
  <2> QED BY <2>1, <2>2
<1>6. cond # latch /\ cond # exit /\ latch # exit /\ end # latch /\ end # cond /\ end # exit
  BY DEF Blk
<1> HIDE DEF cond, body, latch, exit, end, e, c2, c3, c4
<1>7. Rested(t, f, c, b, e)
  <2>1. latch \in NamesOf(t) /\ latch \in BlocksOf(t) /\ HeldIn(t, latch) = Now(t, f)
    BY <1>4, <1>5
  <2> QED BY <2>1, FallsThrough DEF e
<1>8. \A y \in {cond, latch, exit, end} : y \in Expected(t, f)
  BY <1>2, OwnReserved
<1>9. Fills(t, e, {}, {}, e) /\ (\A y \in {cond, latch, exit, end} : Was(e, y) = <<>>) /\ DOMAIN e = DOMAIN c
  BY <1>7, <1>8 DEF Rested
<1>10. Fills(t, e, {latch}, {latch}, c2)
  <2>1. latch \notin {} /\ Was(e, latch) = <<>> /\ latch \in NamesOf(t) /\ {} \cup {latch} = {latch}
    BY <1>4, <1>9
  <2>2. {cond} \in SUBSET BlocksOf(t) /\ {cond} \subseteq NamesOf(t) /\
        \A y \in {cond} : HeldIn(t, y) = HeldIn(t, latch)
    BY <1>4
  <2>3. Fills(t, e, {} \cup {latch}, {} \cup {latch}, c2)
    BY <1>9, <2>1, <2>2, FillBranch DEF c2
  <2> QED BY <2>1, <2>3
<1>11. Fills(t, e, {latch, cond}, {latch, cond}, c3)
  <2>1. cond \notin {latch} /\ Was(e, cond) = <<>> /\ cond \in NamesOf(t) /\ {latch} \cup {cond} = {latch, cond}
    BY <1>4, <1>6, <1>9
  <2>2. {body, exit} \in SUBSET BlocksOf(t) /\ {body, exit} \subseteq NamesOf(t) /\
        \A y \in {body, exit} : HeldIn(t, y) = HeldIn(t, cond)
    BY <1>4
  <2>3. ScopeIn(t, cond[1]) \subseteq HeldIn(t, cond)
    BY <1>4
  <2>4. Fills(t, e, {latch} \cup {cond}, {latch} \cup {cond}, c3)
    BY <1>10, <2>1, <2>2, <2>3, FillTest DEF c3
  <2> QED BY <2>1, <2>4
<1>12. Fills(t, e, {latch, cond, exit}, {latch, cond, exit}, c4)
  <2>1. exit \notin {latch, cond} /\ Was(e, exit) = <<>> /\ exit \in NamesOf(t) /\
        {latch, cond} \cup {exit} = {latch, cond, exit}
    BY <1>4, <1>6, <1>9
  <2>2. {end} \in SUBSET BlocksOf(t) /\ {end} \subseteq NamesOf(t) /\ \A y \in {end} : HeldIn(t, y) = HeldIn(t, exit)
    BY <1>4
  <2>3. Fills(t, e, {latch, cond} \cup {exit}, {latch, cond} \cup {exit}, c4)
    BY <1>11, <2>1, <2>2, FillBranch DEF c4
  <2> QED BY <2>1, <2>3
<1>13. end \in DOMAIN c4 /\ c4[end] = <<>> /\ Reserved(t, n, slot) \subseteq DOMAIN c4
  <2>1. DOMAIN c4 = DOMAIN e \cup {latch, cond, exit} /\ Was(c4, end) = Was(e, end)
    BY <1>6, <1>12 DEF Fills
  <2> QED BY <1>1, <1>2, <1>9, <2>1 DEF Was
<1>14. Owned({latch, cond, exit}, n)
  BY <1>4 DEF Owned
<1>15. Matches(t, g, Popped(t[n].kind \in LoopKinds, ex), ls, Popped(t[n].kind = "for", bs), ps,
               Popped(Scoped(t, n), ss), c4, end)
  <2>1. end[1] = n /\ end[2] # "pad" /\ HeldIn(t, end) = ScopeIn(t, n)
    BY <1>4
  <2>2. t[n].kind \notin {"function", "block"} /\ t[n].kind # "try"
    OBVIOUS
  <2> QED BY <1>7, <1>12, <1>13, <1>14, <2>1, <2>2, CloseEmpty
<1>16. Matches(t, g, Pop(ex), ls, bs, ps, Pop(ss), c4, end)
  BY <1>2, <1>15 DEF Popped
<1> QED BY <1>16 DEF c4, c3, c2, e, cond, body, latch, exit, end

(* A statement ends with the block that follows it, in which it may have   *)
(* released what it held.                                                  *)
LEMMA CloseFilled ==
  ASSUME NEW t, NEW f, NEW n, NEW slot, NEW ex, NEW ls, NEW bs, NEW ps, NEW ss, NEW c, NEW b,
         Working(t, f, n, slot, ex, ls, bs, ps, ss, c, b), NEW g, g = Pop(f),
         t[n].kind \notin {"function", "block"}, t[n].kind = "try" => slot # 1,
         NEW e, Rested(t, f, c, b, e), NEW F, NEW D, NEW c2, Fills(t, e, F, D, c2), Owned(F, n),
         NEW b2 \in DOMAIN c2, b2[1] = n, b2[2] # "pad", Reserved(t, n, slot) \subseteq DOMAIN c2,
         CaughtIn(t) /\ WellBlocks(c2) => PlaceIsRight(t, g, c2, b2)
  PROVE  Matches(t, g, Popped(t[n].kind \in LoopKinds, ex), ls, Popped(t[n].kind = "for", bs), ps,
                 Popped(Scoped(t, n), ss), c2, b2)
<1>1. Only(c, b, e) /\ (WellBlocks(e) => WellBlocks(c))
  BY DEF Rested
<1>2. Written(NamesOf(t), Typing(t), c2) /\ (WellBlocks(c2) => WellBlocks(e))
  BY DEF Fills
<1>3. Touched(c, b, c2, b2, n)
  BY <1>1, TouchedBy DEF Owned
<1> QED BY <1>1, <1>2, <1>3, CloseStep

(* Instructions after others. *)
LEMMA RunsAfter ==
  ASSUME NEW names, NEW T, NEW s, NEW m, NEW h, NEW d, Runs(names, T, s, m, {}, h, d)
  PROVE  After(m, s) = h /\ Dropped(s) = d
<1>1. Leads(T, m, <<>>, m, {})
  BY Starting
<1>2. <<>> \in Seq(Instructions(names)) /\ s \in Seq(Instructions(names))
  BY DEF Runs
<1>3. Leads(T, m, <<>> \o s, h, d)
  BY <1>1, <1>2 DEF Runs
<1>4. <<>> \o s = s
  BY <1>2
<1> QED BY <1>3, <1>4 DEF Leads, After, Dropped

(* Releases, one after the other, leave the block open.                    *)
LEMMA ReleasesOpen ==
  ASSUME NEW names, NEW r1 \in SUBSET names, NEW r2 \in SUBSET names, NEW s, s = ReleaseAll(r1) \o ReleaseAll(r2)
  PROVE  s \in Seq(Instructions(names)) /\ (s # <<>> => ~IsTerminator(Top(s)))
<1>1. ReleaseAll(r1) \in Seq(Instructions(names)) /\ ReleaseAll(r2) \in Seq(Instructions(names))
  BY ReleaseNamed
<1>2. s \in Seq(Instructions(names))
  BY <1>1
<1>3. \A r \in SUBSET names : Release(r) \in Instructions(names) /\ ~IsTerminator(Release(r))
  BY DEF Release, Instructions, IsTerminator
<1>4. CASE r2 # {}
  <2>1. ReleaseAll(r2) = <<Release(r2)>>
    BY <1>4 DEF ReleaseAll
  <2>2. Top(ReleaseAll(r1) \o <<Release(r2)>>) = Release(r2)
    BY <1>1, <1>3, EndOf
  <2> QED BY <1>2, <1>3, <2>1, <2>2
<1>5. CASE r2 = {}
  <2>1. ReleaseAll(r2) = <<>>
    BY <1>5 DEF ReleaseAll
  <2>2. s = ReleaseAll(r1)
    BY <1>1, <2>1
  <2>3. CASE r1 = {}
    BY <1>2, <2>2, <2>3 DEF ReleaseAll
  <2>4. CASE r1 # {}
    <3>1. s = <<Release(r1)>>
      BY <2>2, <2>4 DEF ReleaseAll
    <3>2. Top(<<Release(r1)>>) = Release(r1)
      BY DEF Top
    <3> QED BY <1>2, <1>3, <3>1, <3>2
  <2> QED BY <2>3, <2>4
<1> QED BY <1>4, <1>5

(* The block that follows a loop releases what the loop held.              *)
EndsLoop(t, g, c, e, F, D, end, s) ==
  /\ Fills(t, c, F \cup {end}, D \cup {end}, e ++ In(end, s)) /\ end \in DOMAIN (e ++ In(end, s))
  /\ CaughtIn(t) /\ WellBlocks(e ++ In(end, s)) => PlaceIsRight(t, g, e ++ In(end, s), end)

Leftover(t, n, g, c, end, own, r1, r2) ==
  /\ end \in NamesOf(t) /\ HeldIn(t, end) = ScopeIn(t, n) \cup own /\ Was(c, end) = <<>>
  /\ \A r \in r1 \cup r2 : r[1] = n
  /\ Now(t, g) = ScopeIn(t, n)
  /\ TidyIn(t) /\ CaughtIn(t) /\ WellBlocks(c) => own \subseteq r1 \cup r2

(* What a loop releases where it ends. *)
LEMMA EndReleases ==
  ASSUME NEW t, Shaped(t), NEW n \in 1..Len(t), NEW r1 \in SUBSET NamesOf(t), NEW r2 \in SUBSET NamesOf(t),
         NEW g, NEW c, NEW end, NEW own, Leftover(t, n, g, c, end, own, r1, r2),
         NEW F, NEW D, NEW e, Fills(t, c, F, D, e), end \notin F
  PROVE  EndsLoop(t, g, c, e, F, D, end, ReleaseAll(r1) \o ReleaseAll(r2))
<1> DEFINE s == ReleaseAll(r1) \o ReleaseAll(r2)  h0 == HeldIn(t, end)  c2 == e ++ In(end, s)
           h == (h0 \ r1) \ r2  d == ({} \cup r1) \cup r2
<1>0. /\ end \in NamesOf(t) /\ h0 = ScopeIn(t, n) \cup own /\ Was(c, end) = <<>>
      /\ \A r \in r1 \cup r2 : r[1] = n
      /\ Now(t, g) = ScopeIn(t, n)
      /\ TidyIn(t) /\ CaughtIn(t) /\ WellBlocks(c) => own \subseteq r1 \cup r2
  BY DEF Leftover
<1>1. s \in Seq(Instructions(NamesOf(t))) /\ (s # <<>> => ~IsTerminator(Top(s)))
  BY ReleasesOpen
<1>2. Runs(NamesOf(t), Typing(t), s, h0, {}, h, d)
  <2>1. Runs(NamesOf(t), Typing(t), ReleaseAll(r1), h0, {}, h0 \ r1, {} \cup r1)
    BY Releasing
  <2>2. Runs(NamesOf(t), Typing(t), ReleaseAll(r2), h0 \ r1, {} \cup r1, (h0 \ r1) \ r2, ({} \cup r1) \cup r2)
    BY Releasing
  <2> HIDE DEF h0
  <2> QED BY <2>1, <2>2, RunBoth
<1> HIDE DEF s, h, d
<1>3. After(h0, s) = h
  BY <1>2, RunsAfter
<1>4. FilledOne(t, c, F, D, end, s, e ++ In(end, s))
  BY <1>0, <1>1, <1>2, FillOne
<1>5. Fills(t, c, F \cup {end}, D \cup {end}, c2) /\ c2[end] = s
  BY <1>4 DEF FilledOne
<1>6. end \in DOMAIN c2 /\ (WellBlocks(c2) => WellBlocks(c))
  BY <1>5 DEF Fills
<1>7. ~Terminated(c2, end)
  BY <1>1, <1>5 DEF Terminated
<1>8. \A r \in ScopeIn(t, n) : r \notin r1 \cup r2
  <2>1. n \in 0..Len(t) /\ n \notin 1..(n - 1)
    OBVIOUS
  <2>2. \A r \in ScopeIn(t, n) : r[1] \in 1..(n - 1)
    BY <2>1, ScopeBelow
  <2> QED BY <1>0, <2>1, <2>2
<1>9. ScopeIn(t, n) \subseteq h
  BY <1>0, <1>8 DEF h
<1>10. TidyIn(t) /\ CaughtIn(t) /\ WellBlocks(c2) => h \subseteq ScopeIn(t, n)
  BY <1>0, <1>6 DEF h
<1>11. CaughtIn(t) /\ WellBlocks(c2) => PlaceIsRight(t, g, c2, end)
  BY <1>0, <1>3, <1>5, <1>7, <1>9, <1>10 DEF PlaceIsRight
<1> QED BY <1>5, <1>6, <1>11 DEF EndsLoop, s

(* The scope of the innermost handler, and what deinitialize() releases.   *)
LEMMA OwnScope ==
  ASSUME NEW t, NEW f, NEW n, NEW slot, NEW ex, NEW ls, NEW bs, NEW ps, NEW ss, NEW c, NEW b,
         Working(t, f, n, slot, ex, ls, bs, ps, ss, c, b), Scoped(t, n)
  PROVE  /\ InnerScope(t, f, n)
         /\ \E rs \in SUBSET Declared(t, n) :
              /\ Deinitialize(Top(ss)) = ReleaseAll(rs) /\ rs \in SUBSET NamesOf(t)
              /\ NoFlags(ss) => rs = Declared(t, n)
<1>1. Shaped(t) /\ Nested(t, f) /\ n = Top(f).node /\ slot = Top(f).slot /\ ScopesMatch(t, f, ss, c, b)
  BY DEF Working, Matches
<1>2. Openings(t, Opened(f), n, slot)
  BY <1>1, Frames
<1>3. n \in ScopedIn(t, f)
  <2>1. <<n, slot>> \in Opened(f) /\ <<n, slot>>[1] = n
    BY <1>2 DEF Openings
  <2> QED BY <2>1, Readings
<1>4. \A m \in ScopedIn(t, f) : m <= n
  <2> SUFFICES ASSUME NEW m \in ScopedIn(t, f)
               PROVE  m <= n
    OBVIOUS
  <2>1. PICK o \in Opened(f) : m = o[1]
    BY Readings
  <2> QED BY <1>2, <2>1 DEF Openings
<1>5. InnerScope(t, f, n)
  BY <1>3, <1>4 DEF InnerScope
<1>6. \E rs \in SUBSET Declared(t, n) :
           /\ Deinitialize(Top(ss)) = ReleaseAll(rs) /\ rs \in SUBSET NamesOf(t)
           /\ NoFlags(ss) => rs = Declared(t, n)
  BY <1>1, <1>5, DeinitializeIs
<1> QED BY <1>5, <1>6

(* A for..of or for..in loop ends. *)
LEMMA CloseForOfStep ==
  ASSUME NEW t, NEW f, NEW n, NEW slot, NEW ex, NEW ls, NEW bs, NEW ps, NEW ss, NEW c, NEW b,
         Working(t, f, n, slot, ex, ls, bs, ps, ss, c, b), t[n].kind \in {"forof", "forin"}, NEW g, g = Pop(f),
         NEW place, place = (IF t[n].kind = "forof" /\ "tuple" \in t[n].opts THEN {Blk(n, "element")} ELSE {})
  PROVE  Matches(t, g, Pop(ex), ls, bs, ps, Pop(ss),
                 BrUnlessTerminated(c, b, Blk(n, "latch"))
                   ++ In(Blk(n, "exiting"), <<Br({Blk(n, "end")})>>)
                   ++ In(Blk(n, "end"), ReleaseAll(place) \o Deinitialize(Top(ss))),
                 Blk(n, "end"))
<1> DEFINE latch == Blk(n, "latch")  exit == Blk(n, "exiting")  end == Blk(n, "end")  element == Blk(n, "element")
           e == BrUnlessTerminated(c, b, latch)
           c2 == e ++ In(exit, <<Br({end})>>)
           c3 == c2 ++ In(end, ReleaseAll(place) \o Deinitialize(Top(ss)))
<1>1. n \in 1..Len(t) /\ Shaped(t) /\ Nested(t, f) /\ n = Top(f).node /\ slot = Top(f).slot
      /\ ScopesMatch(t, f, ss, c, b)
  BY OwnReserved DEF Working, Matches
<1>2. Reserved(t, n, slot) = {exit, end} /\ Scoped(t, n) /\ t[n].kind \in LoopKinds /\ t[n].kind # "for"
      /\ t[n].kind # "throw"
  BY DEF Reserved, Scoped, LoopKinds
<1>3. Inside1(t, n, "latch") /\ Inside1(t, n, "exiting") /\ Inside1(t, n, "end")
  <2>1. latch \in Made(t, n) /\ exit \in Made(t, n) /\ end \in Made(t, n)
    BY DEF Made
  <2>2. "latch" \in Parts /\ "exiting" \in Parts /\ "end" \in Parts
    BY DEF Parts
  <2> QED BY <1>1, <1>2, <2>1, <2>2, InsideIs
<1>4. \A part : OwnHeld(t, n, part) = {element}
  BY DEF OwnHeld
<1>5. \A y \in {latch, exit, end} : y \in NamesOf(t) /\ y \in BlocksOf(t) /\ y[1] = n /\ y[2] # "pad"
                                   /\ HeldIn(t, y) = ScopeIn(t, n) \cup {element}
  BY <1>3, <1>4 DEF Inside1
<1>6. Now(t, f) = ScopeIn(t, n) \cup {element}
  <2>1. Now(t, f) = ScopeIn(t, n) \cup Keeps(t, n, slot)
    BY HeldNow
  <2>2. Keeps(t, n, slot) = {element}
    BY DEF Keeps
  <2> QED BY <2>1, <2>2
<1>7. exit # end /\ element[1] = n
  BY DEF Blk
<1>8. PICK rs \in SUBSET Declared(t, n) :
         /\ Deinitialize(Top(ss)) = ReleaseAll(rs) /\ rs \in SUBSET NamesOf(t)
         /\ NoFlags(ss) => rs = Declared(t, n)
  BY <1>2, OwnScope
<1>9. Declared(t, n) \cup place = {element}
  BY DEF Declared
<1>10. place \in SUBSET NamesOf(t) /\ \A r \in place \cup rs : r[1] = n
  <2>1. element \in NamesOf(t)
    <3>1. "element" \in Parts /\ 0 \in Nat
      BY DEF Parts
    <3> QED BY <1>1, <3>1, Names
  <2> QED BY <1>7, <1>8, <1>9, <2>1
<1>11. Now(t, g) = ScopeIn(t, n)
  BY <1>1, LeftIs
<1>12. Good(t, c) => {element} \subseteq place \cup rs
  <2>1. Good(t, c) => NoFlags(ss)
    BY <1>1, NoFlagsHere
  <2> QED BY <1>8, <1>9, <2>1
<1> HIDE DEF latch, exit, end, element, e, c2, c3
<1>13. Rested(t, f, c, b, e)
  <2>1. latch \in NamesOf(t) /\ latch \in BlocksOf(t) /\ HeldIn(t, latch) = Now(t, f)
    BY <1>5, <1>6
  <2> QED BY <2>1, FallsThrough DEF e
<1>14. exit \in Expected(t, f) /\ end \in Expected(t, f)
  BY <1>2, OwnReserved
<1>15. Fills(t, e, {}, {}, e) /\ Was(e, exit) = <<>> /\ Was(e, end) = <<>> /\ (WellBlocks(e) => WellBlocks(c))
  BY <1>13, <1>14 DEF Rested
<1>16. Fills(t, e, {exit}, {exit}, c2)
  <2>1. exit \notin {} /\ exit \in NamesOf(t) /\ {} \cup {exit} = {exit}
    BY <1>5
  <2>2. {end} \in SUBSET BlocksOf(t) /\ {end} \subseteq NamesOf(t) /\ \A y \in {end} : HeldIn(t, y) = HeldIn(t, exit)
    BY <1>5
  <2>3. Fills(t, e, {} \cup {exit}, {} \cup {exit}, c2)
    BY <1>15, <2>1, <2>2, FillBranch DEF c2
  <2> QED BY <2>1, <2>3
<1>17. EndsLoop(t, g, e, c2, {exit}, {exit}, end, ReleaseAll(place) \o ReleaseAll(rs))
  <2>1. end \in NamesOf(t) /\ HeldIn(t, end) = ScopeIn(t, n) \cup {element} /\ end \notin {exit}
    BY <1>5, <1>7
  <2>2. TidyIn(t) /\ CaughtIn(t) /\ WellBlocks(e) => {element} \subseteq place \cup rs
    BY <1>12, <1>15 DEF Good
  <2>3. place \in SUBSET NamesOf(t) /\ rs \in SUBSET NamesOf(t)
    BY <1>8, <1>10
  <2>4. Leftover(t, n, g, e, end, {element}, place, rs)
    BY <1>10, <1>11, <1>15, <2>1, <2>2 DEF Leftover
  <2> QED BY <1>1, <1>16, <2>1, <2>3, <2>4, EndReleases
<1>18. c3 = c2 ++ In(end, ReleaseAll(place) \o ReleaseAll(rs))
  BY <1>8 DEF c3
<1>19. Fills(t, e, {exit} \cup {end}, {exit} \cup {end}, c3) /\ end \in DOMAIN c3
       /\ (CaughtIn(t) /\ WellBlocks(c3) => PlaceIsRight(t, g, c3, end))
  BY <1>17, <1>18 DEF EndsLoop
<1>20. Reserved(t, n, slot) \subseteq DOMAIN c3
  BY <1>2, <1>19 DEF Fills
<1>21. Owned({exit} \cup {end}, n) /\ end[1] = n /\ end[2] # "pad"
  BY <1>5 DEF Owned
<1>22. Matches(t, g, Popped(t[n].kind \in LoopKinds, ex), ls, Popped(t[n].kind = "for", bs), ps,
               Popped(Scoped(t, n), ss), c3, end)
  <2>1. t[n].kind \notin {"function", "block"} /\ t[n].kind # "try"
    OBVIOUS
  <2> QED BY <1>13, <1>19, <1>20, <1>21, <2>1, CloseFilled, ZenonT(60)
<1>23. Matches(t, g, Pop(ex), ls, bs, ps, Pop(ss), c3, end)
  BY <1>2, <1>22 DEF Popped
<1> QED BY <1>23 DEF c3, c2, e, latch, exit, end

(* The handler of the end of the body, when its own loop ends.             *)
LEMMA OwnBodyExit ==
  ASSUME NEW t, NEW f, NEW n, NEW slot, NEW ex, NEW ls, NEW bs, NEW ps, NEW ss, NEW c, NEW b,
         Working(t, f, n, slot, ex, ls, bs, ps, ss, c, b), t[n].kind = "for"
  PROVE  BodyExitOf(t, bs) = Copies(t, n)
<1>1. Shaped(t) /\ BodyExitsMatch(t, f, bs) /\ Inner(t, f, n, slot)
  BY InnerIs DEF Working, Matches, Stacked
<1>2. n \in OpenIn(t, f, {"for"}) /\ \A m \in OpenIn(t, f, {"for"}) : m <= n
  BY <1>1 DEF Inner
<1>3. bs # <<>> /\ Top(bs) = n
  BY <1>1, <1>2, BodyExitsTop
<1> QED BY <1>3 DEF BodyExitOf, Copies

(* What the blocks of statements in progress expect leaves the copies of   *)
(* the innermost of them alone.                                            *)
LEMMA CopiesAside ==
  ASSUME NEW t, Shaped(t), NEW n \in 1..Len(t), t[n].kind = "for", NEW y \in NamesOf(t), y[1] <= n,
         t[y[1]].kind # "throw"
  PROVE  HeldIn(t, y) \cap Copies(t, n) = {}
<1>1. y[1] \in 1..Len(t)
  BY DEF NamesOf
<1>2. HeldIn(t, y) = ScopeIn(t, y[1]) \cup OwnHeld(t, y[1], y[2])
  BY DEF HeldIn
<1>3. \A r \in ScopeIn(t, y[1]) : r[1] \in 1..(y[1] - 1)
  BY <1>1, ScopeBelow
<1>4. \A r \in Copies(t, n) : r[1] = n /\ r[2] = "copy"
  BY DEF Copies, Blk
<1>5. \A r \in OwnHeld(t, y[1], y[2]) : r[2] # "copy"
  BY DEF OwnHeld, Blk
<1>6. n \notin 1..(y[1] - 1)
  BY <1>1
<1> QED BY <1>2, <1>3, <1>4, <1>5, <1>6

(* The end of the body: the copies are released before the branch that is  *)
(* there, or before one to the latch.                                      *)
BodyLeft(t, n, c, b) ==
  IF Terminated(c, b) THEN BeforeTerminator(c, b, ReleaseAll(Copies(t, n)))
  ELSE c ++ In(b, ReleaseAll(Copies(t, n)) \o <<Br({Blk(n, "latch")})>>)

(* The end of the body of a for loop, with the copies of its counter. *)
LEMMA BodyRests ==
  ASSUME NEW t, NEW f, NEW n, NEW slot, NEW ex, NEW ls, NEW bs, NEW ps, NEW ss, NEW c, NEW b,
         Working(t, f, n, slot, ex, ls, bs, ps, ss, c, b), t[n].kind = "for"
  PROVE  Rested(t, f, c, b, BodyLeft(t, n, c, b))
<1> DEFINE latch == Blk(n, "latch")  rs == Copies(t, n)  T == Typing(t)  e == BodyLeft(t, n, c, b)
<1>1. n \in 1..Len(t) /\ Shaped(t) /\ Nested(t, f) /\ CodeMatches(t, f, c, b) /\ Inner(t, f, n, slot)
  BY OwnReserved, InnerIs DEF Working, Matches
<1>2. /\ Written(NamesOf(t), T, c) /\ b \in DOMAIN c /\ b \in NamesOf(t)
      /\ CaughtIn(t) /\ WellBlocks(c) /\ ~Terminated(c, b) =>
           Now(t, f) \subseteq Held(t, c, b) /\ (TidyIn(t) => Held(t, c, b) \subseteq Now(t, f))
  BY HeldNow
<1>3. T.caught = CaughtIn(t) /\ \A y \in NamesOf(t) : T.held[y] = HeldIn(t, y)
  BY TypingIs
<1>4. rs \in SUBSET NamesOf(t)
  <2>1. "copy" \in Parts /\ 0 \in Nat
    BY DEF Parts
  <2>2. Blk(n, "copy") \in NamesOf(t)
    BY <1>1, <2>1, Names
  <2> QED BY <2>2 DEF Copies
<1>5. \A x \in Expected(t, f) : x # b /\ Was(c, x) = <<>>
  BY <1>1 DEF CodeMatches
<1>6. /\ Written(NamesOf(t), T, e) /\ DOMAIN e = DOMAIN c
      /\ WellBlocks(e) => WellBlocks(c)
      /\ \A x : x # b => Was(e, x) = Was(c, x)
  <2>1. CASE Terminated(c, b)
    <3>1. T.caught /\ WellBlocks(c) /\ Top(c[b]).op = "br" => \A y \in Top(c[b]).to : T.held[y] \cap rs = {}
      <4> SUFFICES ASSUME T.caught, WellBlocks(c), Top(c[b]).op = "br", NEW y \in Top(c[b]).to
                   PROVE  T.held[y] \cap rs = {}
        OBVIOUS
      <4>1. PlaceIsRight(t, f, c, b)
        BY <1>1, <1>3 DEF CodeMatches
      <4>2. y[1] \in OpenIn(t, f, Breakable \cup {"try"})
        BY <2>1, <4>1 DEF PlaceIsRight
      <4>3. y[1] <= n
        BY <1>1, <4>2 DEF Inner
      <4>4. t[y[1]].kind # "throw"
        <5>1. PICK o \in Opened(f) : y[1] = o[1] /\ t[o[1]].kind \in Breakable \cup {"try"}
          BY <4>2 DEF OpenIn
        <5> QED BY <5>1 DEF Breakable, LoopKinds
      <4>5. y \in NamesOf(t)
        <5>1. c[b] \in Seq(Instructions(NamesOf(t))) /\ c[b] # <<>>
          BY <1>2, <2>1 DEF Written, Named, Terminated
        <5>2. Top(c[b]) \in Instructions(NamesOf(t))
          BY <5>1, TopAndPop
        <5>3. Top(c[b]).to \in SUBSET NamesOf(t)
          BY <5>2 DEF Instructions
        <5> QED BY <5>3
      <4>6. HeldIn(t, y) \cap rs = {}
        BY <1>1, <4>3, <4>4, <4>5, CopiesAside
      <4> QED BY <1>3, <4>5, <4>6
    <3>2. e = BeforeTerminator(c, b, ReleaseAll(rs))
      BY <2>1 DEF BodyLeft
    <3> HIDE DEF e, rs, T
    <3> QED BY <1>2, <1>4, <2>1, <3>1, <3>2, Inserted
  <2>2. CASE ~Terminated(c, b)
    <3> DEFINE s == ReleaseAll(rs) \o <<Br({latch})>>
    <3>1. latch \in NamesOf(t) /\ latch \in BlocksOf(t)
      <4>1. ForBlock(t, t[n], n, latch, "latch")
        BY <1>1, ForBlocksAre DEF ForBlocks
      <4> QED BY <4>1 DEF ForBlock
    <3>2. HeldIn(t, latch) = Now(t, f) \ rs
      <4>1. Now(t, f) = ScopeIn(t, n) \cup Keeps(t, n, slot)
        BY HeldNow
      <4>2. t[n].kind \in Breakable /\ "latch" \in {"exiting", "latch"}
        BY DEF Breakable, LoopKinds
      <4> QED BY <1>1, <4>1, <4>2, LoopHeld
    <3> HIDE DEF rs, latch, T
    <3>3. CaughtIn(t) /\ WellBlocks(c) /\ (s # <<>> => ~Terminated(c, b)) =>
            Runs(NamesOf(t), Typing(t), s, Held(t, c, b), Gone(c, b), Held(t, c, b) \ rs, Gone(c, b) \cup rs)
      <4> SUFFICES ASSUME CaughtIn(t), WellBlocks(c)
                   PROVE  Runs(NamesOf(t), Typing(t), s, Held(t, c, b), Gone(c, b), Held(t, c, b) \ rs, Gone(c, b) \cup rs)
        OBVIOUS
      <4>1. HeldIn(t, latch) \subseteq Held(t, c, b) \ rs /\
            (TidyIn(t) => Held(t, c, b) \ rs \subseteq HeldIn(t, latch))
        BY <1>2, <2>2, <3>2
      <4> QED BY <1>4, <3>1, <4>1, ReleaseAndGo
    <3>4. s \in Seq(Instructions(NamesOf(t)))
      BY <1>4, <3>1, ReleaseNamed, BranchNamed
    <3>5. Grows(t, t)
      BY <1>1 DEF Inner
    <3> HIDE DEF s
    <3>6. Continued(t, c, b, s, Held(t, c, b) \ rs, Gone(c, b) \cup rs, c ++ In(b, s))
      BY <1>1, <3>3, <3>4, <3>5, Emits
    <3>7. e = c ++ In(b, s)
      BY <2>2 DEF BodyLeft, s, rs, latch
    <3> QED BY <3>6, <3>7 DEF Continued, Only, T
  <2> QED BY <2>1, <2>2
<1> HIDE DEF e, T
<1>7. Fills(t, e, {}, {}, e)
  BY <1>6, FillNone DEF T
<1>8. Rested(t, f, c, b, e)
  BY <1>2, <1>5, <1>6, <1>7 DEF Rested, Only
<1> QED BY <1>8 DEF e

(* What the scope of the counters still releases after the loop.           *)
Originals(t, n, ss) == IF t[n].decl THEN [Top(ss) EXCEPT !.vals = {Blk(n, "counter")}] ELSE Scope({})

(* A for loop ends. *)
LEMMA CloseForStep ==
  ASSUME NEW t, NEW f, NEW n, NEW slot, NEW ex, NEW ls, NEW bs, NEW ps, NEW ss, NEW c, NEW b,
         Working(t, f, n, slot, ex, ls, bs, ps, ss, c, b), t[n].kind = "for", NEW g, g = Pop(f),
         NEW it, it = (IF "inc" \in t[n].opts
                       THEN BodyLeft(t, n, c, b)
                              ++ In(Blk(n, "inc"), <<Eval(Blk(n, "inc")), Br({IterationOf(n, t[n].opts)})>>)
                       ELSE BodyLeft(t, n, c, b))
  PROVE  Matches(t, g, Pop(ex), ls, Pop(bs), ps, IF t[n].decl THEN Pop(ss) ELSE ss,
                 it ++ In(Blk(n, "end"), Deinitialize(Originals(t, n, ss))), Blk(n, "end"))
<1> DEFINE inc == Blk(n, "inc")  end == Blk(n, "end")  next == IterationOf(n, t[n].opts)  x == t[n]
           e == BodyLeft(t, n, c, b)
           c3 == it ++ In(end, Deinitialize(Originals(t, n, ss)))
           F == IF "inc" \in x.opts THEN {inc} ELSE {}
<1>1. n \in 1..Len(t) /\ Shaped(t) /\ Nested(t, f) /\ n = Top(f).node /\ slot = Top(f).slot
      /\ ScopesMatch(t, f, ss, c, b)
  BY OwnReserved DEF Working, Matches
<1>2. Reserved(t, n, slot) = {end} \cup F /\ t[n].kind \in LoopKinds
      /\ (Scoped(t, n) <=> x.decl) /\ Declared(t, n) = {Blk(n, "copy")}
  BY DEF Reserved, Scoped, LoopKinds, Declared
<1>3. ForBlocks(t, x, n)
  BY <1>1, ForBlocksAre
<1>4. end[1] = n /\ end[2] # "pad" /\ end \in NamesOf(t) /\ HeldIn(t, end) = ScopeIn(t, n) \cup Counters(x, n)
  <2>1. ForBlock(t, x, n, end, "end")
    BY <1>3 DEF ForBlocks
  <2> QED BY <2>1 DEF ForBlock
<1>5. "inc" \in x.opts => inc[1] = n /\ inc[2] # "pad" /\ inc \in NamesOf(t) /\
      HeldIn(t, inc) = ScopeIn(t, n) \cup Counters(x, n)
  <2>1. "inc" \in x.opts => ForBlock(t, x, n, inc, "inc")
    BY <1>3 DEF ForBlocks
  <2> QED BY <2>1 DEF ForBlock
<1>6. next \in NamesOf(t) /\ next \in BlocksOf(t) /\ HeldIn(t, next) = ScopeIn(t, n) \cup Counters(x, n)
  <2>1. ForBlock(t, x, n, next, next[2]) /\ next[2] # "start"
    BY <1>3 DEF ForBlocks
  <2> QED BY <2>1 DEF ForBlock
<1>7. end # inc
  BY DEF Blk
<1>8. PICK rs \in SUBSET Counters(x, n) :
         Deinitialize(Originals(t, n, ss)) = ReleaseAll(rs) /\ (Good(t, c) => rs = Counters(x, n))
  <2>1. CASE ~x.decl
    <3>1. Originals(t, n, ss) = Scope({}) /\ Counters(x, n) = {}
      BY <2>1 DEF Originals, Counters
    <3>2. Deinitialize(Scope({})) = ReleaseAll({})
      BY DEF Deinitialize, Scope
    <3> QED BY <3>1, <3>2
  <2>2. CASE x.decl
    <3>1. Scoped(t, n)
      BY <1>2, <2>2
    <3>2. InnerScope(t, f, n)
      BY <3>1, OwnScope
    <3>3. Top(ss) \in ScopeRecords(t) /\ Top(ss).vals = {Blk(n, "copy")} /\ Len(ss) \in Nat \ {0} /\
          Top(ss) = ss[Len(ss)]
      <4>1. n \in ScopedIn(t, f) /\ \A m \in ScopedIn(t, f) : m <= n
        BY <3>2 DEF InnerScope
      <4> QED BY <1>1, <1>2, <4>1, ScopesTop
    <3>4. Good(t, c) => ~Top(ss).isDeinitialized
      <4>1. Good(t, c) => NoFlags(ss)
        <5>1. t[Top(f).node].kind \notin {"function", "block"}
          BY <1>1
        <5> QED BY <1>1, <5>1, NoFlagsHere
      <4>2. Len(ss) \in 1..Len(ss)
        BY <3>3
      <4> QED BY <3>3, <4>1, <4>2 DEF NoFlags
    <3>5. Originals(t, n, ss).vals = {Blk(n, "counter")} /\
          Originals(t, n, ss).isDeinitialized = Top(ss).isDeinitialized
      BY <2>2, <3>3 DEF Originals, ScopeRecords
    <3>6. Counters(x, n) = {Blk(n, "counter")} /\ {} \in SUBSET Counters(x, n)
      BY <2>2 DEF Counters
    <3>7. CASE Top(ss).isDeinitialized
      <4>1. Deinitialize(Originals(t, n, ss)) = ReleaseAll({})
        BY <3>5, <3>7 DEF Deinitialize, ReleaseAll
      <4> QED BY <3>4, <3>6, <3>7, <4>1
    <3>8. CASE ~Top(ss).isDeinitialized
      <4>1. Deinitialize(Originals(t, n, ss)) = ReleaseAll(Counters(x, n))
        BY <3>5, <3>6, <3>8 DEF Deinitialize
      <4> QED BY <4>1
    <3> QED BY <3>7, <3>8
  <2> QED BY <2>1, <2>2
<1>9. Counters(x, n) \in SUBSET NamesOf(t) /\ \A r \in Counters(x, n) : r[1] = n
  <2>1. "counter" \in Parts /\ 0 \in Nat
    BY DEF Parts
  <2>2. Blk(n, "counter") \in NamesOf(t) /\ Blk(n, "counter")[1] = n
    BY <1>1, <2>1, Names DEF Blk
  <2> QED BY <2>2 DEF Counters
<1>10. Now(t, g) = ScopeIn(t, n)
  BY <1>1, LeftIs
<1>11. Rested(t, f, c, b, e)
  BY BodyRests
<1>12. Fills(t, e, {}, {}, e) /\ (WellBlocks(e) => WellBlocks(c)) /\ \A y \in Expected(t, f) : Was(e, y) = <<>>
  BY <1>11 DEF Rested
<1>13. end \in Expected(t, f) /\ ("inc" \in x.opts => inc \in Expected(t, f))
  BY <1>2, OwnReserved
<1> HIDE DEF inc, end, next, e, c3, x
<1>14. Fills(t, e, F, F, it)
  <2>1. CASE "inc" \in x.opts
    <3>1. {next} \in SUBSET BlocksOf(t) /\ {next} \subseteq NamesOf(t) /\ ScopeIn(t, inc[1]) \subseteq HeldIn(t, inc)
          /\ \A y \in {next} : HeldIn(t, y) = HeldIn(t, inc)
      BY <1>5, <1>6, <2>1
    <3>2. inc \notin {} /\ inc \in NamesOf(t) /\ Was(e, inc) = <<>> /\ {} \cup {inc} = {inc}
      BY <1>5, <1>12, <1>13, <2>1
    <3>3. Fills(t, e, {} \cup {inc}, {} \cup {inc}, e ++ In(inc, <<Eval(inc), Br({next})>>))
      BY <1>12, <3>1, <3>2, FillTest
    <3>4. it = e ++ In(inc, <<Eval(inc), Br({next})>>)
      BY <2>1 DEF e, inc, next, x
    <3> QED BY <2>1, <3>2, <3>3, <3>4
  <2>2. CASE "inc" \notin x.opts
    <3>1. it = e
      BY <2>2 DEF e, x
    <3> QED BY <1>12, <2>2, <3>1
  <2> QED BY <2>1, <2>2
<1>15. end \notin F
  BY <1>7
<1> HIDE DEF F
<1>16. EndsLoop(t, g, e, it, F, F, end, ReleaseAll({}) \o ReleaseAll(rs))
  <2>1. {} \in SUBSET NamesOf(t) /\ rs \in SUBSET NamesOf(t)
    BY <1>8, <1>9
  <2>2. TidyIn(t) /\ CaughtIn(t) /\ WellBlocks(e) => Counters(x, n) \subseteq {} \cup rs
    BY <1>8, <1>12 DEF Good
  <2>3. Leftover(t, n, g, e, end, Counters(x, n), {}, rs)
    BY <1>4, <1>8, <1>9, <1>10, <1>12, <1>13, <2>2 DEF Leftover
  <2> QED BY <1>1, <1>14, <1>15, <2>1, <2>3, EndReleases
<1>17. c3 = it ++ In(end, ReleaseAll({}) \o ReleaseAll(rs))
  <2>1. ReleaseAll({}) = <<>>
    BY DEF ReleaseAll
  <2>2. rs \in SUBSET NamesOf(t)
    BY <1>8, <1>9
  <2>3. ReleaseAll(rs) \in Seq(Instructions(NamesOf(t)))
    BY <2>2, ReleaseNamed
  <2>4. ReleaseAll({}) \o ReleaseAll(rs) = ReleaseAll(rs)
    BY <2>1, <2>3
  <2> QED BY <1>8, <2>4 DEF c3
<1>18. Fills(t, e, F \cup {end}, F \cup {end}, c3) /\ end \in DOMAIN c3
       /\ (CaughtIn(t) /\ WellBlocks(c3) => PlaceIsRight(t, g, c3, end))
  BY <1>16, <1>17 DEF EndsLoop
<1>19. Reserved(t, n, slot) \subseteq DOMAIN c3
  BY <1>2, <1>18 DEF Fills
<1>20. Owned(F \cup {end}, n)
  BY <1>4, <1>5 DEF Owned, F
<1>21. Matches(t, g, Popped(t[n].kind \in LoopKinds, ex), ls, Popped(t[n].kind = "for", bs), ps,
               Popped(Scoped(t, n), ss), c3, end)
  <2>1. t[n].kind \notin {"function", "block"} /\ t[n].kind # "try"
    OBVIOUS
  <2> QED BY <1>4, <1>11, <1>18, <1>19, <1>20, <2>1, CloseFilled
<1>22. Matches(t, g, Pop(ex), ls, Pop(bs), ps, IF t[n].decl THEN Pop(ss) ELSE ss, c3, end)
  <2>1. Scoped(t, n) <=> t[n].decl
    BY <1>2 DEF x
  <2> QED BY <1>2, <1>21, <2>1 DEF Popped
<1> QED BY <1>22 DEF c3, end

(* The clauses of a switch, and the place of the one that is handled.      *)
LEMMA SwitchOrder ==
  ASSUME NEW t, Shaped(t), NEW n \in 1..Len(t), t[n].kind = "switch",
         NEW q, q = t[n].clauses, NEW o, o = Ordered(q), NEW slot, Fits(t, n, slot)
  PROVE  /\ Order(q, o, Cases(q)) /\ Len(q) \in Nat \ {0} /\ DOMAIN q = 1..Len(q) /\ slot \in 1..Len(q)
         /\ Len(o) = Len(q) /\ DOMAIN o = 1..Len(q) /\ \A k \in 1..Len(q) : o[k] \in 1..Len(q)
         /\ Position(o, slot) \in 1..Len(q) /\ o[Position(o, slot)] = slot
<1>1. t[n] \in NodeRecords /\ q # <<>> /\ \A j, k \in Defaults(q) : j = k
  <2>1. t \in Seq(NodeRecords)
    BY DEF Shaped
  <2>2. t[n] \in NodeRecords
    BY <2>1, Sequence
  <2> QED BY <2>2 DEF Shaped
<1>2. q \in Seq(Clauses)
  BY <1>1 DEF NodeRecords
<1>3. Order(q, o, Cases(q))
  BY <1>1, <1>2, OrderIs
<1>4. Len(q) \in Nat \ {0} /\ DOMAIN q = 1..Len(q) /\ o \in Seq(1..Len(q)) /\ Len(o) = Len(q) /\ DOMAIN o = 1..Len(q)
      /\ \A i \in 1..Len(q) : \E k \in 1..Len(q) : o[k] = i
  BY <1>3 DEF Order
<1>5. slot \in 1..Len(q)
  BY <1>4 DEF Fits
<1>6. \A k \in 1..Len(q) : o[k] \in 1..Len(q)
  <2>1. \A k \in 1..Len(o) : o[k] \in 1..Len(q)
    BY <1>4, Sequence
  <2> QED BY <1>4, <2>1
<1>7. \E k \in 1..Len(o) : o[k] = slot
  BY <1>4, <1>5
<1>8. Position(o, slot) \in 1..Len(o) /\ o[Position(o, slot)] = slot
  BY <1>7 DEF Position
<1> QED BY <1>3, <1>4, <1>5, <1>6, <1>8

(* A switch goes on to its next clause. *)
LEMMA NextClauseStep ==
  ASSUME NEW t, NEW f, NEW n, NEW slot, NEW ex, NEW ls, NEW bs, NEW ps, NEW ss, NEW c, NEW b,
         Working(t, f, n, slot, ex, ls, bs, ps, ss, c, b), t[n].kind = "switch",
         NEW o, o = Ordered(t[n].clauses), NEW k, k = Position(o, slot), k < Len(o),
         NEW next, next = o[k + 1], NEW g, g = Append(Pop(f), Frame(n, next))
  PROVE  Matches(t, g, ex, ls, bs, ps, ss, BrUnlessTerminated(c, b, Clause(n, next)), Clause(n, next)) /\ Nested(t, g)
<1> DEFINE y == Clause(n, next)  e == BrUnlessTerminated(c, b, y)  q == t[n].clauses  N == Len(q)
           R == Reserved(t, n, slot)  Q == Reserved(t, n, next)
           Rest(i) == {Clause(n, o[j]) : j \in {l \in DOMAIN o : \E m \in 1..(l - 1) : o[m] = i}}
           others == {Blk(n, "switch"), Blk(n, "end")}
           tests == {Test(n, i) : i \in Elements(Cases(q))}
<1>1. n \in 1..Len(t) /\ Ahead(t, n) \subseteq DOMAIN c
  BY OwnReserved
<1>2. Shaped(t) /\ Fits(t, n, slot)
  BY InnerIs DEF Working, Inner
<1>3. /\ Order(q, o, Cases(q)) /\ N \in Nat \ {0} /\ DOMAIN q = 1..N
      /\ Len(o) = N /\ DOMAIN o = 1..N /\ (\A i \in 1..N : o[i] \in 1..N) /\ k \in 1..N /\ o[k] = slot
  BY <1>1, <1>2, SwitchOrder, SMTT(60)
<1>4. k + 1 \in 1..N /\ next \in 1..N /\ next \in Nat /\ (k + 1) - 1 = k
  BY <1>3
<1>5. Fits(t, n, next)
  BY <1>3, <1>4 DEF Fits
<1>6. R = others \cup Rest(slot) \cup tests /\ Q = others \cup Rest(next) \cup tests
  BY DEF Reserved
<1>7. \A j, i \in 1..N : o[j] = o[i] => j = i
  BY <1>3 DEF Order
<1>8. y \in Rest(slot)
  <2>1. k \in 1..((k + 1) - 1) /\ o[k] = slot /\ k + 1 \in DOMAIN o
    BY <1>3, <1>4
  <2> QED BY <2>1
<1>9. Rest(next) \subseteq Rest(slot)
  <2> SUFFICES ASSUME NEW j \in DOMAIN o, NEW m \in 1..(j - 1), o[m] = next
               PROVE  \E i \in 1..(j - 1) : o[i] = slot
    OBVIOUS
  <2>1. j \in 1..N /\ m \in 1..N
    BY <1>3
  <2>2. m = k + 1
    BY <1>4, <1>7, <2>1
  <2>3. k \in 1..(j - 1)
    BY <1>3, <2>1, <2>2
  <2> QED BY <1>3, <2>3
<1>10. y \notin Q
  <2>1. y \notin others /\ y \notin tests
    BY DEF Clause, Test, Part, Blk
  <2>2. y \notin Rest(next)
    <3> SUFFICES ASSUME NEW j \in DOMAIN o, NEW m \in 1..(j - 1), o[m] = next, y = Clause(n, o[j])
                 PROVE  FALSE
      OBVIOUS
    <3>1. j \in 1..N /\ m \in 1..N /\ m # j
      BY <1>3
    <3>2. m = k + 1
      BY <1>4, <1>7, <3>1
    <3>3. o[j] = next
      BY DEF Clause, Part
    <3>4. j = k + 1
      BY <1>4, <1>7, <3>1, <3>3
    <3> QED BY <3>1, <3>2, <3>4
  <2> QED BY <1>6, <2>1, <2>2
<1>11. Ahead(t, n) = others \cup {Clause(n, i) : i \in 1..N}
  BY <1>3 DEF Ahead
<1>12. y \in Ahead(t, n) /\ Rest(slot) \subseteq Ahead(t, n)
  <2>1. \A j \in DOMAIN o : o[j] \in 1..N
    BY <1>3
  <2> QED BY <1>4, <1>11, <2>1
<1>13. y \in Made(t, n)
  <2>1. Clause(n, next) \in {Clause(n, i) : i \in DOMAIN q}
    BY <1>3, <1>4
  <2> QED BY <2>1 DEF Made
<1>14. SwitchBlock(t, n, y)
  BY <1>1, <1>4, SwitchBlocks
<1>15. y \in BlocksOf(t) /\ y \in NamesOf(t) /\ y[1] = n /\ y[2] # "pad" /\ HeldIn(t, y) = ScopeIn(t, n)
  BY <1>1, <1>13, <1>14 DEF BlocksOf, SwitchBlock
<1>16. t[n].kind \in {"if", "switch"}
  OBVIOUS
<1>17. Now(t, f) = ScopeIn(t, n) /\ Now(t, g) = ScopeIn(t, n)
  BY <1>4, <1>5, <1>16, NowMoved
<1> HIDE DEF y, e, R, Q, Rest, others, tests, q, N
<1>18. Rested(t, f, c, b, e)
  BY <1>15, <1>17, FallsThrough DEF e
<1>19. R \subseteq Expected(t, f) /\ Q \subseteq R /\ y \in R
  <2>1. R \subseteq Expected(t, f)
    BY OwnReserved DEF R
  <2> QED BY <1>6, <1>8, <1>9, <2>1
<1>20. Fills(t, e, {}, {}, e) /\ Only(c, b, e) /\ (\A z \in R : Was(e, z) = <<>>) /\ DOMAIN e = DOMAIN c
       /\ (WellBlocks(e) => WellBlocks(c))
  BY <1>18, <1>19 DEF Rested
<1>21. y \in DOMAIN e /\ e[y] = <<>>
  <2>1. y \in DOMAIN e
    BY <1>1, <1>12, <1>20
  <2> QED BY <1>19, <1>20, <2>1 DEF Was
<1>22. Touched(c, b, e, y, n)
  <2>1. y \in DOMAIN e /\ (y = b \/ (y[1] = n /\ y[2] # "pad"))
    BY <1>15, <1>21
  <2>2. \A x \in {} : x[1] = n /\ x[2] # "pad"
    OBVIOUS
  <2> QED BY <1>20, <2>1, <2>2, TouchedBy
<1>23. Written(NamesOf(t), Typing(t), e)
  BY <1>20 DEF Fills
<1>24. Vacated(t, n, slot, next, e, y)
  <2>1. \A z \in Q : z # y /\ Was(e, z) = <<>>
    BY <1>10, <1>19, <1>20
  <2>2. R \subseteq DOMAIN e \cup Q
    <3>1. others \cup Rest(slot) \subseteq DOMAIN e
      BY <1>1, <1>11, <1>12, <1>20
    <3> QED BY <1>6, <3>1
  <2> QED BY <2>1, <2>2 DEF Vacated, R, Q
<1>25. PlaceIsRight(t, g, e, y)
  <2>1. HeldIn(t, y) = Now(t, g)
    BY <1>15, <1>17
  <2> QED BY <1>21, <2>1, PlaceEmpty
<1>26. next \in Nat /\ (WellBlocks(e) => WellBlocks(c))
  BY <1>4, <1>20
<1>27. Matches(t, g, ex, ls, bs, ps, ss, e, y) /\ Nested(t, g)
  BY <1>5, <1>16, <1>22, <1>23, <1>24, <1>25, <1>26, MoveStep, ZenonT(60)
<1> QED BY <1>27 DEF e, y

(* Several blocks at once.                                                 *)
FillsIn(t, c, F, B, new) ==
  \A y \in B : /\ y \notin F /\ Was(c, y) = <<>> /\ new[y] \in Seq(Instructions(NamesOf(t)))
               /\ TypedSeq(Typing(t), HeldIn(t, y), new[y])

(* Several empty blocks are written at once. *)
LEMMA FillAll ==
  ASSUME NEW t, NEW c, NEW F, NEW D, NEW e, Fills(t, c, F, D, e),
         NEW B \in SUBSET NamesOf(t), NEW new, DOMAIN new = B, FillsIn(t, c, F, B, new)
  PROVE  Fills(t, c, F \cup B, D \cup B, e ++ new)
<1> DEFINE e2 == e ++ new  T == Typing(t)
<1>1. Written(NamesOf(t), T, e) /\ DOMAIN e = DOMAIN c \cup D /\ (\A x : x \notin F => Was(e, x) = Was(c, x))
      /\ (WellBlocks(e) => WellBlocks(c)) /\ F \subseteq D
  BY DEF Fills
<1>2. \A y \in B : T.held[y] = HeldIn(t, y)
  BY TypingIs
<1> HIDE DEF T
<1>3. Fillable(NamesOf(t), T, e, new)
  BY <1>1, <1>2 DEF Fillable, FillsIn, T
<1>4. AllFilled(NamesOf(t), T, e, new, e2)
  BY <1>1, <1>3, FillingAll
<1> HIDE DEF e2
<1>5. Written(NamesOf(t), T, e2) /\ DOMAIN e2 = DOMAIN e \cup B /\ (WellBlocks(e2) => WellBlocks(e))
      /\ \A x : Was(e2, x) = IF x \in B THEN new[x] ELSE Was(e, x)
  BY <1>4 DEF AllFilled
<1>6. \A x : x \notin F \cup B => Was(e2, x) = Was(c, x)
  BY <1>1, <1>5
<1>7. Fills(t, c, F \cup B, D \cup B, e2)
  BY <1>1, <1>5, <1>6 DEF Fills, T
<1> QED BY <1>7 DEF e2

(* A block that may evaluate something first, tests and branches is typed. *)
LEMMA TypedTest ==
  ASSUME NEW t, NEW x \in NamesOf(t), ScopeIn(t, x[1]) \subseteq HeldIn(t, x),
         NEW ts \in SUBSET BlocksOf(t), ts \subseteq NamesOf(t), \A y \in ts : HeldIn(t, y) = HeldIn(t, x),
         NEW d, d = <<>> \/ \E z \in NamesOf(t) : z[1] = x[1] /\ d = <<Eval(z)>>
  PROVE  /\ d \o <<Eval(x), Br(ts)>> \in Seq(Instructions(NamesOf(t)))
         /\ TypedSeq(Typing(t), HeldIn(t, x), d \o <<Eval(x), Br(ts)>>)
<1> DEFINE s == <<Eval(x), Br(ts)>>  h == HeldIn(t, x)  T == Typing(t)  I == Instructions(NamesOf(t))
<1>1. Runs(NamesOf(t), T, s, h, {}, h, {}) /\ s \in Seq(I)
  BY RunTest
<1>2. Leads(T, h, <<>>, h, {}) /\ <<>> \in Seq(I)
  BY Starting, EmptySeq
<1>3. d \in Seq(I) /\ Leads(T, h, d, h, {})
  <2>1. CASE d = <<>>
    BY <1>2, <2>1
  <2>2. CASE \E z \in NamesOf(t) : z[1] = x[1] /\ d = <<Eval(z)>>
    <3>1. PICK z \in NamesOf(t) : z[1] = x[1] /\ d = <<Eval(z)>>
      BY <2>2
    <3>2. Runs(NamesOf(t), T, d, h, {}, h, {}) /\ d \in Seq(I)
      BY <3>1, RunEval
    <3> HIDE DEF s, h, T, I
    <3>3. Leads(T, h, <<>> \o d, h, {})
      BY <1>2, <3>2 DEF Runs, I
    <3>4. <<>> \o d = d
      BY <3>2
    <3> QED BY <3>2, <3>3, <3>4
  <2> QED BY <2>1, <2>2
<1> HIDE DEF s, h, T, I
<1>4. Leads(T, h, d \o s, h, {})
  BY <1>1, <1>3 DEF Runs, I
<1>5. d \o s \in Seq(I)
  BY <1>1, <1>3, ConcatProperties
<1> QED BY <1>4, <1>5 DEF Leads, s, h, T, I

(* The conditions of a switch, one after the other.                        *)
SwitchNext(n, q, k) ==
  IF k < Len(Cases(q)) THEN Test(n, Cases(q)[k + 1])
  ELSE IF NamedDefault(q) = {} THEN Blk(n, "end") ELSE Clause(n, CHOOSE i \in NamedDefault(q) : TRUE)
Discriminant(n, opts) == IF "effect" \in opts THEN <<Eval(Blk(n, "discriminant"))>> ELSE <<>>
SwitchTest(n, q, y, d) ==
  LET k == CHOOSE j \in 1..Len(Cases(q)) : Test(n, Cases(q)[j]) = y
  IN d \o <<Eval(y), Br({Clause(n, Cases(q)[k]), SwitchNext(n, q, k)})>>
SwitchTests(n, q) == {Test(n, Cases(q)[k]) : k \in 1..Len(Cases(q))}

(* The blocks of a switch that has been read.                              *)
OfSwitch(t, n, y) == y \in BlocksOf(t) /\ y \in NamesOf(t) /\ y[1] = n /\ y[2] # "pad" /\ HeldIn(t, y) = ScopeIn(t, n)

(* The tests and branches of a switch go to blocks of its own. *)
LEMMA SwitchTargets ==
  ASSUME NEW t, Shaped(t), NEW n \in 1..Len(t), t[n].kind = "switch", NEW slot, Fits(t, n, slot),
         NEW q, q = t[n].clauses
  PROVE  /\ OfSwitch(t, n, Blk(n, "switch")) /\ OfSwitch(t, n, Blk(n, "end"))
         /\ \A y \in SwitchTests(n, q) : OfSwitch(t, n, y)
         /\ \A k \in 1..Len(Cases(q)) : OfSwitch(t, n, Clause(n, Cases(q)[k]))
         /\ \A k \in 0..Len(Cases(q)) : OfSwitch(t, n, SwitchNext(n, q, k))
         /\ SwitchTests(n, q) = {Test(n, i) : i \in Elements(Cases(q))}
         /\ Len(Cases(q)) \in Nat
<1> DEFINE o == Ordered(q)  cs == Cases(q)  N == Len(q)
<1>1. /\ Order(q, o, cs) /\ N \in Nat \ {0} /\ DOMAIN q = 1..N
      /\ Len(o) = N /\ DOMAIN o = 1..N /\ (\A i \in 1..N : o[i] \in 1..N)
  <2> DEFINE p == Ordered(q)
  <2>1. p = Ordered(q)
    OBVIOUS
  <2> HIDE DEF p
  <2>2. /\ Order(q, p, Cases(q)) /\ Len(q) \in Nat \ {0} /\ DOMAIN q = 1..Len(q)
        /\ Len(p) = Len(q) /\ DOMAIN p = 1..Len(q) /\ \A k \in 1..Len(q) : p[k] \in 1..Len(q)
    BY <2>1, SwitchOrder
  <2> QED BY <2>1, <2>2
<1>2. cs \in Seq(1..N) /\ Len(cs) \in Nat
  BY <1>1 DEF Order
<1>3. DOMAIN cs = 1..Len(cs) /\ \A k \in 1..Len(cs) : cs[k] \in 1..N
  BY <1>2, Sequence
<1> HIDE DEF cs, o, N
<1>4. \A i \in 1..N : i \in Nat
  BY <1>1
<1>5. \A i \in 1..N : OfSwitch(t, n, Clause(n, i))
  <2> SUFFICES ASSUME NEW i \in 1..N
               PROVE  OfSwitch(t, n, Clause(n, i))
    OBVIOUS
  <2>1. Clause(n, i) \in {Clause(n, j) : j \in DOMAIN q}
    BY <1>1
  <2>2. Clause(n, i) \in BlocksOf(t)
    BY <2>1 DEF Made, BlocksOf
  <2>3. SwitchBlock(t, n, Clause(n, i))
    BY <1>4, SwitchBlocks
  <2> QED BY <2>2, <2>3 DEF SwitchBlock, OfSwitch
<1>6. \A k \in 1..Len(cs) : OfSwitch(t, n, Test(n, cs[k]))
  <2> SUFFICES ASSUME NEW k \in 1..Len(cs)
               PROVE  OfSwitch(t, n, Test(n, cs[k]))
    OBVIOUS
  <2>1. cs[k] \in Elements(cs) /\ cs[k] \in Nat
    BY <1>3, <1>4 DEF Elements
  <2>2. Test(n, cs[k]) \in {Test(n, i) : i \in Elements(cs)}
    BY <2>1
  <2>3. Test(n, cs[k]) \in BlocksOf(t)
    <3>1. Test(n, cs[k]) \in Made(t, n)
      BY <2>2 DEF Made, cs
    <3> QED BY <3>1 DEF BlocksOf
  <2>4. SwitchBlock(t, n, Test(n, cs[k]))
    BY <2>1, SwitchBlocks
  <2> QED BY <2>3, <2>4 DEF SwitchBlock, OfSwitch
<1>7. OfSwitch(t, n, Blk(n, "switch")) /\ OfSwitch(t, n, Blk(n, "end"))
  <2>1. Blk(n, "switch") \in BlocksOf(t) /\ Blk(n, "end") \in BlocksOf(t)
    BY DEF Made, BlocksOf
  <2>2. SwitchBlock(t, n, Blk(n, "switch")) /\ SwitchBlock(t, n, Blk(n, "end"))
    BY SwitchBlocks
  <2> QED BY <2>1, <2>2 DEF SwitchBlock, OfSwitch
<1>8. \A k \in 0..Len(cs) : OfSwitch(t, n, SwitchNext(n, q, k))
  <2> SUFFICES ASSUME NEW k \in 0..Len(cs)
               PROVE  OfSwitch(t, n, SwitchNext(n, q, k))
    OBVIOUS
  <2>1. CASE k < Len(cs)
    <3>1. k + 1 \in 1..Len(cs) /\ SwitchNext(n, q, k) = Test(n, cs[k + 1])
      BY <1>2, <2>1 DEF SwitchNext, cs
    <3> QED BY <1>6, <3>1
  <2>2. CASE ~(k < Len(cs)) /\ NamedDefault(q) = {}
    BY <1>7, <2>2 DEF SwitchNext, cs
  <2>3. CASE ~(k < Len(cs)) /\ NamedDefault(q) # {}
    <3> DEFINE i == CHOOSE j \in NamedDefault(q) : TRUE
    <3>1. \A j \in NamedDefault(q) : j \in 1..N
      BY <1>1 DEF NamedDefault, o
    <3>2. i \in 1..N
      BY <2>3, <3>1
    <3>3. SwitchNext(n, q, k) = Clause(n, i)
      BY <2>3 DEF SwitchNext, cs
    <3> HIDE DEF i
    <3> QED BY <1>5, <3>2, <3>3
  <2> QED BY <2>1, <2>2, <2>3
<1>9. SwitchTests(n, q) = {Test(n, i) : i \in Elements(cs)}
  BY <1>3 DEF SwitchTests, Elements, cs
<1>10. \A y \in SwitchTests(n, q) : OfSwitch(t, n, y)
  BY <1>6 DEF SwitchTests, cs
<1>11. \A k \in 1..Len(cs) : OfSwitch(t, n, Clause(n, cs[k]))
  BY <1>3, <1>5
<1> QED BY <1>2, <1>7, <1>8, <1>9, <1>10, <1>11 DEF cs

(* A switch ends. *)
LEMMA CloseSwitchStep ==
  ASSUME NEW t, NEW f, NEW n, NEW slot, NEW ex, NEW ls, NEW bs, NEW ps, NEW ss, NEW c, NEW b,
         Working(t, f, n, slot, ex, ls, bs, ps, ss, c, b), t[n].kind = "switch", NEW g, g = Pop(f),
         NEW q, q = t[n].clauses, NEW d, d = Discriminant(n, t[n].opts)
  PROVE  Matches(t, g, ex, ls, bs, ps, ss,
                 BrUnlessTerminated(c, b, Blk(n, "end"))
                   ++ In(Blk(n, "switch"), <<Br({SwitchNext(n, q, 0)})>>)
                   ++ [y \in SwitchTests(n, q) |-> SwitchTest(n, q, y, d)],
                 Blk(n, "end"))
<1> DEFINE end == Blk(n, "end")  first == Blk(n, "switch")  e == BrUnlessTerminated(c, b, end)
           B == SwitchTests(n, q)  new == [y \in B |-> SwitchTest(n, q, y, d)]
           c1 == e ++ In(first, <<Br({SwitchNext(n, q, 0)})>>)
           c2 == c1 ++ new
           R == Reserved(t, n, slot)  F == {first} \cup B
<1>1. n \in 1..Len(t) /\ Ahead(t, n) \subseteq DOMAIN c
  BY OwnReserved
<1>2. Shaped(t) /\ Fits(t, n, slot)
  BY InnerIs DEF Working, Inner
<1>3. /\ OfSwitch(t, n, first) /\ OfSwitch(t, n, end)
      /\ \A y \in B : OfSwitch(t, n, y)
      /\ \A k \in 1..Len(Cases(q)) : OfSwitch(t, n, Clause(n, Cases(q)[k]))
      /\ \A k \in 0..Len(Cases(q)) : OfSwitch(t, n, SwitchNext(n, q, k))
      /\ B = {Test(n, i) : i \in Elements(Cases(q))}
      /\ Len(Cases(q)) \in Nat
  BY <1>1, <1>2, SwitchTargets
<1>4. end \notin B /\ first \notin B /\ end # first
  BY <1>3 DEF Test, Blk, Part
<1>5. Keeps(t, n, slot) = {} /\ ~Scoped(t, n) /\ t[n].kind \notin LoopKinds /\ t[n].kind # "for"
  BY DEF Keeps, Scoped, LoopKinds
<1>6. R \subseteq {first, end} \cup B \cup Ahead(t, n) /\ {first, end} \cup B \subseteq R
      /\ first \in Ahead(t, n) /\ end \in Ahead(t, n)
  <2> DEFINE o == Ordered(t[n].clauses)
             rest == {Clause(n, o[j]) : j \in {l \in DOMAIN o : \E k \in 1..(l - 1) : o[k] = slot}}
  <2>1. R = {first, end} \cup rest \cup B
    BY <1>3 DEF Reserved
  <2>2. Ahead(t, n) = {first, end} \cup {Clause(n, i) : i \in DOMAIN t[n].clauses}
    BY DEF Ahead
  <2>3. \A j \in DOMAIN o : o[j] \in DOMAIN t[n].clauses
    <3>1. /\ DOMAIN q = 1..Len(q) /\ DOMAIN o = 1..Len(q)
          /\ \A k \in 1..Len(q) : o[k] \in 1..Len(q)
      BY <1>1, <1>2, SwitchOrder, SMTT(60)
    <3> QED BY <3>1
  <2> QED BY <2>1, <2>2, <2>3
<1>7. Now(t, f) = ScopeIn(t, n)
  BY <1>5, HeldNow
<1>8. end \in BlocksOf(t) /\ end \in NamesOf(t) /\ end[1] = n /\ end[2] # "pad" /\ HeldIn(t, end) = ScopeIn(t, n)
      /\ first \in NamesOf(t) /\ first[1] = n /\ first[2] # "pad" /\ HeldIn(t, first) = ScopeIn(t, n)
  BY <1>3 DEF OfSwitch
<1> HIDE DEF end, first, e, B, new, c1, c2, R, F
<1>9. Rested(t, f, c, b, e)
  BY <1>7, <1>8, FallsThrough DEF e
<1>10. R \subseteq Expected(t, f)
  BY OwnReserved DEF R
<1>11. Fills(t, e, {}, {}, e) /\ (\A z \in R : Was(e, z) = <<>>) /\ DOMAIN e = DOMAIN c
  BY <1>9, <1>10 DEF Rested
<1>12. Was(e, first) = <<>> /\ Was(e, end) = <<>> /\ \A y \in B : Was(e, y) = <<>>
  BY <1>6, <1>11
<1>13. Fills(t, e, {first}, {first}, c1)
  <2>1. first \notin {} /\ {} \cup {first} = {first}
    OBVIOUS
  <2>2. 0 \in 0..Len(Cases(q))
    BY <1>3
  <2>3. OfSwitch(t, n, SwitchNext(n, q, 0))
    BY <1>3, <2>2
  <2> DEFINE ts == {SwitchNext(n, q, 0)}
  <2>4. ts \in SUBSET BlocksOf(t) /\ ts \subseteq NamesOf(t) /\ \A y \in ts : HeldIn(t, y) = HeldIn(t, first)
    BY <1>8, <2>3 DEF OfSwitch
  <2>5. Fills(t, e, {} \cup {first}, {} \cup {first}, c1)
    BY <1>8, <1>11, <1>12, <2>1, <2>4, FillBranch DEF c1
  <2> QED BY <2>1, <2>5
<1>14. DOMAIN new = B /\ \A y \in B : new[y] = SwitchTest(n, q, y, d)
  BY DEF new
<1>15. FillsIn(t, e, {first}, B, new)
  <2> SUFFICES ASSUME NEW y \in B
               PROVE  /\ new[y] \in Seq(Instructions(NamesOf(t)))
                      /\ TypedSeq(Typing(t), HeldIn(t, y), new[y])
    BY <1>4, <1>12 DEF FillsIn
  <2> DEFINE k == CHOOSE j \in 1..Len(Cases(q)) : Test(n, Cases(q)[j]) = y
             ts == {Clause(n, Cases(q)[k]), SwitchNext(n, q, k)}
  <2>1. k \in 1..Len(Cases(q))
    <3>1. \E j \in 1..Len(Cases(q)) : Test(n, Cases(q)[j]) = y
      BY DEF B, SwitchTests
    <3> QED BY <3>1
  <2>2. k \in 0..Len(Cases(q))
    BY <1>3, <2>1
  <2>3. new[y] = d \o <<Eval(y), Br(ts)>>
    BY <1>14 DEF SwitchTest
  <2> HIDE DEF k
  <2>4. OfSwitch(t, n, y) /\ OfSwitch(t, n, Clause(n, Cases(q)[k])) /\ OfSwitch(t, n, SwitchNext(n, q, k))
    BY <1>3, <2>1, <2>2
  <2>5. y \in NamesOf(t) /\ ScopeIn(t, y[1]) \subseteq HeldIn(t, y)
        /\ ts \in SUBSET BlocksOf(t) /\ ts \subseteq NamesOf(t) /\ \A z \in ts : HeldIn(t, z) = HeldIn(t, y)
    BY <2>4 DEF OfSwitch
  <2>6. d = <<>> \/ \E z \in NamesOf(t) : z[1] = y[1] /\ d = <<Eval(z)>>
    <3>1. Blk(n, "discriminant") \in NamesOf(t) /\ Blk(n, "discriminant")[1] = n
      BY <1>1, Names DEF Parts, Blk
    <3>2. y[1] = n
      BY <2>4 DEF OfSwitch
    <3> QED BY <3>1, <3>2 DEF Discriminant
  <2> HIDE DEF ts
  <2> QED BY <2>3, <2>5, <2>6, TypedTest
<1>16. B \in SUBSET NamesOf(t) /\ Owned(F, n)
  BY <1>3, <1>8 DEF OfSwitch, Owned, F
<1>17. Fills(t, e, F, F, c2)
  <2>1. Fills(t, e, {first} \cup B, {first} \cup B, c2)
    BY <1>13, <1>14, <1>15, <1>16, FillAll DEF c2
  <2> QED BY <2>1 DEF F
<1>18. DOMAIN c2 = DOMAIN e \cup F /\ \A x : x \notin F => Was(c2, x) = Was(e, x)
  BY <1>17 DEF Fills
<1>19. end \in DOMAIN c2 /\ R \subseteq DOMAIN c2 /\ end \notin F
  BY <1>1, <1>4, <1>6, <1>11, <1>18 DEF F
<1>20. c2[end] = <<>>
  BY <1>12, <1>18, <1>19 DEF Was
<1>21. t[n].kind \notin {"function", "block"} /\ t[n].kind # "try"
  OBVIOUS
<1>22. Matches(t, g, Popped(t[n].kind \in LoopKinds, ex), ls, Popped(t[n].kind = "for", bs), ps,
               Popped(Scoped(t, n), ss), c2, end)
  BY <1>8, <1>9, <1>16, <1>17, <1>19, <1>20, <1>21, CloseEmpty DEF R
<1>23. Matches(t, g, ex, ls, bs, ps, ss, c2, end)
  BY <1>5, <1>22 DEF Popped
<1> QED BY <1>23 DEF c2, c1, new, e, end, first, B

(* What a block gives back where it ends.                                  *)
LEMMA NowAfterBlock ==
  ASSUME NEW t, NEW f, NEW n, NEW slot, NEW ex, NEW ls, NEW bs, NEW ps, NEW ss, NEW c, NEW b,
         Working(t, f, n, slot, ex, ls, bs, ps, ss, c, b), t[n].kind = "block", NEW g, g = Pop(f)
  PROVE  /\ Now(t, f) = ScopeIn(t, n) \cup Keeps(t, n, slot)
         /\ Now(t, g) = Now(t, f) \ Declared(t, n)
<1> DEFINE p == t[n].parent
<1>1. Shaped(t) /\ Nested(t, f) /\ n = Top(f).node /\ slot = Top(f).slot
  BY DEF Working
<1>2. n \in 1..Len(t) /\ n # 1
  BY <1>1, InnerIs DEF Inner
<1>3. Now(t, f) = ScopeIn(t, n) \cup Keeps(t, n, slot)
  BY HeldNow
<1>4. Nested(t, g) /\ Fewer(t, f, g, n, slot) /\ Top(g).node = p /\ Top(g).slot = t[n].slot
  BY <1>1, LeftIs
<1>5. Kept(t, Opened(g)) = ScopeIn(t, n)
  BY <1>4 DEF Fewer
<1>6. Len(t) \in Nat /\ p \in 1..(n - 1) /\ p \in 1..Len(t) /\ p # n
  <2>1. p \in 0..(n - 1) /\ p # 0 /\ Len(t) \in Nat
    BY <1>1, <1>2, ShapedIsRooted DEF Shaped
  <2> QED BY <1>2, <2>1
<1>7. Openings(t, Opened(g), Top(g).node, Top(g).slot)
  BY <1>1, <1>4, Frames
<1>8. ScopeIn(t, n) = ScopeIn(t, p) \cup Keeps(t, p, t[n].slot)
  <2>1. KeptInside(t, Opened(g), Top(g).node, Top(g).slot)
    BY <1>7, OpenScopes
  <2>2. Kept(t, Opened(g)) = ScopeIn(t, Top(g).node) \cup Keeps(t, Top(g).node, Top(g).slot)
    BY <2>1 DEF KeptInside
  <2> QED BY <1>4, <1>5, <2>2
<1> HIDE DEF p
<1>9. (\A r \in ScopeIn(t, n) : r[1] # n) /\ (\A r \in ScopeIn(t, p) : r[1] # n /\ r[1] # p)
  <2>1. n \in 0..Len(t) /\ p \in 0..Len(t)
    BY <1>2, <1>6
  <2>2. (\A r \in ScopeIn(t, n) : r[1] \in 1..(n - 1)) /\ (\A r \in ScopeIn(t, p) : r[1] \in 1..(p - 1))
    BY <1>1, <2>1, ScopeBelow
  <2> QED BY <1>2, <1>6, <2>2
<1>10. /\ \A part : Blk(n, part)[1] = n /\ Blk(p, part)[1] = p
       /\ Blk(p, "caught") # Blk(p, "e")
  BY DEF Blk
<1>11. Keeps(t, n, slot) = IF t[n].decl THEN {Blk(n, "local")} ELSE {}
  BY DEF Keeps
<1> DEFINE inside == t[p].kind = "try" /\ t[n].slot = 2
<1>12. Declared(t, n) = (IF t[n].decl THEN {Blk(n, "local")} ELSE {})
                        \cup (IF n # 1 /\ t[p].kind = "try" /\ t[n].slot = 2 /\ "var" \in t[p].opts
                              THEN {Blk(p, "e")} ELSE {})
  BY DEF Declared, p
<1>13. CASE inside
  <2>1. Keeps(t, p, t[n].slot) = {Blk(p, "caught")} \cup (IF "var" \in t[p].opts THEN {Blk(p, "e")} ELSE {})
    BY <1>13 DEF Keeps
  <2>2. \E m \in 1..Len(t) : t[m].parent = Top(g).node /\ t[m].slot = 2
    BY <1>2, <1>4, <1>13 DEF p
  <2>3. Now(t, g) = ScopeIn(t, p) \cup {Blk(p, "caught")}
    BY <1>4, <1>13, <2>2 DEF Now
  <2>4. Declared(t, n) = Keeps(t, n, slot) \cup (IF "var" \in t[p].opts THEN {Blk(p, "e")} ELSE {})
    BY <1>2, <1>11, <1>12, <1>13
  <2>5. Now(t, f) \ Declared(t, n) = ScopeIn(t, p) \cup {Blk(p, "caught")}
    <3>1. \A r \in Keeps(t, n, slot) : r[1] = n
      BY <1>10, <1>11
    <3>2. Blk(p, "e") \notin ScopeIn(t, p) /\ Blk(p, "caught") \notin Keeps(t, n, slot)
      BY <1>6, <1>9, <1>10, <3>1
    <3>3. ScopeIn(t, p) \cap Keeps(t, n, slot) = {}
      BY <1>9, <3>1
    <3> HIDE DEF inside
    <3> QED BY <1>3, <1>8, <1>10, <2>1, <2>4, <3>2, <3>3
  <2> QED BY <1>3, <2>3, <2>5
<1>14. CASE ~inside
  <2>1. Now(t, g) = ScopeIn(t, n)
    BY <1>4, <1>5, <1>14 DEF Now
  <2>2. Declared(t, n) = Keeps(t, n, slot)
    BY <1>11, <1>12, <1>14
  <2>3. ScopeIn(t, n) \cap Keeps(t, n, slot) = {}
    BY <1>9, <1>10, <1>11
  <2> QED BY <1>3, <2>1, <2>2, <2>3
<1> QED BY <1>3, <1>13, <1>14

(* A block ends and releases what it declares. *)
LEMMA CloseBlockStep ==
  ASSUME NEW t, NEW f, NEW n, NEW slot, NEW ex, NEW ls, NEW bs, NEW ps, NEW ss, NEW c, NEW b,
         Working(t, f, n, slot, ex, ls, bs, ps, ss, c, b), t[n].kind = "block", NEW g, g = Pop(f)
  PROVE  Matches(t, g, ex, ls, bs, ps, Pop(ss), c ++ In(b, Deinitialize(Top(ss))), b)
<1> DEFINE s == Deinitialize(Top(ss))  c2 == c ++ In(b, s)  h == Held(t, c, b)  d == Gone(c, b)
<1>1. /\ Shaped(t) /\ Nested(t, f) /\ n = Top(f).node /\ slot = Top(f).slot
      /\ ScopesMatch(t, f, ss, c, b) /\ CodeMatches(t, f, c, b)
  BY DEF Working, Matches
<1>2. n \in 1..Len(t) /\ Grows(t, t)
  BY <1>1, InnerIs DEF Inner
<1>3. Scoped(t, n) /\ Reserved(t, n, slot) = {} /\ t[n].kind \notin LoopKinds /\ t[n].kind # "for" /\ t[n].kind # "try"
      /\ t[n].kind # "function"
  BY DEF Scoped, Reserved, LoopKinds
<1>4. Leaves(f, g, n, slot) /\ Fewer(t, f, g, n, slot)
  BY <1>1, <1>3, LeftIs
<1>5. PICK rs \in SUBSET Declared(t, n) : s = ReleaseAll(rs) /\ rs \in SUBSET NamesOf(t) /\
      (NoFlags(ss) => rs = Declared(t, n))
  BY <1>3, OwnScope
<1>6. Now(t, g) = Now(t, f) \ Declared(t, n)
  BY NowAfterBlock
<1>7. CaughtIn(t) /\ WellBlocks(c) /\ ~Terminated(c, b) =>
        Now(t, f) \subseteq h /\ (TidyIn(t) => h \subseteq Now(t, f))
  BY HeldNow
<1> HIDE DEF s, h, d
<1>8. Runs(NamesOf(t), Typing(t), s, h, d, h \ rs, d \cup rs)
  BY <1>5, Releasing
<1>9. s \in Seq(Instructions(NamesOf(t))) /\ (s # <<>> => s = <<Release(rs)>>)
  BY <1>5, ReleaseNamed DEF ReleaseAll
<1>10. Continued(t, c, b, s, h \ rs, d \cup rs, c2)
  <2>1. CaughtIn(t) /\ WellBlocks(c) /\ (s # <<>> => ~Terminated(c, b)) =>
          Runs(NamesOf(t), Typing(t), s, Held(t, c, b), Gone(c, b), h \ rs, d \cup rs)
    BY <1>8 DEF h, d
  <2> DEFINE h2 == h \ rs  d2 == d \cup rs
  <2>2. CaughtIn(t) /\ WellBlocks(c) /\ (s # <<>> => ~Terminated(c, b)) =>
          Runs(NamesOf(t), Typing(t), s, Held(t, c, b), Gone(c, b), h2, d2)
    BY <2>1
  <2> HIDE DEF h2, d2
  <2>3. Continued(t, c, b, s, h2, d2, c2)
    BY <1>1, <1>2, <1>9, <2>2, Emits
  <2> QED BY <2>3 DEF h2, d2
<1> HIDE DEF c2
<1>11. /\ Written(NamesOf(t), Typing(t), c2) /\ Only(c, b, c2) /\ b \in DOMAIN c2 /\ DOMAIN c2 = DOMAIN c
       /\ c2[b] = c[b] \o s /\ c[b] \in Seq(Instructions(NamesOf(t)))
       /\ (WellBlocks(c2) => WellBlocks(c) /\ (s # <<>> => ~Terminated(c, b)))
       /\ (CaughtIn(t) /\ WellBlocks(c2) => Held(t, c2, b) = h \ rs)
  BY <1>10 DEF Continued
<1>12. s = <<>> => c2[b] = c[b]
  BY <1>11, Joining
<1>13. s # <<>> => ~Terminated(c2, b)
  <2> SUFFICES ASSUME s # <<>>
               PROVE  ~Terminated(c2, b)
    OBVIOUS
  <2>1. Release(rs) \in Instructions(NamesOf(t)) /\ ~IsTerminator(Release(rs))
    BY <1>5 DEF Release, Instructions, IsTerminator
  <2>2. c2[b] = c[b] \o <<Release(rs)>>
    BY <1>9, <1>11
  <2>3. <<>> \in Seq(Instructions(NamesOf(t)))
    BY EmptySeq
  <2>4. Top(c[b] \o <<Release(rs)>>) = Release(rs)
    BY <1>11, <2>1, <2>3, EndOf
  <2> QED BY <2>1, <2>2, <2>4 DEF Terminated
<1>14. WellBlocks(c2) => (Terminated(c2, b) <=> Terminated(c, b))
  BY <1>11, <1>12, <1>13 DEF Terminated
<1>15. Touched(c, b, c2, b, n)
  BY <1>11 DEF Touched, Only
<1>16. ASSUME CaughtIn(t) /\ WellBlocks(c2)
       PROVE  PlaceIsRight(t, g, c2, b)
  <2>1. WellBlocks(c) /\ (Terminated(c2, b) <=> Terminated(c, b)) /\ Held(t, c2, b) = h \ rs
    BY <1>11, <1>14, <1>16
  <2>2. CASE Terminated(c, b)
    <3>1. c2[b] = c[b]
      BY <1>11, <1>12, <1>16, <2>2
    <3>2. PlaceIsRight(t, f, c, b)
      BY <1>1, <1>16, <2>1 DEF CodeMatches
    <3>3. OpenIn(t, g, Breakable \cup {"try"}) = OpenIn(t, f, Breakable \cup {"try"})
      <4>1. OpenIn(t, g, Breakable \cup {"try"}) = OpenIn(t, f, Breakable \cup {"try"}) \ {n}
        BY <1>4 DEF Fewer
      <4>2. n \notin OpenIn(t, f, Breakable \cup {"try"})
        <5>1. t[n].kind \notin Breakable \cup {"try"}
          BY <1>3 DEF Breakable
        <5> QED BY <5>1 DEF OpenIn
      <4> QED BY <4>1, <4>2
    <3> QED BY <2>1, <2>2, <3>1, <3>2, <3>3 DEF PlaceIsRight
  <2>3. CASE ~Terminated(c, b)
    <3>1. Now(t, f) \subseteq h /\ (TidyIn(t) => h \subseteq Now(t, f))
      BY <1>7, <1>16, <2>1, <2>3
    <3>2. Now(t, g) \subseteq h \ rs
      BY <1>5, <1>6, <3>1
    <3>3. TidyIn(t) => h \ rs \subseteq Now(t, g)
      <4> SUFFICES ASSUME TidyIn(t)
                   PROVE  h \ rs \subseteq Now(t, g)
        OBVIOUS
      <4>1. Good(t, c)
        BY <1>16, <2>1 DEF Good
      <4>2. NoFlags(ss)
        BY <1>1, <2>3, <4>1, NoFlagsHere
      <4> QED BY <1>5, <1>6, <3>1, <4>2
    <3> QED BY <2>1, <2>3, <3>2, <3>3 DEF PlaceIsRight, Held
  <2> QED BY <2>2, <2>3
<1>17. Stacked(t, g, ex, ls, bs, ps, c2, b)
  <2>1. Stacked(t, g, Popped(t[n].kind \in LoopKinds, ex), ls, Popped(t[n].kind = "for", bs), ps, c2, b)
    BY <1>3, <1>15, CloseStacks
  <2> QED BY <1>3, <2>1 DEF Popped
<1>18. CodeMatches(t, g, c2, b)
  <2>1. Reserved(t, n, slot) \subseteq DOMAIN c2
    BY <1>3
  <2> QED BY <1>3, <1>11, <1>15, <1>16, <2>1, CloseCode
<1>19. ScopesMatch(t, g, Pop(ss), c2, b)
  <2>1. Good(t, c2) => Good(t, c) /\ (NoFlags(ss) \/ (Terminated(c, b) => Terminated(c2, b)))
    BY <1>11, <1>14 DEF Good
  <2> QED BY <1>1, <1>3, <1>4, <2>1, ScopesPop
<1>20. Matches(t, g, ex, ls, bs, ps, Pop(ss), c2, b)
  BY <1>17, <1>18, <1>19 DEF Matches
<1> QED BY <1>20 DEF c2, s

-----------------------------------------------------------------------------
(* A try statement ends, or goes on to its catch clause *)

TryBlock(t, n, y) ==
  y \in BlocksOf(t) /\ y \in NamesOf(t) /\ y[1] = n /\ HeldIn(t, y) = ScopeIn(t, n)

(* The blocks of a try statement. *)
LEMMA TryBlocks ==
  ASSUME NEW t, NEW n \in 1..Len(t), t[n].kind = "try"
  PROVE  /\ TryBlock(t, n, Blk(n, "after")) /\ Blk(n, "after")[2] = "after"
         /\ TryBlock(t, n, Blk(n, "pad")) /\ Blk(n, "pad")[2] = "pad"
<1>1. Made(t, n) = {Blk(n, "try"), Blk(n, "pad"), Blk(n, "after")} /\ \A part : OwnHeld(t, n, part) = {}
  BY DEF Made, OwnHeld
<1>2. "after" \in Parts /\ "pad" \in Parts
  BY DEF Parts
<1>3. Inside1(t, n, "after") /\ Inside1(t, n, "pad")
  BY <1>1, <1>2, InsideIs
<1> QED BY <1>1, <1>3 DEF Inside1, TryBlock

(* The exception that a catch clause has handled is released.              *)
CaughtReleased(n, c, b) == IF Terminated(c, b) THEN <<>> ELSE <<Release({Blk(n, "caught")})>>

(* The end of a catch clause: the exception is released. *)
LEMMA CatchRests ==
  ASSUME NEW t, NEW f, NEW n, NEW slot, NEW ex, NEW ls, NEW bs, NEW ps, NEW ss, NEW c, NEW b,
         Working(t, f, n, slot, ex, ls, bs, ps, ss, c, b), t[n].kind = "try", slot = 2,
         NEW m \in 1..Len(t), t[m].parent = n, t[m].slot = 2
  PROVE  Rested(t, f, c, b, BrUnlessTerminated(c ++ In(b, CaughtReleased(n, c, b)), b, Blk(n, "after")))
<1> DEFINE y == Blk(n, "after")  s == CaughtReleased(n, c, b)  c1 == c ++ In(b, s)
           e == BrUnlessTerminated(c1, b, y)  T == Typing(t)
           rs == IF Terminated(c, b) THEN {} ELSE {Blk(n, "caught")}
           h == Held(t, c, b)  d == Gone(c, b)  h2 == h \ rs  d2 == d \cup rs
<1>1. /\ Shaped(t) /\ Nested(t, f) /\ n = Top(f).node /\ slot = Top(f).slot /\ CodeMatches(t, f, c, b)
  BY DEF Working, Matches
<1>2. n \in 1..Len(t) /\ Grows(t, t) /\ Len(t) \in Nat
  BY <1>1, InnerIs, ShapedIsRooted DEF Inner
<1>3. /\ Written(NamesOf(t), T, c) /\ b \in DOMAIN c /\ b \in NamesOf(t)
      /\ CaughtIn(t) /\ WellBlocks(c) /\ ~Terminated(c, b) =>
           Now(t, f) \subseteq h /\ (TidyIn(t) => h \subseteq Now(t, f))
  BY HeldNow
<1>4. Now(t, f) = ScopeIn(t, n) \cup {Blk(n, "caught")}
  <2>1. \E k \in 1..Len(t) : t[k].parent = Top(f).node /\ t[k].slot = 2
    BY <1>1
  <2> QED BY <1>1, <2>1 DEF Now
<1>5. TryBlock(t, n, y)
  BY <1>2, TryBlocks
<1>6. Blk(n, "caught") \notin ScopeIn(t, n) /\ Blk(n, "caught") \in NamesOf(t)
  <2>1. \A r \in ScopeIn(t, n) : r[1] \in 1..(n - 1)
    BY <1>1, <1>2, ScopeBelow
  <2>2. Blk(n, "caught")[1] = n /\ "caught" \in Parts /\ 0 \in Nat
    BY DEF Blk, Parts
  <2>3. n \notin 1..(n - 1)
    BY <1>2
  <2> QED BY <1>2, <2>1, <2>2, <2>3, Names
<1>7. T.caught = CaughtIn(t) /\ T.held[b] = HeldIn(t, b)
  BY <1>3, TypingIs
<1>8. s = IF Terminated(c, b) THEN <<>> ELSE <<Release(rs)>>
  BY DEF CaughtReleased
<1> HIDE DEF y, s, c1, e, T, h, d
<1>9. rs \in SUBSET NamesOf(t)
  BY <1>6
<1>10. s \in Seq(Instructions(NamesOf(t)))
  BY <1>8, <1>9, ReleaseNamed, EmptySeq
<1>11. Runs(NamesOf(t), T, s, h, d, h2, d2)
  <2>1. CASE Terminated(c, b)
    <3>1. s = <<>> /\ h2 = h /\ d2 = d
      BY <1>8, <2>1
    <3> HIDE DEF h2, d2
    <3> QED BY <3>1, RunNothing
  <2>2. CASE ~Terminated(c, b)
    BY <1>8, <1>9, <2>2, Releasing
  <2> QED BY <2>1, <2>2
<1> HIDE DEF h2, d2
<1>12. Continued(t, c, b, s, h2, d2, c1)
  <2>1. CaughtIn(t) /\ WellBlocks(c) /\ (s # <<>> => ~Terminated(c, b)) =>
          Runs(NamesOf(t), Typing(t), s, Held(t, c, b), Gone(c, b), h2, d2)
    BY <1>11 DEF h, d, T
  <2> QED BY <1>1, <1>2, <1>10, <2>1, Emits DEF c1
<1>13. /\ Written(NamesOf(t), T, c1) /\ Only(c, b, c1) /\ b \in DOMAIN c1 /\ DOMAIN c1 = DOMAIN c
       /\ c1[b] = c[b] \o s /\ c[b] \in Seq(Instructions(NamesOf(t)))
       /\ (WellBlocks(c1) => WellBlocks(c))
       /\ (CaughtIn(t) /\ WellBlocks(c1) => Held(t, c1, b) = h2)
  BY <1>12 DEF Continued, T
<1>14. ~Terminated(c1, b) => ~Terminated(c, b)
  <2>1. s = <<>> => c1[b] = c[b]
    BY <1>13, Joining
  <2> QED BY <1>8, <2>1 DEF Terminated
<1>15. T.caught /\ WellBlocks(c1) /\ ~Terminated(c1, b) => Expects(T, y, After(T.held[b], c1[b]))
  <2> SUFFICES ASSUME T.caught, WellBlocks(c1), ~Terminated(c1, b)
               PROVE  Expects(T, y, After(T.held[b], c1[b]))
    OBVIOUS
  <2>1. ~Terminated(c, b) /\ WellBlocks(c) /\ CaughtIn(t) /\ Held(t, c1, b) = h2
    BY <1>7, <1>13, <1>14
  <2>2. Now(t, f) \subseteq h /\ (TidyIn(t) => h \subseteq Now(t, f))
    BY <1>3, <2>1
  <2>3. HeldIn(t, y) \subseteq h2 /\ (TidyIn(t) => h2 \subseteq HeldIn(t, y))
    BY <1>4, <1>5, <1>6, <2>1, <2>2 DEF h2, TryBlock
  <2>4. Expects(T, y, h2)
    BY <1>5, <2>3, Reached DEF T, TryBlock
  <2> QED BY <1>7, <2>1, <2>4 DEF Held
<1>16. /\ Written(NamesOf(t), T, e) /\ DOMAIN e = DOMAIN c1
       /\ WellBlocks(e) => WellBlocks(c1)
       /\ \A x : x # b => Was(e, x) = Was(c1, x)
  <2>1. y \in NamesOf(t)
    BY <1>5 DEF TryBlock
  <2>2. Written(NamesOf(t), T, c1) /\ b \in DOMAIN c1
    BY <1>13
  <2>3. /\ Written(NamesOf(t), T, BrUnlessTerminated(c1, b, y))
        /\ DOMAIN BrUnlessTerminated(c1, b, y) = DOMAIN c1
        /\ \A x : x # b => Was(BrUnlessTerminated(c1, b, y), x) = Was(c1, x)
        /\ WellBlocks(BrUnlessTerminated(c1, b, y)) => WellBlocks(c1)
    BY <1>15, <2>1, <2>2, Ended
  <2> QED BY <2>3 DEF e
<1>17. Fills(t, e, {}, {}, e)
  BY <1>16, FillNone DEF T
<1>18. \A x \in Expected(t, f) : x # b /\ Was(c, x) = <<>>
  BY DEF Working, Matches, CodeMatches
<1>19. Rested(t, f, c, b, e)
  BY <1>13, <1>16, <1>17, <1>18 DEF Rested, Only
<1> QED BY <1>19 DEF e, c1, s, y

(* A try statement ends after its catch clause. *)
LEMMA CloseTryStep ==
  ASSUME NEW t, NEW f, NEW n, NEW slot, NEW ex, NEW ls, NEW bs, NEW ps, NEW ss, NEW c, NEW b,
         Working(t, f, n, slot, ex, ls, bs, ps, ss, c, b), t[n].kind = "try", slot = 2, NEW g, g = Pop(f),
         NEW m \in 1..Len(t), t[m].parent = n, t[m].slot = 2
  PROVE  Matches(t, g, ex, ls, bs, ps, ss,
                 BrUnlessTerminated(c ++ In(b, CaughtReleased(n, c, b)), b, Blk(n, "after")), Blk(n, "after"))
<1> DEFINE y == Blk(n, "after")  e == BrUnlessTerminated(c ++ In(b, CaughtReleased(n, c, b)), b, y)
<1>1. Rested(t, f, c, b, e)
  BY CatchRests
<1>2. n \in 1..Len(t)
  BY OwnReserved
<1>3. y \in BlocksOf(t) /\ y \in NamesOf(t) /\ y[1] = n /\ y[2] # "pad" /\ HeldIn(t, y) = ScopeIn(t, n)
  BY <1>2, TryBlocks DEF TryBlock
<1>4. Reserved(t, n, slot) = {y} /\ ~Scoped(t, n) /\ t[n].kind \notin LoopKinds /\ t[n].kind # "for"
  BY DEF Reserved, Scoped, LoopKinds
<1>5. y \in DOMAIN c
  <2>1. <<n, slot>> \in Opened(f) /\ CodeMatches(t, f, c, b)
    BY InnerIs DEF Inner, Working, Matches
  <2>2. AfterTry(t, <<n, slot>>, c)
    BY <2>1 DEF CodeMatches, Built
  <2> QED BY <2>2 DEF AfterTry
<1> HIDE DEF y, e
<1>6. y \in Expected(t, f)
  BY <1>4, OwnReserved
<1>7. Fills(t, e, {}, {}, e) /\ Owned({}, n) /\ Was(e, y) = <<>> /\ DOMAIN e = DOMAIN c
  BY <1>1, <1>6 DEF Rested, Owned
<1>8. y \in DOMAIN e /\ e[y] = <<>> /\ Reserved(t, n, slot) \subseteq DOMAIN e
  BY <1>4, <1>5, <1>7 DEF Was
<1>9. t[n].kind \notin {"function", "block"} /\ slot # 1
  OBVIOUS
<1>10. Matches(t, g, Popped(t[n].kind \in LoopKinds, ex), ls, Popped(t[n].kind = "for", bs), ps,
               Popped(Scoped(t, n), ss), e, y)
  BY <1>1, <1>3, <1>7, <1>8, <1>9, CloseEmpty
<1> QED BY <1>4, <1>10 DEF Popped, e, y

(* The landing pad of the innermost try statement is taken off the stack,  *)
(* or, after a try without a catch clause, the one that was left on it.    *)
LEMMA PadsTaken ==
  ASSUME NEW t, Shaped(t), NEW f, NEW g, NEW n \in OpenTries(t, f), OpenTries(t, f) \subseteq 1..n, n \in 1..Len(t),
         OpenTries(t, g) = OpenTries(t, f) \ {n}, "catch" \in t[n].opts,
         NEW ps, NEW c, NEW b, PadsMatch(t, f, ps, c, b),
         NEW c2, DOMAIN c \subseteq DOMAIN c2, \A y : y # b /\ y[2] = "pad" => Was(c2, y) = Was(c, y)
  PROVE  /\ PadsMatch(t, g, Pop(ps), c2, Top(ps))
         /\ Top(ps) \in DOMAIN c /\ Top(ps)[2] = "pad"
         /\ CaughtIn(t) => Top(ps) = Blk(n, "pad") /\ c2[Top(ps)] = <<>>
<1> DEFINE p0 == Top(ps)  qs == Pop(ps)
<1>1. ps \in Seq(NamesOf(t)) /\ Sorted(ps)
  BY DEF PadsMatch
<1>2. Blk(n, "pad") \in Elements(ps)
  BY DEF PadsMatch
<1>3. ps # <<>>
  BY <1>2 DEF Elements
<1>4. /\ qs \in Seq(NamesOf(t)) /\ p0 \in Elements(ps) /\ Elements(ps) = Elements(qs) \cup {p0}
      /\ Sorted(qs) /\ \A e \in Elements(qs) : e[1] < p0[1]
  BY <1>1, <1>3, SortedPop
<1>5. \A p \in Elements(ps) : /\ p = Blk(p[1], "pad") /\ t[p[1]].kind = "try"
                              /\ p \in DOMAIN c /\ Was(c, p) = <<>> /\ p # b
  BY DEF PadsMatch
<1>6. \A p \in Elements(ps) : p[1] \in 1..Len(t)
  BY <1>1, InElements DEF NamesOf
<1> HIDE DEF p0, qs
<1>7. n \in Int /\ p0[1] \in Int /\ \A p \in Elements(qs) : p[1] \in Int /\ p # p0
  BY <1>4, <1>6
<1>8. \A k \in Int : Blk(k, "pad")[1] = k /\ Blk(k, "pad")[2] = "pad"
  BY DEF Blk
<1>9. \A p \in Elements(ps) : p[2] = "pad" /\ p \in DOMAIN c2 /\ Was(c2, p) = <<>>
  <2> SUFFICES ASSUME NEW p \in Elements(ps)
               PROVE  p[2] = "pad" /\ p \in DOMAIN c2 /\ Was(c2, p) = <<>>
    OBVIOUS
  <2>1. p = Blk(p[1], "pad") /\ p[1] \in Int
    BY <1>5, <1>6
  <2>2. p[2] = "pad"
    BY <1>8, <2>1
  <2> QED BY <1>5, <2>2
<1>10. CaughtIn(t) => p0 = Blk(n, "pad")
  <2>1. OpenTries(t, f) \subseteq 1..Len(t)
    BY ShapedIsRooted
  <2>2. n \in Int /\ \A m \in OpenTries(t, f) : m <= n
    OBVIOUS
  <2> QED BY <2>1, <2>2, PadsTop DEF p0
<1>11. \A k \in OpenTries(t, g) : Blk(k, "pad") \in Elements(qs)
  <2> SUFFICES ASSUME NEW k \in OpenTries(t, g)
               PROVE  Blk(k, "pad") \in Elements(qs)
    OBVIOUS
  <2>1. k \in OpenTries(t, f) /\ k # n /\ k \in 1..n
    OBVIOUS
  <2>2. Blk(k, "pad") \in Elements(ps)
    BY <2>1 DEF PadsMatch
  <2>3. ASSUME Blk(k, "pad") = p0
        PROVE  FALSE
    <3>1. p0[1] = k
      BY <1>8, <2>1, <2>3
    <3>2. Blk(n, "pad") # p0
      BY <1>7, <1>8, <2>1, <3>1
    <3>3. Blk(n, "pad") \in Elements(qs)
      BY <1>2, <1>4, <3>2
    <3>4. n < k
      BY <1>4, <1>7, <1>8, <3>1, <3>3
    <3> QED BY <2>1, <3>4
  <2> QED BY <1>4, <2>2, <2>3
<1>12. CaughtIn(t) => \A p \in Elements(qs) : p[1] \in OpenTries(t, g)
  <2> SUFFICES ASSUME CaughtIn(t), NEW p \in Elements(qs)
               PROVE  p[1] \in OpenTries(t, g)
    OBVIOUS
  <2>1. p[1] < n
    BY <1>4, <1>7, <1>8, <1>10
  <2>2. p[1] \in OpenTries(t, f)
    BY <1>4 DEF PadsMatch
  <2> QED BY <1>7, <2>1, <2>2
<1>13. ASSUME NEW k \in 1..Len(t), t[k].kind = "try", "catch" \notin t[k].opts, k \notin OpenTries(t, g)
       PROVE  \E p \in Elements(qs) : p[1] \notin OpenTries(t, g)
  <2>1. k # n /\ k \notin OpenTries(t, f)
    BY <1>13
  <2>2. PICK p \in Elements(ps) : p[1] \notin OpenTries(t, f)
    BY <1>13, <2>1 DEF PadsMatch
  <2>3. CASE p \in Elements(qs)
    BY <2>2, <2>3
  <2>4. CASE p = p0
    <3>1. Blk(n, "pad")[1] = n
      BY <1>7, <1>8
    <3>2. Blk(n, "pad") \in Elements(qs)
      BY <1>2, <1>4, <2>2, <2>4, <3>1
    <3> QED BY <3>1, <3>2
  <2> QED BY <1>4, <2>3, <2>4
<1>14. \A p \in Elements(qs) : /\ p = Blk(p[1], "pad") /\ t[p[1]].kind = "try"
                               /\ p \in DOMAIN c2 /\ Was(c2, p) = <<>> /\ p # p0
  BY <1>4, <1>5, <1>7, <1>9
<1>15. PadsMatch(t, g, qs, c2, p0)
  BY <1>4, <1>11, <1>12, <1>13, <1>14 DEF PadsMatch
<1>16. p0 \in DOMAIN c /\ p0[2] = "pad"
  BY <1>4, <1>5, <1>9
<1>17. CaughtIn(t) => p0 = Blk(n, "pad") /\ c2[p0] = <<>>
  BY <1>4, <1>9, <1>10 DEF Was
<1> QED BY <1>15, <1>16, <1>17 DEF p0, qs

(* The code of the catch clause begins in the landing pad.                 *)
LEMMA CatchStep ==
  ASSUME NEW t, NEW f, NEW n, NEW slot, NEW ex, NEW ls, NEW bs, NEW ps, NEW ss, NEW c, NEW b,
         Working(t, f, n, slot, ex, ls, bs, ps, ss, c, b), t[n].kind = "try", slot = 1, "catch" \in t[n].opts,
         NEW g, g = Append(Pop(f), Frame(n, 2))
  PROVE  Matches(t, g, ex, ls, bs, Pop(ps), ss,
                 BrUnlessTerminated(c, b, Blk(n, "after")) ++ In(Blk(n, "after"), <<>>), Top(ps)) /\ Nested(t, g)
<1> DEFINE y == Blk(n, "after")  e == BrUnlessTerminated(c, b, y)  c2 == e ++ In(y, <<>>)  p0 == Top(ps)
<1>1. Shaped(t) /\ Nested(t, f) /\ n = Top(f).node /\ slot = Top(f).slot
      /\ Stacked(t, f, ex, ls, bs, ps, c, b) /\ ScopesMatch(t, f, ss, c, b) /\ CodeMatches(t, f, c, b)
  BY DEF Working, Matches
<1>2. Inner(t, f, n, slot)
  BY <1>1, InnerIs
<1>3. n # 1 /\ n \in 1..Len(t) /\ Grows(t, t) /\ <<n, slot>> \in Opened(f)
  BY <1>2 DEF Inner
<1>4. Fits(t, n, 2) /\ 2 \in Nat /\ Top(f).slot <= 2
  BY <1>1 DEF Fits
<1>5. Nested(t, g) /\ GoesOn(f, g, n, slot, 2) /\ Top(g) = Frame(n, 2)
  BY <1>1, <1>3, <1>4, Moved DEF GoesOn
<1>6. Shifted(t, f, g, n, slot, 2)
  BY <1>1, <1>5, MovedSets
<1>7. TryBlock(t, n, y) /\ y[2] = "after" /\ TryBlock(t, n, Blk(n, "pad")) /\ Blk(n, "pad")[2] = "pad"
  BY <1>3, TryBlocks
<1>8. \A s : Reserved(t, n, s) = {y}
  BY DEF Reserved
<1>9. Now(t, f) = ScopeIn(t, n)
  <2>1. Keeps(t, n, slot) = {}
    BY DEF Keeps
  <2>2. Now(t, f) = ScopeIn(t, n) \cup Keeps(t, n, slot)
    BY HeldNow
  <2> QED BY <2>1, <2>2
<1>10. Now(t, g) = ScopeIn(t, n) /\ ~\E m \in 1..Len(t) : t[m].parent = n /\ t[m].slot = 2
  <2>1. \A m \in 1..Len(t) : t[m].parent = n => t[m].slot <= 1
    <3>1. Len(f) \in DOMAIN f /\ f[Len(f)] = Top(f)
      BY <1>1, Frames, Sequence, SMTT(60) DEF Nested
    <3>2. NestedAt(t, f, Len(f))
      BY <1>1, <3>1 DEF Nested
    <3> QED BY <1>1, <3>1, <3>2 DEF NestedAt
  <2>2. ~\E m \in 1..Len(t) : t[m].parent = n /\ t[m].slot = 2
    BY <2>1
  <2>3. Top(g).node = n /\ Top(g).slot = 2
    BY <1>5 DEF Frame
  <2> QED BY <2>2, <2>3 DEF Now
<1> HIDE DEF y, e, c2, p0
<1>11. Rested(t, f, c, b, e)
  <2>1. y \in NamesOf(t) /\ y \in BlocksOf(t) /\ HeldIn(t, y) = Now(t, f)
    BY <1>7, <1>9 DEF TryBlock
  <2> QED BY <2>1, FallsThrough DEF e
<1>12. y \in Expected(t, f)
  <2>1. y \in Reserved(t, n, slot)
    BY <1>8
  <2> QED BY <2>1, OwnReserved
<1>13. /\ Fills(t, e, {}, {}, e) /\ Was(e, y) = <<>> /\ Only(c, b, e) /\ DOMAIN e = DOMAIN c
       /\ (WellBlocks(e) => WellBlocks(c)) /\ \A x \in Expected(t, f) : Was(e, x) = <<>>
  BY <1>11, <1>12 DEF Rested
<1>14. Fills(t, e, {}, {y}, c2) /\ c2[y] = <<>>
  <2>1. y \in NamesOf(t) /\ y \notin {} /\ {} \cup {y} = {y}
    BY <1>7 DEF TryBlock
  <2>2. Fills(t, e, {}, {}, e) /\ Was(e, y) = <<>>
    BY <1>13
  <2>3. Fills(t, e, {}, {} \cup {y}, c2) /\ c2[y] = <<>>
    BY <2>1, <2>2, FillEmpty, SMTT(60) DEF c2
  <2> QED BY <2>1, <2>3
<1>15. /\ Written(NamesOf(t), Typing(t), c2) /\ DOMAIN c2 = DOMAIN c \cup {y}
       /\ (\A x : Was(c2, x) = Was(e, x)) /\ (WellBlocks(c2) => WellBlocks(c))
  BY <1>13, <1>14 DEF Fills
<1>16. \A x : x # b => Was(c2, x) = Was(c, x)
  BY <1>13, <1>15 DEF Only
<1>17. Expected(t, g) = Expected(t, f)
  <2>1. \A x : x \in Expected(t, f) <=> \E o \in Opened(f) : x \in Reserved(t, o[1], o[2])
    BY Readings
  <2>2. \A x : x \in Expected(t, g) <=> \E o \in Opened(g) : x \in Reserved(t, o[1], o[2])
    BY Readings
  <2>3. <<n, slot>>[1] = n /\ <<n, 2>>[1] = n /\ <<n, 2>> \in Opened(g)
    BY <1>6 DEF Shifted
  <2>4. \A o : o[1] = n => Reserved(t, o[1], o[2]) = {y}
    BY <1>8
  <2>5. \A o \in Opened(g) : o \in Opened(f) \/ o = <<n, 2>>
    BY <1>5 DEF GoesOn
  <2>6. \A o \in Opened(f) : o \in Opened(g) \/ o = <<n, slot>>
    BY <1>5 DEF GoesOn
  <2>7. \A x : x \in Expected(t, f) => x \in Expected(t, g)
    BY <2>1, <2>2, <2>3, <2>4, <2>6
  <2>8. \A x : x \in Expected(t, g) => x \in Expected(t, f)
    BY <1>3, <2>1, <2>2, <2>3, <2>4, <2>5
  <2> QED BY <2>7, <2>8
<1>18. /\ PadsMatch(t, g, Pop(ps), c2, p0)
       /\ p0 \in DOMAIN c /\ p0[2] = "pad"
       /\ CaughtIn(t) => p0 = Blk(n, "pad") /\ c2[p0] = <<>>
  <2>1. \A k : k \in OpenTries(t, f) <=> \E o \in Opened(f) : k = o[1] /\ t[o[1]].kind = "try" /\ o[2] = 1
    BY Readings
  <2>2. <<n, slot>>[1] = n /\ <<n, slot>>[2] = 1
    OBVIOUS
  <2>3. n \in OpenTries(t, f)
    BY <1>3, <2>1, <2>2
  <2>4. OpenTries(t, f) \subseteq 1..n
    <3>1. \A o \in Opened(f) : o[1] \in 1..Len(t) /\ o[1] <= n
      BY <1>1, Frames DEF Openings
    <3> QED BY <1>3, <2>1, <3>1
  <2>5. OpenTries(t, g) = OpenTries(t, f) \ {n}
    BY <1>6 DEF Shifted
  <2>6. DOMAIN c \subseteq DOMAIN c2 /\ \A x : x # b /\ x[2] = "pad" => Was(c2, x) = Was(c, x)
    BY <1>15, <1>16
  <2>7. PadsMatch(t, f, ps, c, b)
    BY <1>1 DEF Stacked
  <2> QED BY <1>1, <1>3, <2>3, <2>4, <2>5, <2>6, <2>7, PadsTaken DEF p0
<1>19. CodeMatches(t, g, c2, p0)
  <2>1. p0 \in DOMAIN c2
    BY <1>15, <1>18
  <2>2. BlocksOf(t) \subseteq DOMAIN c2 \cup Expected(t, g)
    BY <1>1, <1>15, <1>17 DEF CodeMatches
  <2>3. Built(t, g, c2)
    <3>1. \A o \in Opened(f) : Ahead(t, o[1]) \subseteq DOMAIN c /\ AfterTry(t, o, c)
      BY <1>1 DEF CodeMatches, Built
    <3>2. \A o \in Opened(f) : Ahead(t, o[1]) \subseteq DOMAIN c2 /\ AfterTry(t, o, c2)
      BY <1>15, <3>1 DEF AfterTry
    <3>3. <<n, 2>>[1] = n
      OBVIOUS
    <3>4. Ahead(t, n) = {}
      BY DEF Ahead
    <3>5. AfterTry(t, <<n, 2>>, c2)
      BY <1>15, <3>3 DEF AfterTry, y
    <3>6. \A o \in Opened(g) : o \in Opened(f) \/ o = <<n, 2>>
      BY <1>5 DEF GoesOn
    <3> QED BY <3>2, <3>3, <3>4, <3>5, <3>6 DEF Built
  <2>4. \A x \in Expected(t, g) : x # p0 /\ Was(c2, x) = <<>>
    <3>1. \A x \in Expected(t, f) : x[2] # "pad"
      BY ExpectedOwn
    <3> QED BY <1>13, <1>15, <1>17, <1>18, <3>1
  <2>5. CaughtIn(t) => CatchBegins(t, g, c2, p0)
    <3>1. Top(g).node = n
      BY <1>5 DEF Frame
    <3> QED BY <1>18, <3>1 DEF CatchBegins
  <2>6. CaughtIn(t) => PlaceIsRight(t, g, c2, p0)
    <3>1. HeldIn(t, Blk(n, "pad")) = Now(t, g)
      BY <1>7, <1>10 DEF TryBlock
    <3> QED BY <1>18, <3>1, PlaceEmpty
  <2> QED BY <1>15, <2>1, <2>2, <2>3, <2>4, <2>5, <2>6 DEF CodeMatches
<1>20. Stacked(t, g, ex, ls, bs, Pop(ps), c2, p0)
  <2>1. \A kinds : OpenIn(t, g, kinds) = OpenIn(t, f, kinds)
    BY <1>6 DEF Shifted
  <2>2. ExitsMatch(t, f, ex) /\ LatchesMatch(t, ls) /\ BodyExitsMatch(t, f, bs)
    BY <1>1 DEF Stacked
  <2>3. OpenIn(t, g, Breakable) = OpenIn(t, f, Breakable) /\ OpenIn(t, g, {"for"}) = OpenIn(t, f, {"for"})
    BY <2>1
  <2>4. ExitsMatch(t, g, ex)
    BY <1>3, <2>2, <2>3, ExitsKept
  <2>5. BodyExitsMatch(t, g, bs)
    BY <1>3, <2>2, <2>3, BodyExitsKept
  <2> QED BY <1>18, <2>2, <2>4, <2>5 DEF Stacked
<1>21. ScopesMatch(t, g, ss, c2, p0)
  <2>1. Good(t, c2) => Good(t, c) /\ NoFlags(ss)
    <3> SUFFICES ASSUME Good(t, c2)
                 PROVE  Good(t, c) /\ NoFlags(ss)
      OBVIOUS
    <3>1. Good(t, c)
      BY <1>15 DEF Good
    <3>2. t[Top(f).node].kind \notin {"function", "block"}
      BY <1>1
    <3> QED BY <1>1, <3>1, <3>2, NoFlagsHere
  <2>2. ScopedIn(t, g) = ScopedIn(t, f) /\ \A o \in Opened(f) : t[o[1]] = t[o[1]]
    BY <1>6 DEF Shifted
  <2> QED BY <1>1, <1>3, <2>1, <2>2, ScopesKept
<1>22. Matches(t, g, ex, ls, bs, Pop(ps), ss, c2, p0) /\ Nested(t, g)
  BY <1>5, <1>19, <1>20, <1>21 DEF Matches
<1> QED BY <1>22 DEF c2, e, y, p0

(* Without a catch clause the pad stays on the stack, and what is thrown   *)
(* inside the statement is caught by nobody.                               *)
LEMMA PadsLeft ==
  ASSUME NEW t, Shaped(t), NEW f, NEW g, NEW n \in OpenTries(t, f), n \in 1..Len(t),
         OpenTries(t, g) = OpenTries(t, f) \ {n}, t[n].kind = "try", "catch" \notin t[n].opts,
         NEW ps, NEW c, NEW b, PadsMatch(t, f, ps, c, b),
         NEW c2, NEW b2, Touched(c, b, c2, b2, n), b2[2] # "pad"
  PROVE  PadsMatch(t, g, ps, c2, b2)
<1>1. ps \in Seq(NamesOf(t)) /\ Sorted(ps) /\ Blk(n, "pad") \in Elements(ps)
  BY DEF PadsMatch
<1>2. \A p \in Elements(ps) : /\ p = Blk(p[1], "pad") /\ t[p[1]].kind = "try"
                              /\ p \in DOMAIN c /\ Was(c, p) = <<>> /\ p # b
  BY DEF PadsMatch
<1>3. \A k : Blk(k, "pad")[1] = k /\ Blk(k, "pad")[2] = "pad"
  BY DEF Blk
<1>4. \A p \in Elements(ps) : p[2] = "pad"
  BY <1>2, <1>3
<1>5. \A p \in Elements(ps) : /\ p = Blk(p[1], "pad") /\ t[p[1]].kind = "try"
                              /\ p \in DOMAIN c2 /\ Was(c2, p) = <<>> /\ p # b2
  BY <1>2, <1>4 DEF Touched
<1>6. \A k \in OpenTries(t, g) : Blk(k, "pad") \in Elements(ps)
  BY DEF PadsMatch
<1>7. ~CaughtIn(t)
  BY DEF CaughtIn
<1>8. \E p \in Elements(ps) : p[1] \notin OpenTries(t, g)
  <2>1. Blk(n, "pad")[1] \notin OpenTries(t, g)
    BY <1>3
  <2> QED BY <1>1, <2>1
<1> QED BY <1>1, <1>5, <1>6, <1>7, <1>8 DEF PadsMatch

(* A try statement without a catch clause ends. *)
LEMMA CloseTryWithoutCatchStep ==
  ASSUME NEW t, NEW f, NEW n, NEW slot, NEW ex, NEW ls, NEW bs, NEW ps, NEW ss, NEW c, NEW b,
         Working(t, f, n, slot, ex, ls, bs, ps, ss, c, b), t[n].kind = "try", slot = 1, "catch" \notin t[n].opts,
         NEW g, g = Pop(f)
  PROVE  Matches(t, g, ex, ls, bs, ps, ss,
                 BrUnlessTerminated(c, b, Blk(n, "after")) ++ In(Blk(n, "after"), <<>>), Blk(n, "after"))
<1> DEFINE y == Blk(n, "after")  e == BrUnlessTerminated(c, b, y)  c2 == e ++ In(y, <<>>)
<1>1. Shaped(t) /\ Nested(t, f) /\ n = Top(f).node /\ slot = Top(f).slot
      /\ Stacked(t, f, ex, ls, bs, ps, c, b) /\ ScopesMatch(t, f, ss, c, b) /\ CodeMatches(t, f, c, b)
  BY DEF Working, Matches
<1>2. Inner(t, f, n, slot)
  BY <1>1, InnerIs
<1>3. n # 1 /\ n \in 1..Len(t) /\ Grows(t, t) /\ <<n, slot>> \in Opened(f)
  BY <1>2 DEF Inner
<1>4. Fewer(t, f, g, n, slot)
  BY <1>1, LeftIs
<1>5. \A o \in Opened(f) : o[1] = n => o = <<n, slot>>
  BY <1>4 DEF Fewer
<1>6. \A kinds : t[n].kind \notin kinds => OpenIn(t, g, kinds) = OpenIn(t, f, kinds)
  <2> SUFFICES ASSUME NEW kinds, t[n].kind \notin kinds
               PROVE  OpenIn(t, g, kinds) = OpenIn(t, f, kinds)
    OBVIOUS
  <2>1. \A k : k \in OpenIn(t, f, kinds) <=> \E o \in Opened(f) : k = o[1] /\ t[o[1]].kind \in kinds
    BY Readings
  <2>2. n \notin OpenIn(t, f, kinds)
    BY <2>1
  <2>3. OpenIn(t, g, kinds) = OpenIn(t, f, kinds) \ {n}
    BY <1>4 DEF Fewer
  <2> QED BY <2>2, <2>3
<1>7. TryBlock(t, n, y) /\ y[2] = "after" /\ ~CaughtIn(t)
  BY <1>3, TryBlocks DEF CaughtIn
<1>8. Reserved(t, n, slot) = {y}
  BY DEF Reserved
<1>9. Now(t, f) = ScopeIn(t, n)
  <2>1. Keeps(t, n, slot) = {}
    BY DEF Keeps
  <2>2. Now(t, f) = ScopeIn(t, n) \cup Keeps(t, n, slot)
    BY HeldNow
  <2> QED BY <2>1, <2>2
<1> HIDE DEF y, e, c2
<1>10. Rested(t, f, c, b, e)
  <2>1. y \in NamesOf(t) /\ y \in BlocksOf(t) /\ HeldIn(t, y) = Now(t, f)
    BY <1>7, <1>9 DEF TryBlock
  <2> QED BY <2>1, FallsThrough DEF e
<1>11. y \in Expected(t, f)
  <2>1. y \in Reserved(t, n, slot)
    BY <1>8
  <2> QED BY <2>1, OwnReserved
<1>12. Fills(t, e, {}, {}, e) /\ Was(e, y) = <<>> /\ Only(c, b, e)
  BY <1>10, <1>11 DEF Rested
<1>13. Fills(t, e, {}, {y}, c2)
  <2>1. y \in NamesOf(t) /\ y \notin {} /\ {} \cup {y} = {y}
    BY <1>7 DEF TryBlock
  <2>2. Fills(t, e, {}, {} \cup {y}, c2)
    BY <1>12, <2>1, FillEmpty DEF c2
  <2> QED BY <2>1, <2>2
<1>14. Written(NamesOf(t), Typing(t), c2) /\ y \in DOMAIN c2
  BY <1>13 DEF Fills
<1>15. Touched(c, b, c2, y, n)
  <2>1. \A x \in {} : x[1] = n /\ x[2] # "pad"
    OBVIOUS
  <2>2. y = b \/ (y[1] = n /\ y[2] # "pad")
    BY <1>7 DEF TryBlock
  <2> QED BY <1>12, <1>13, <1>14, <2>1, <2>2, TouchedBy
<1>16. CodeMatches(t, g, c2, y)
  <2>1. Reserved(t, n, slot) \subseteq DOMAIN c2
    BY <1>8, <1>14
  <2>2. CaughtIn(t) /\ WellBlocks(c2) => PlaceIsRight(t, g, c2, y)
    BY <1>7
  <2>3. t[n].kind # "function"
    OBVIOUS
  <2> QED BY <1>14, <1>15, <2>1, <2>2, <2>3, CloseCode
<1>17. PadsMatch(t, g, ps, c2, y)
  <2>1. \A k : k \in OpenTries(t, f) <=> \E o \in Opened(f) : k = o[1] /\ t[o[1]].kind = "try" /\ o[2] = 1
    BY Readings
  <2>2. <<n, slot>>[1] = n /\ <<n, slot>>[2] = 1
    OBVIOUS
  <2>3. n \in OpenTries(t, f)
    BY <1>3, <2>1, <2>2
  <2>4. OpenTries(t, g) = OpenTries(t, f) \ {n}
    BY <1>4 DEF Fewer
  <2>5. y[2] # "pad" /\ PadsMatch(t, f, ps, c, b)
    BY <1>1, <1>7 DEF Stacked
  <2> QED BY <1>1, <1>3, <1>15, <2>3, <2>4, <2>5, PadsLeft
<1>18. Stacked(t, g, ex, ls, bs, ps, c2, y)
  <2>1. ExitsMatch(t, f, ex) /\ LatchesMatch(t, ls) /\ BodyExitsMatch(t, f, bs)
    BY <1>1 DEF Stacked
  <2>2. t[n].kind \notin Breakable /\ t[n].kind \notin {"for"}
    BY DEF Breakable, LoopKinds
  <2>3. OpenIn(t, g, Breakable) = OpenIn(t, f, Breakable) /\ OpenIn(t, g, {"for"}) = OpenIn(t, f, {"for"})
    BY <1>6, <2>2
  <2>4. ExitsMatch(t, g, ex)
    BY <1>3, <2>1, <2>3, ExitsKept
  <2>5. BodyExitsMatch(t, g, bs)
    BY <1>3, <2>1, <2>3, BodyExitsKept
  <2> QED BY <1>17, <2>1, <2>4, <2>5 DEF Stacked
<1>19. ScopesMatch(t, g, ss, c2, y)
  <2>1. \A k : k \in ScopedIn(t, f) <=> \E o \in Opened(f) : k = o[1] /\ Scoped(t, o[1])
    BY Readings
  <2>2. ~Scoped(t, n)
    BY DEF Scoped
  <2>3. n \notin ScopedIn(t, f)
    BY <2>1, <2>2
  <2>4. ScopedIn(t, g) = ScopedIn(t, f) /\ \A o \in Opened(f) : t[o[1]] = t[o[1]]
    BY <1>4, <2>3 DEF Fewer
  <2>5. ~Good(t, c2)
    BY <1>7 DEF Good
  <2> QED BY <1>1, <1>3, <2>4, <2>5, ScopesKept
<1>20. Matches(t, g, ex, ls, bs, ps, ss, c2, y)
  BY <1>16, <1>18, <1>19 DEF Matches
<1> QED BY <1>20 DEF c2, e, y

-----------------------------------------------------------------------------
(* The function ends *)

(* Code that the compiler has accepted.                                    *)
Compiled(t, c) ==
  EndsOnce(c) /\ CaughtIn(t) /\ Written(NamesOf(t), Typing(t), c) /\ BlocksOf(t) \subseteq DOMAIN c

(* Only the function is in progress.                                       *)
LEMMA OnlyFunction ==
  ASSUME NEW t, NEW f, Shaped(t), Nested(t, f), t[Top(f).node].kind = "function"
  PROVE  /\ Top(f).node = 1 /\ Opened(f) = {<<1, Top(f).slot>>}
         /\ Expected(t, f) = {} /\ OpenTries(t, f) = {}
         /\ Kept(t, Opened(f)) = Declared(t, 1) /\ Now(t, f) = Declared(t, 1)
<1> DEFINE n == Top(f).node  slot == Top(f).slot
<1>1. Inner(t, f, n, slot)
  BY InnerIs
<1>2. n = 1 /\ 1 \in 1..Len(t) /\ t[1].kind = "function"
  BY <1>1 DEF Inner
<1>3. Openings(t, Opened(f), n, slot)
  BY Frames
<1> HIDE DEF n, slot
<1>4. /\ <<1, slot>> \in Opened(f)
      /\ \A o \in Opened(f) : o[1] \in 1..Len(t) /\ o[1] <= 1 /\ (\A p \in Opened(f) : p[1] = o[1] => p = o)
  BY <1>2, <1>3 DEF Openings
<1>5. \A o \in Opened(f) : o[1] = 1
  BY <1>4
<1>6. <<1, slot>>[1] = 1
  OBVIOUS
<1>7. Opened(f) = {<<1, slot>>}
  BY <1>4, <1>5, <1>6
<1>8. \A s : Reserved(t, 1, s) = {}
  BY <1>2 DEF Reserved
<1>9. Expected(t, f) = {}
  <2>1. \A x : x \in Expected(t, f) <=> \E o \in Opened(f) : x \in Reserved(t, o[1], o[2])
    BY Readings
  <2> QED BY <1>5, <1>8, <2>1
<1>10. OpenTries(t, f) = {}
  <2>1. \A k : k \in OpenTries(t, f) <=> \E o \in Opened(f) : k = o[1] /\ t[o[1]].kind = "try" /\ o[2] = 1
    BY Readings
  <2> QED BY <1>2, <1>5, <2>1
<1>11. \A s : Keeps(t, 1, s) = Declared(t, 1)
  BY <1>2 DEF Keeps, Declared
<1>12. Kept(t, Opened(f)) = Declared(t, 1)
  <2>1. \A x : x \in Kept(t, Opened(f)) <=> \E a \in Opened(f) : x \in Keeps(t, a[1], a[2])
    BY KeptReading
  <2>2. \A a \in Opened(f) : Keeps(t, a[1], a[2]) = Declared(t, 1)
    BY <1>5, <1>11
  <2>3. \E a \in Opened(f) : a = a
    BY <1>4
  <2>4. \A x : x \in Kept(t, Opened(f)) <=> x \in Declared(t, 1)
    BY <2>1, <2>2, <2>3
  <2> QED BY <2>4
<1>13. Now(t, f) = Declared(t, 1)
  BY <1>2, <1>12 DEF Now, n
<1> QED BY <1>2, <1>7, <1>9, <1>10, <1>12, <1>13 DEF n, slot

(* The function ends: if the blocks are well formed, they keep the discipline. *)
LEMMA CloseFunctionStep ==
  ASSUME NEW t, NEW f, NEW n, NEW slot, NEW ex, NEW ls, NEW bs, NEW ps, NEW ss, NEW c, NEW b,
         Working(t, f, n, slot, ex, ls, bs, ps, ss, c, b), t[n].kind = "function",
         NEW done, done = c ++ In(b, Deinitialize(Top(ss)) \o (IF Terminated(c, b) THEN <<>> ELSE <<Ret>>)),
         EndsOnce(done)
  PROVE  Compiled(t, done)
<1> DEFINE last == IF Terminated(c, b) THEN <<>> ELSE <<Ret>>
           s == Deinitialize(Top(ss)) \o last
           names == NamesOf(t)  T == Typing(t)  h == Held(t, c, b)  d == Gone(c, b)
<1>1. Shaped(t) /\ Nested(t, f) /\ n = Top(f).node /\ slot = Top(f).slot
      /\ Stacked(t, f, ex, ls, bs, ps, c, b) /\ ScopesMatch(t, f, ss, c, b) /\ CodeMatches(t, f, c, b)
  BY DEF Working, Matches
<1>2. Grows(t, t) /\ n \in 1..Len(t)
  BY <1>1, InnerIs DEF Inner
<1>3. n = 1 /\ Expected(t, f) = {} /\ OpenTries(t, f) = {} /\ Now(t, f) = Declared(t, n)
  BY <1>1, OnlyFunction
<1>4. PICK rs \in SUBSET Declared(t, n) :
        /\ Deinitialize(Top(ss)) = ReleaseAll(rs) /\ rs \in SUBSET names
        /\ NoFlags(ss) => rs = Declared(t, n)
  <2>1. Scoped(t, n)
    BY DEF Scoped
  <2> QED BY <2>1, OwnScope
<1> HIDE DEF names, T, h, d
<1>5. ReleaseAll(rs) \in Seq(Instructions(names)) /\ <<Ret>> \in Seq(Instructions(names))
      /\ <<>> \in Seq(Instructions(names))
  <2>1. Ret \in Instructions(names)
    BY DEF Ret, Instructions
  <2> QED BY <1>4, <2>1, ReleaseNamed
<1>6. s \in Seq(Instructions(names))
  BY <1>4, <1>5
<1> DEFINE r == IF Terminated(c, b) THEN {} ELSE rs
           h2 == h \ r  d2 == d \cup r
<1>7. ASSUME CaughtIn(t), WellBlocks(c), s # <<>> => ~Terminated(c, b)
      PROVE  Runs(names, T, s, h, d, h2, d2)
  <2>1. CASE Terminated(c, b)
    <3>1. s = <<>> /\ h2 = h /\ d2 = d
      BY <1>7, <2>1
    <3> HIDE DEF s, h2, d2
    <3> QED BY <3>1, RunNothing
  <2>2. CASE ~Terminated(c, b)
    <3>1. s = ReleaseAll(rs) \o <<Ret>> /\ r = rs
      BY <1>4, <2>2
    <3>2. Runs(names, T, ReleaseAll(rs), h, d, h \ rs, d \cup rs)
      BY <1>4, Releasing
    <3>3. T.tidy => h \ rs = {}
      <4> SUFFICES ASSUME TidyIn(t)
                   PROVE  h \ rs = {}
        BY TypingIs DEF T
      <4>1. h \subseteq Now(t, f)
        BY <1>7, <2>2, HeldNow DEF h
      <4>2. Good(t, c)
        BY <1>7 DEF Good
      <4>3. rs = Declared(t, n)
        BY <1>1, <1>4, <2>2, <4>2, NoFlagsHere
      <4> QED BY <1>3, <4>1, <4>3
    <3>4. Runs(names, T, <<Ret>>, h \ rs, d \cup rs, h \ rs, d \cup rs)
      BY <3>3, Leaving
    <3>5. Runs(names, T, ReleaseAll(rs) \o <<Ret>>, h, d, h \ rs, d \cup rs)
      BY <3>2, <3>4, RunBoth
    <3> QED BY <3>1, <3>5
  <2> QED BY <2>1, <2>2
<1> HIDE DEF s, h2, d2, r
<1>8. Continued(t, c, b, s, h2, d2, c ++ In(b, s))
  <2>1. CaughtIn(t) /\ WellBlocks(c) /\ (s # <<>> => ~Terminated(c, b)) =>
          Runs(NamesOf(t), Typing(t), s, Held(t, c, b), Gone(c, b), h2, d2)
    BY <1>7 DEF names, T, h, d
  <2>2. s \in Seq(Instructions(NamesOf(t)))
    BY <1>6 DEF names
  <2> QED BY <1>1, <1>2, <2>1, <2>2, Emits
<1>9. done = c ++ In(b, s)
  BY DEF s
<1>10. Written(NamesOf(t), Typing(t), done) /\ DOMAIN done = DOMAIN c /\ \A x : x # b => Was(done, x) = Was(c, x)
  BY <1>8, <1>9 DEF Continued, Only
<1>11. BlocksOf(t) \subseteq DOMAIN done
  BY <1>1, <1>3, <1>10 DEF CodeMatches
<1>12. CaughtIn(t)
  <2> SUFFICES ASSUME ~CaughtIn(t) PROVE FALSE
    OBVIOUS
  <2>1. PICK k \in 1..Len(t) : t[k].kind = "try" /\ "catch" \notin t[k].opts
    BY DEF CaughtIn
  <2>2. \E p \in Elements(ps) : p[1] \notin OpenTries(t, f)
    BY <1>1, <1>3, <2>1 DEF Stacked, PadsMatch
  <2>3. PICK p \in Elements(ps) : p \in DOMAIN c /\ Was(c, p) = <<>> /\ p # b
    BY <1>1, <2>2 DEF Stacked, PadsMatch
  <2>4. p \in DOMAIN done /\ done[p] = <<>>
    BY <1>10, <2>3 DEF Was
  <2> QED BY <2>4 DEF EndsOnce, Terminated
<1> QED BY <1>10, <1>11, <1>12 DEF Compiled

-----------------------------------------------------------------------------
(* The invariant *)

Struct == Shaped(tree) /\ Nested(tree, frames)

(* While the compiler works, as far as the stacks of the jumps in the      *)
(* program match.                                                          *)
CompilingInv ==
  /\ Struct
  /\ MatchIn(tree) => Matches(tree, frames, exiting, latches, bodyExit, pads, scopes, code, at)

AcceptedInv == Shaped(tree) /\ (MatchIn(tree) => Compiled(tree, code))

(* The run is in a block of the program, and holds what the instructions   *)
(* before the present one have acquired and not released; in a tidy        *)
(* program nothing else.                                                   *)
InPlace(t, c, p) == p \in (DOMAIN c) \X Nat /\ p[2] \in DOMAIN c[p[1]]
HoldsThere(t, c, p, h, l) ==
  LET expected == Before(HeldIn(t, p[1]), c[p[1]], p[2])
  IN expected \subseteq h /\ (TidyIn(t) => h \subseteq expected /\ l = {})

RunningInv ==
  /\ pos = Outside => held = {} /\ lost = {}
  /\ pos # Outside => phase = "accepted"
  /\ MatchIn(tree) /\ Running => InPlace(tree, code, pos) /\ HoldsThere(tree, code, pos, held, lost)
  /\ TidyIn(tree) /\ pos \in {ReturnedNormally, LeftByException} => held = {} /\ lost = {}

HeldInv ==
  /\ family \in DOMAIN Families
  /\ phase \in {"compiling", "accepted", "rejected"}
  /\ phase = "compiling" => CompilingInv
  /\ phase = "accepted" => AcceptedInv
  /\ RunningInv

-----------------------------------------------------------------------------
(* The handlers of the compiler, one by one *)

(* The handlers in progress and the open nodes. *)
LEMMA InProgress ==
  ASSUME NEW t, NEW f, Nested(t, f)
  PROVE  \A kinds : (\E i \in 1..Len(f) : t[f[i].node].kind \in kinds) <=> OpenIn(t, f, kinds) # {}
<1>1. DOMAIN f = 1..Len(f)
  BY DEF Nested
<1> SUFFICES ASSUME NEW kinds
             PROVE  (\E i \in 1..Len(f) : t[f[i].node].kind \in kinds) <=> OpenIn(t, f, kinds) # {}
  OBVIOUS
<1>2. \A k : k \in OpenIn(t, f, kinds) <=> \E o \in Opened(f) : k = o[1] /\ t[o[1]].kind \in kinds
  BY Readings
<1>3. \A i \in DOMAIN f : Pair(f[i]) \in Opened(f) /\ Pair(f[i])[1] = f[i].node
  BY DEF Opened, Pair
<1>4. \A o \in Opened(f) : \E i \in DOMAIN f : o[1] = f[i].node
  BY DEF Opened, Pair
<1>5. (\E i \in 1..Len(f) : t[f[i].node].kind \in kinds) => OpenIn(t, f, kinds) # {}
  BY <1>1, <1>2, <1>3
<1>6. OpenIn(t, f, kinds) # {} => \E i \in 1..Len(f) : t[f[i].node].kind \in kinds
  BY <1>1, <1>2, <1>4
<1> QED BY <1>5, <1>6

(* A statement that the handler in progress can take.                      *)
LEMMA CanStand ==
  ASSUME NEW s \in Shapes, family \in DOMAIN Families, Struct, CanAdd(s), NEW u, u = Append(tree, Node(s))
  PROVE  /\ Stands(tree, frames, Node(s), u) /\ NoneYet(tree, frames)
         /\ Node(s).kind = s.kind /\ Node(s).decl = s.decl /\ Node(s).opts = s.opts /\ Node(s).clauses = s.clauses
<1>1. /\ s \in Shape
      /\ s.kind = "switch" => s.clauses # <<>>
      /\ \A j, k \in DOMAIN s.clauses : s.clauses[j] = "default" /\ s.clauses[k] = "default" => j = k
  BY FamiliesAssumption DEF Shapes
<1>2. Top(frames) \in [node : 1..Len(tree), slot : Nat]
  BY Frames DEF Struct
<1>3. /\ Node(s).kind = s.kind /\ Node(s).decl = s.decl /\ Node(s).opts = s.opts /\ Node(s).clauses = s.clauses
      /\ Node(s).parent = Top(frames).node /\ Node(s).slot = Top(frames).slot
  BY DEF Node
<1>4. Node(s) \in NodeRecords
  BY <1>1, <1>2 DEF Node, NodeRecords, Shape
<1>5. s.kind # "function" /\ (tree[Top(frames).node].kind = "try" => s.kind = "block")
  BY DEF CanAdd, Parent
<1>6. s.kind = "switch" => s.clauses # <<>> /\ \A j, k \in Defaults(s.clauses) : j = k
  BY <1>1 DEF Defaults
<1>7. Belongs(tree, frames, Node(s))
  BY <1>3, <1>4, <1>5, <1>6 DEF Belongs
<1>8. Stands(tree, frames, Node(s), u)
  BY <1>7 DEF Stands, Struct
<1>9. NoneYet(tree, frames)
  BY DEF NoneYet, CanAdd, Parent, Here, Kids
<1> QED BY <1>3, <1>8, <1>9

(* A statement that can stand here finds the compiler ready. *)
LEMMA CanReady ==
  ASSUME NEW s \in Shapes, family \in DOMAIN Families, CompilingInv, CanAdd(s), NEW u, u = Append(tree, Node(s)),
         MatchIn(u)
  PROVE  Ready(tree, frames, Node(s), u, New, exiting, latches, bodyExit, pads, scopes, code, at)
<1>1. Stands(tree, frames, Node(s), u)
  BY CanStand DEF CompilingInv
<1>2. MatchIn(tree)
  <2>1. Grows(tree, u)
    BY <1>1, Added DEF Stands
  <2> QED BY <2>1, SameMatching
<1> QED BY <1>1, <1>2 DEF Ready, CompilingInv, New

(* The handlers in progress, after a leaf and after a statement has begun. *)
LEMMA LeafStruct ==
  ASSUME NEW s \in Shapes, family \in DOMAIN Families, Struct, CanAdd(s), Leaf(s)
  PROVE  Struct'
<1>1. Stands(tree, frames, Node(s), tree')
  BY CanStand DEF Leaf
<1>2. Shaped(tree') /\ Nested(tree', frames)
  BY <1>1, Added DEF Stands, Grows
<1> QED BY <1>2 DEF Leaf, Struct

(* The handlers after a statement other than a switch has begun. *)
LEMMA OpenStruct ==
  ASSUME NEW s \in Shapes, family \in DOMAIN Families, Struct, CanAdd(s), Open(s), s.kind \notin LeafKinds,
         s.kind # "switch"
  PROVE  Struct'
<1>1. Stands(tree, frames, Node(s), tree') /\ Node(s).kind = s.kind
  BY CanStand DEF Open
<1> DEFINE L == Len(tree) + 1  x == Node(s)  u == tree'
<1> HIDE DEF L, x, u
<1>2. Shaped(u) /\ Len(u) = L /\ u[L] = x
  <2>1. Stands(tree, frames, x, u) /\ L = Len(tree) + 1
    BY <1>1 DEF L, x, u
  <2> QED BY <2>1, Standing
<1>3. Fits(u, L, 1)
  BY <1>1, <1>2 DEF Fits, x
<1>4. Begun(tree, frames, x, u, L, 1, frames')
  BY <1>1, <1>3 DEF Begun, New, Open, L, x, u
<1>5. Nested(u, frames')
  BY <1>4, Began
<1> QED BY <1>2, <1>5 DEF Struct, u

(* Each handler keeps the invariant. *)
Keeping == phase' = "compiling" /\ CompilingInv'

(* A step keeps the invariant if the stacks still match. *)
LEMMA StepKeeps ==
  ASSUME Struct', phase' = "compiling",
         MatchIn(tree') => Matches(tree', frames', exiting', latches', bodyExit', pads', scopes', code', at')
  PROVE  Keeping
BY DEF Keeping, CompilingInv

LEMMA ExpressionKeeps ==
  ASSUME NEW s \in Shapes, family \in DOMAIN Families, CompilingInv, Expression(s)
  PROVE  Keeping
<1> DEFINE x == Node(s)
<1>1. /\ CanAdd(s) /\ Leaf(s) /\ s.kind = "expr" /\ Struct /\ phase = "compiling" /\ phase' = phase
      /\ tree' = Append(tree, x) /\ frames' = frames /\ code' = code ++ In(at, <<Eval(Blk(New, "eval"))>>)
      /\ at' = at /\ exiting' = exiting /\ latches' = latches /\ bodyExit' = bodyExit /\ pads' = pads
      /\ scopes' = scopes
  BY DEF Expression, CompilingInv, CanAdd, Leaf
<1>2. Struct'
  BY <1>1, LeafStruct
<1>3. x.kind = "expr"
  BY <1>1, CanStand
<1> HIDE DEF x
<1>4. ASSUME MatchIn(tree')
      PROVE  Matches(tree', frames', exiting', latches', bodyExit', pads', scopes', code', at')
  <2>1. Ready(tree, frames, x, tree', New, exiting, latches, bodyExit, pads, scopes, code, at)
    BY <1>1, <1>4, CanReady DEF x
  <2>2. Matches(tree', frames, exiting, latches, bodyExit, pads, scopes,
                code ++ In(at, <<Eval(Blk(New, "eval"))>>), at)
    BY <1>3, <2>1, ExpressionStep DEF ExitsOf
  <2> QED BY <1>1, <2>2
<1> QED BY <1>1, <1>2, <1>4, StepKeeps

LEMMA ClosureKeeps ==
  ASSUME NEW s \in Shapes, family \in DOMAIN Families, CompilingInv, Closure(s)
  PROVE  Keeping
<1> DEFINE x == Node(s)
<1>1. /\ CanAdd(s) /\ Leaf(s) /\ s.kind = "closure" /\ Struct /\ phase = "compiling" /\ phase' = phase
      /\ tree' = Append(tree, x) /\ frames' = frames /\ code' = code ++ In(at, <<Eval(Blk(New, "eval"))>>)
      /\ at' = at /\ exiting' = Append(exiting, Blk(New, "exiting")) /\ latches' = latches /\ bodyExit' = bodyExit /\ pads' = pads
      /\ scopes' = scopes
  BY DEF Closure, CompilingInv, CanAdd, Leaf
<1>2. Struct'
  BY <1>1, LeafStruct
<1>3. x.kind = "closure"
  BY <1>1, CanStand
<1> HIDE DEF x
<1>4. ASSUME MatchIn(tree')
      PROVE  Matches(tree', frames', exiting', latches', bodyExit', pads', scopes', code', at')
  <2>1. Ready(tree, frames, x, tree', New, exiting, latches, bodyExit, pads, scopes, code, at)
    BY <1>1, <1>4, CanReady DEF x
  <2>2. Matches(tree', frames, Append(exiting, Blk(New, "exiting")), latches, bodyExit, pads, scopes,
                code ++ In(at, <<Eval(Blk(New, "eval"))>>), at)
    BY <1>3, <2>1, ExpressionStep DEF ExitsOf
  <2> QED BY <1>1, <2>2
<1> QED BY <1>1, <1>2, <1>4, StepKeeps

LEMMA LogicKeeps ==
  ASSUME NEW s \in Shapes, family \in DOMAIN Families, CompilingInv, Logic(s)
  PROVE  Keeping
<1> DEFINE x == Node(s)
<1>1. /\ CanAdd(s) /\ Leaf(s) /\ s.kind = "logic" /\ Struct /\ phase = "compiling" /\ phase' = phase
      /\ tree' = Append(tree, x) /\ frames' = frames
      /\ code' = code ++ In(at, <<Eval(Blk(New, "lhs")), Eval(Blk(New, "rhs"))>>)
      /\ at' = at /\ exiting' = exiting /\ latches' = latches /\ bodyExit' = bodyExit /\ pads' = pads
      /\ scopes' = scopes
  BY DEF Logic, CompilingInv, CanAdd, Leaf
<1>2. Struct'
  BY <1>1, LeafStruct
<1>3. x.kind = "logic"
  BY <1>1, CanStand
<1> HIDE DEF x
<1>4. ASSUME MatchIn(tree')
      PROVE  Matches(tree', frames', exiting', latches', bodyExit', pads', scopes', code', at')
  <2>1. Ready(tree, frames, x, tree', New, exiting, latches, bodyExit, pads, scopes, code, at)
    BY <1>1, <1>4, CanReady DEF x
  <2>2. Matches(tree', frames, exiting, latches, bodyExit, pads, scopes,
                code ++ In(at, <<Eval(Blk(New, "lhs")), Eval(Blk(New, "rhs"))>>), at)
    BY <1>3, <2>1, LogicStep
  <2> QED BY <1>1, <2>2
<1> QED BY <1>1, <1>2, <1>4, StepKeeps

LEMMA TernaryKeeps ==
  ASSUME NEW s \in Shapes, family \in DOMAIN Families, CompilingInv, Ternary(s)
  PROVE  Keeping
<1> DEFINE x == Node(s)
           done == code ++ In(at, <<Eval(Blk(New, "cond")), Br({Blk(New, "lhs"), Blk(New, "rhs")})>>)
                        ++ In(Blk(New, "lhs"), <<Eval(Blk(New, "lhs")), Br({Blk(New, "endTernary")})>>)
                        ++ In(Blk(New, "rhs"), <<Eval(Blk(New, "rhs")), Br({Blk(New, "endTernary")})>>)
                        ++ In(Blk(New, "endTernary"), <<>>)
<1>1. /\ CanAdd(s) /\ Leaf(s) /\ s.kind = "ternary" /\ Struct /\ phase = "compiling" /\ phase' = phase
      /\ tree' = Append(tree, x) /\ frames' = frames /\ code' = done /\ at' = Blk(New, "endTernary")
      /\ exiting' = exiting /\ latches' = latches /\ bodyExit' = bodyExit /\ pads' = pads
      /\ scopes' = scopes
  BY DEF Ternary, CompilingInv, CanAdd, Leaf
<1>2. Struct'
  BY <1>1, LeafStruct
<1>3. x.kind = "ternary"
  BY <1>1, CanStand
<1> HIDE DEF x
<1>4. ASSUME MatchIn(tree')
      PROVE  Matches(tree', frames', exiting', latches', bodyExit', pads', scopes', code', at')
  <2>1. Ready(tree, frames, x, tree', New, exiting, latches, bodyExit, pads, scopes, code, at)
    BY <1>1, <1>4, CanReady DEF x
  <2>2. Matches(tree', frames, exiting, latches, bodyExit, pads, scopes, done, Blk(New, "endTernary"))
    BY <1>3, <2>1, TernaryStep
  <2> QED BY <1>1, <2>2
<1> QED BY <1>1, <1>2, <1>4, StepKeeps

(* What the compiler refuses keeps the invariant.                          *)
Refusing == phase' = "rejected"

(* Whether the compiler generates an unwinding call. *)
LEMMA NeedUnwindIs ==
  ASSUME Struct
  PROVE  NeedUnwind <=> OpenIn(tree, frames, {"try"}) # {}
<1>1. Nested(tree, frames)
  BY DEF Struct
<1>2. (\E i \in 1..Len(frames) : tree[frames[i].node].kind \in {"try"}) <=> OpenIn(tree, frames, {"try"}) # {}
  BY <1>1, InProgress
<1> QED BY <1>2 DEF NeedUnwind

LEMMA InvokeKeeps ==
  ASSUME NEW s \in Shapes, family \in DOMAIN Families, CompilingInv, Invoke(s)
  PROVE  Keeping \/ Refusing
<1> DEFINE x == Node(s)
<1>1. /\ CanAdd(s) /\ Leaf(s) /\ s.kind = "call" /\ Struct /\ phase = "compiling"
      /\ tree' = Append(tree, x) /\ frames' = frames
      /\ exiting' = exiting /\ latches' = latches /\ bodyExit' = bodyExit /\ pads' = pads
      /\ scopes' = scopes
  BY DEF Invoke, CompilingInv, CanAdd, Leaf
<1>2. Struct'
  BY <1>1, LeafStruct
<1>3. x.kind = "call" /\ x.opts = s.opts
  BY <1>1, CanStand
<1>4. NeedUnwind <=> OpenIn(tree, frames, {"try"}) # {}
  BY <1>1, NeedUnwindIs
<1>5. CASE "known" \in s.opts /\ NeedUnwind /\ pads = <<>>
  BY <1>5 DEF Invoke, Reject, Refusing
<1>6. CASE "known" \in s.opts /\ NeedUnwind /\ pads # <<>>
  <2> DEFINE done == code ++ In(at, <<Eval(Blk(New, "eval")), Br({Blk(New, "continue"), Top(pads)})>>)
                          ++ In(Blk(New, "continue"), <<>>)
  <2>1. code' = done /\ at' = Blk(New, "continue") /\ phase' = phase
    BY <1>6 DEF Invoke
  <2> HIDE DEF x
  <2>2. ASSUME MatchIn(tree')
        PROVE  Matches(tree', frames', exiting', latches', bodyExit', pads', scopes', code', at')
    <3>1. Ready(tree, frames, x, tree', New, exiting, latches, bodyExit, pads, scopes, code, at)
      BY <1>1, <2>2, CanReady DEF x
    <3>2. "known" \in x.opts /\ OpenIn(tree, frames, {"try"}) # {}
      BY <1>3, <1>4, <1>6
    <3>3. Matches(tree', frames, exiting, latches, bodyExit, pads, scopes, done, Blk(New, "continue"))
      BY <1>3, <1>6, <3>1, <3>2, InvokeStep
    <3> QED BY <1>1, <2>1, <3>3
  <2> QED BY <1>1, <1>2, <2>1, <2>2, StepKeeps
<1>7. CASE ~("known" \in s.opts /\ NeedUnwind)
  <2> DEFINE done == code ++ In(at, <<Call(Blk(New, "eval"))>>)
  <2>1. code' = done /\ at' = at /\ phase' = phase
    BY <1>7 DEF Invoke
  <2> HIDE DEF x
  <2>2. ASSUME MatchIn(tree')
        PROVE  Matches(tree', frames', exiting', latches', bodyExit', pads', scopes', code', at')
    <3>1. Ready(tree, frames, x, tree', New, exiting, latches, bodyExit, pads, scopes, code, at)
      BY <1>1, <2>2, CanReady DEF x
    <3>2. "known" \in x.opts => OpenIn(tree, frames, {"try"}) = {}
      BY <1>3, <1>4, <1>7
    <3>3. Matches(tree', frames, exiting, latches, bodyExit, pads, scopes, done, at)
      BY <1>3, <3>1, <3>2, CallStep
    <3> QED BY <1>1, <2>1, <3>3
  <2> QED BY <1>1, <1>2, <2>1, <2>2, StepKeeps
<1> QED BY <1>5, <1>6, <1>7

(* The handler a continue calls. *)
LEMMA BodyExitIs == BodyExit = BodyExitOf(tree, bodyExit)
BY DEF BodyExit, BodyExitOf, OfOuterLoop

LEMMA BreakKeeps ==
  ASSUME NEW s \in Shapes, family \in DOMAIN Families, CompilingInv, Break(s)
  PROVE  Keeping
<1> DEFINE x == Node(s)
           done == code ++ In(at, (IF tree[Top(exiting)[1]].kind = "for" THEN ReleaseAll(BodyExitOf(tree, bodyExit)) ELSE <<>>)
                                  \o <<Br({Top(exiting)})>>)
<1>1. /\ CanAdd(s) /\ Leaf(s) /\ s.kind = "break" /\ Struct /\ phase = "compiling" /\ phase' = phase
      /\ tree' = Append(tree, x) /\ frames' = frames /\ code' = done
      /\ at' = at /\ exiting' = exiting /\ latches' = latches /\ bodyExit' = bodyExit /\ pads' = pads
      /\ scopes' = scopes
      /\ \E i \in 1..Len(frames) : tree[frames[i].node].kind \in LoopKinds \cup {"switch"}
  BY BodyExitIs DEF Break, BreakTarget, CompilingInv, CanAdd, Leaf
<1>2. Struct'
  BY <1>1, LeafStruct
<1>3. x.kind = "break"
  BY <1>1, CanStand
<1>4. OpenIn(tree, frames, Breakable) # {}
  <2>1. Nested(tree, frames) /\ Breakable = LoopKinds \cup {"switch"}
    BY <1>1 DEF Struct, Breakable
  <2>2. (\E i \in 1..Len(frames) : tree[frames[i].node].kind \in Breakable) <=> OpenIn(tree, frames, Breakable) # {}
    BY <2>1, InProgress
  <2> QED BY <1>1, <2>1, <2>2
<1> HIDE DEF x
<1>5. ASSUME MatchIn(tree')
      PROVE  Matches(tree', frames', exiting', latches', bodyExit', pads', scopes', code', at')
  <2>1. Ready(tree, frames, x, tree', New, exiting, latches, bodyExit, pads, scopes, code, at)
    BY <1>1, <1>5, CanReady DEF x
  <2>2. Matches(tree', frames, exiting, latches, bodyExit, pads, scopes, done, at)
    BY <1>3, <1>4, <2>1, BreakStep
  <2> QED BY <1>1, <2>2
<1> QED BY <1>1, <1>2, <1>5, StepKeeps

LEMMA ContinueKeeps ==
  ASSUME NEW s \in Shapes, family \in DOMAIN Families, CompilingInv, Continue(s)
  PROVE  Keeping \/ Refusing
<1> DEFINE x == Node(s)
           done == code ++ In(at, ReleaseAll(BodyExitOf(tree, bodyExit)) \o <<Br({Top(latches)})>>)
<1>1. /\ CanAdd(s) /\ Leaf(s) /\ s.kind = "continue" /\ Struct /\ phase = "compiling"
      /\ tree' = Append(tree, x) /\ frames' = frames
      /\ at' = at /\ exiting' = exiting /\ latches' = latches /\ bodyExit' = bodyExit /\ pads' = pads
      /\ scopes' = scopes
      /\ \E i \in 1..Len(frames) : tree[frames[i].node].kind \in LoopKinds
  BY DEF Continue, CompilingInv, CanAdd, Leaf
<1>2. CASE ~UnderIf
  BY <1>2 DEF Continue, Reject, Refusing
<1>3. CASE UnderIf
  <2>1. code' = done /\ phase' = phase
    BY <1>3, BodyExitIs DEF Continue
  <2>2. Struct'
    BY <1>1, LeafStruct
  <2>3. x.kind = "continue"
    BY <1>1, CanStand
  <2>4. OpenIn(tree, frames, LoopKinds) # {}
    <3>1. Nested(tree, frames)
      BY <1>1 DEF Struct
    <3>2. (\E i \in 1..Len(frames) : tree[frames[i].node].kind \in LoopKinds) <=> OpenIn(tree, frames, LoopKinds) # {}
      BY <3>1, InProgress
    <3> QED BY <1>1, <3>2
  <2> HIDE DEF x
  <2>5. ASSUME MatchIn(tree')
        PROVE  Matches(tree', frames', exiting', latches', bodyExit', pads', scopes', code', at')
    <3>1. Ready(tree, frames, x, tree', New, exiting, latches, bodyExit, pads, scopes, code, at)
      BY <1>1, <2>5, CanReady DEF x
    <3>2. Matches(tree', frames, exiting, latches, bodyExit, pads, scopes, done, at)
      BY <2>3, <2>4, <3>1, ContinueStep
    <3> QED BY <1>1, <2>1, <3>2
  <2> QED BY <1>1, <2>1, <2>2, <2>5, StepKeeps
<1> QED BY <1>2, <1>3

LEMMA ReturnKeeps ==
  ASSUME NEW s \in Shapes, family \in DOMAIN Families, CompilingInv, Return(s)
  PROVE  Keeping
<1> DEFINE x == Node(s)
           done == code ++ In(at, <<Eval(Blk(New, "eval"))>>
                                  \o (IF at[2] = "pad" THEN <<Release({Blk(at[1], "caught")})>> ELSE <<>>)
                                  \o Deinitialize(Top(scopes)) \o <<Ret>>)
<1>1. /\ CanAdd(s) /\ Leaf(s) /\ s.kind = "return" /\ Struct /\ phase = "compiling" /\ phase' = phase
      /\ tree' = Append(tree, x) /\ frames' = frames /\ code' = done
      /\ at' = at /\ exiting' = exiting /\ latches' = latches /\ bodyExit' = bodyExit /\ pads' = pads
      /\ scopes' = Deinitialized(scopes)
  BY DEF Return, CompilingInv, CanAdd, Leaf
<1>2. Struct'
  BY <1>1, LeafStruct
<1>3. x.kind = "return"
  BY <1>1, CanStand
<1> HIDE DEF x
<1>4. ASSUME MatchIn(tree')
      PROVE  Matches(tree', frames', exiting', latches', bodyExit', pads', scopes', code', at')
  <2>1. Ready(tree, frames, x, tree', New, exiting, latches, bodyExit, pads, scopes, code, at)
    BY <1>1, <1>4, CanReady DEF x
  <2>2. Matches(tree', frames, exiting, latches, bodyExit, pads, Deinitialized(scopes), done, at)
    BY <1>3, <2>1, ReturnStep
  <2> QED BY <1>1, <2>2
<1> QED BY <1>1, <1>2, <1>4, StepKeeps

LEMMA ThrowKeeps ==
  ASSUME NEW s \in Shapes, family \in DOMAIN Families, CompilingInv, Throw(s)
  PROVE  Keeping \/ Refusing
<1> DEFINE x == Node(s)
           done == code ++ In(at, <<Eval(Blk(New, "eval"))>> \o Deinitialize(Top(scopes)) \o <<Br({Blk(New, "throw")})>>)
                        ++ In(Blk(New, "throw"),
                              <<IF OpenIn(tree, frames, {"try"}) # {} THEN Br({Top(pads)}) ELSE Raise>>)
<1>1. /\ CanAdd(s) /\ Leaf(s) /\ s.kind = "throw" /\ Struct /\ phase = "compiling"
      /\ tree' = Append(tree, x) /\ frames' = frames
      /\ exiting' = exiting /\ latches' = latches /\ bodyExit' = bodyExit /\ pads' = pads
      /\ scopes' = Deinitialized(scopes)
  BY DEF Throw, CompilingInv, CanAdd, Leaf
<1>2. NeedUnwind <=> OpenIn(tree, frames, {"try"}) # {}
  BY <1>1, NeedUnwindIs
<1>3. CASE NeedUnwind /\ pads = <<>>
  BY <1>3 DEF Throw, Reject, Refusing
<1>4. CASE ~(NeedUnwind /\ pads = <<>>)
  <2>1. code' = done /\ at' = Blk(New, "throw") /\ phase' = phase
    <3>1. (IF NeedUnwind THEN Br({Top(pads)}) ELSE Raise)
            = (IF OpenIn(tree, frames, {"try"}) # {} THEN Br({Top(pads)}) ELSE Raise)
      BY <1>2
    <3> QED BY <1>4, <3>1 DEF Throw
  <2>2. Struct'
    BY <1>1, LeafStruct
  <2>3. x.kind = "throw"
    BY <1>1, CanStand
  <2> HIDE DEF x
  <2>4. ASSUME MatchIn(tree')
        PROVE  Matches(tree', frames', exiting', latches', bodyExit', pads', scopes', code', at')
    <3>1. Ready(tree, frames, x, tree', New, exiting, latches, bodyExit, pads, scopes, code, at)
      BY <1>1, <2>4, CanReady DEF x
    <3>2. OpenIn(tree, frames, {"try"}) # {} => pads # <<>>
      BY <1>2, <1>4
    <3>3. Matches(tree', frames, exiting, latches, bodyExit, pads, Deinitialized(scopes), done, Blk(New, "throw"))
      BY <2>3, <3>1, <3>2, ThrowStep
    <3> QED BY <1>1, <2>1, <3>3
  <2> QED BY <1>1, <2>1, <2>2, <2>4, StepKeeps
<1> QED BY <1>3, <1>4

LEMMA OpenBlockKeeps ==
  ASSUME NEW s \in Shapes, family \in DOMAIN Families, CompilingInv, OpenBlock(s)
  PROVE  Keeping
<1> DEFINE x == Node(s)
           done == code ++ In(at, AcquireAll(CaughtHere(tree, frames) \cup VariableHere(tree, frames))
                                  \o AcquireAll(Local(x, New)))
           ss == Append(scopes, Scope(VariableHere(tree, frames) \cup Local(x, New)))
<1>1. /\ CanAdd(s) /\ Open(s) /\ s.kind = "block" /\ Struct /\ phase = "compiling" /\ phase' = phase
      /\ tree' = Append(tree, x) /\ frames' = Append(frames, Frame(New, 1))
      /\ at' = at /\ exiting' = exiting /\ latches' = latches /\ bodyExit' = bodyExit /\ pads' = pads
  BY DEF OpenBlock, CompilingInv, CanAdd, Open
<1>2. x.kind = "block" /\ x.decl = s.decl /\ NoneYet(tree, frames)
  BY <1>1, CanStand
<1>3. code' = done /\ scopes' = ss
  <2>1. CatchOf(New) = CaughtHere(tree, frames) /\ ExceptionVariable = VariableHere(tree, frames)
    BY DEF CatchOf, CaughtHere, ExceptionVariable, VariableHere, Parent
  <2>2. Hoisted(New, s) = Local(x, New)
    BY <1>2 DEF Hoisted, Local
  <2> QED BY <2>1, <2>2 DEF OpenBlock
<1>4. Struct'
  <2>1. s.kind \notin LeafKinds /\ s.kind # "switch"
    BY <1>1 DEF LeafKinds, JumpKinds
  <2> QED BY <1>1, <2>1, OpenStruct
<1> HIDE DEF x
<1>5. ASSUME MatchIn(tree')
      PROVE  Matches(tree', frames', exiting', latches', bodyExit', pads', scopes', code', at')
  <2>1. Ready(tree, frames, x, tree', New, exiting, latches, bodyExit, pads, scopes, code, at)
    BY <1>1, <1>5, CanReady DEF x
  <2>2. Matches(tree', frames', exiting, latches, bodyExit, pads, ss, done, at)
    BY <1>1, <1>2, <2>1, OpenBlockStep
  <2> QED BY <1>1, <1>3, <2>2
<1> QED BY <1>1, <1>4, <1>5, StepKeeps

LEMMA OpenIfKeeps ==
  ASSUME NEW s \in Shapes, family \in DOMAIN Families, CompilingInv, OpenIf(s)
  PROVE  Keeping
<1> DEFINE x == Node(s)
           done == code ++ In(at, <<Eval(Blk(New, "cond")), Br({Blk(New, "then"), Blk(New, "else")})>>)
                        ++ In(Blk(New, "then"), <<>>) ++ In(Blk(New, "else"), <<>>) ++ In(Blk(New, "endif"), <<>>)
<1>1. /\ CanAdd(s) /\ Open(s) /\ s.kind = "if" /\ Struct /\ phase = "compiling" /\ phase' = phase
      /\ tree' = Append(tree, x) /\ frames' = Append(frames, Frame(New, 1)) /\ code' = done
      /\ at' = Blk(New, "then") /\ exiting' = exiting /\ latches' = latches /\ bodyExit' = bodyExit /\ pads' = pads
      /\ scopes' = scopes
  BY DEF OpenIf, CompilingInv, CanAdd, Open
<1>2. x.kind = "if"
  BY <1>1, CanStand
<1>3. Struct'
  <2>1. s.kind \notin LeafKinds /\ s.kind # "switch"
    BY <1>1 DEF LeafKinds, JumpKinds
  <2> QED BY <1>1, <2>1, OpenStruct
<1> HIDE DEF x
<1>4. ASSUME MatchIn(tree')
      PROVE  Matches(tree', frames', exiting', latches', bodyExit', pads', scopes', code', at')
  <2>1. Ready(tree, frames, x, tree', New, exiting, latches, bodyExit, pads, scopes, code, at)
    BY <1>1, <1>4, CanReady DEF x
  <2>2. Matches(tree', frames', exiting, latches, bodyExit, pads, scopes, done, Blk(New, "then"))
    BY <1>1, <1>2, <2>1, OpenIfStep
  <2> QED BY <1>1, <2>2
<1> QED BY <1>1, <1>3, <1>4, StepKeeps

LEMMA OpenWhileKeeps ==
  ASSUME NEW s \in Shapes, family \in DOMAIN Families, CompilingInv, OpenWhile(s)
  PROVE  Keeping
<1> DEFINE x == Node(s)
           done == code ++ In(at, <<Br({Blk(New, "cond")})>>)
                        ++ In(Blk(New, "cond"), <<Eval(Blk(New, "cond")), Br({Blk(New, "body"), Blk(New, "exiting")})>>)
                        ++ In(Blk(New, "latch"), <<Br({Blk(New, "cond")})>>)
                        ++ In(Blk(New, "exiting"), <<Br({Blk(New, "end")})>>) ++ In(Blk(New, "body"), <<>>)
<1>1. /\ CanAdd(s) /\ Open(s) /\ s.kind = "while" /\ Struct /\ phase = "compiling" /\ phase' = phase
      /\ tree' = Append(tree, x) /\ frames' = Append(frames, Frame(New, 1)) /\ code' = done
      /\ at' = Blk(New, "body") /\ exiting' = Append(exiting, Blk(New, "exiting"))
      /\ latches' = Append(latches, Blk(New, "latch")) /\ bodyExit' = bodyExit /\ pads' = pads
      /\ scopes' = Append(scopes, Scope({}))
  BY DEF OpenWhile, CompilingInv, CanAdd, Open
<1>2. x.kind = "while"
  BY <1>1, CanStand
<1>3. Struct'
  <2>1. s.kind \notin LeafKinds /\ s.kind # "switch"
    BY <1>1 DEF LeafKinds, JumpKinds
  <2> QED BY <1>1, <2>1, OpenStruct
<1> HIDE DEF x
<1>4. ASSUME MatchIn(tree')
      PROVE  Matches(tree', frames', exiting', latches', bodyExit', pads', scopes', code', at')
  <2>1. Ready(tree, frames, x, tree', New, exiting, latches, bodyExit, pads, scopes, code, at)
    BY <1>1, <1>4, CanReady DEF x
  <2>2. Matches(tree', frames', Append(exiting, Blk(New, "exiting")), Append(latches, Blk(New, "latch")),
                bodyExit, pads, Append(scopes, Scope({})), done, Blk(New, "body"))
    BY <1>1, <1>2, <2>1, OpenWhileStep
  <2> QED BY <1>1, <2>2
<1> QED BY <1>1, <1>3, <1>4, StepKeeps

LEMMA OpenDoKeeps ==
  ASSUME NEW s \in Shapes, family \in DOMAIN Families, CompilingInv, OpenDo(s)
  PROVE  Keeping
<1> DEFINE x == Node(s)
           done == code ++ In(at, <<Br({Blk(New, "body")})>>) ++ In(Blk(New, "body"), <<>>)
                        ++ In(Blk(New, "cond"), <<>>) ++ In(Blk(New, "latch"), <<>>)
                        ++ In(Blk(New, "exiting"), <<>>) ++ In(Blk(New, "end"), <<>>)
<1>1. /\ CanAdd(s) /\ Open(s) /\ s.kind = "do" /\ Struct /\ phase = "compiling" /\ phase' = phase
      /\ tree' = Append(tree, x) /\ frames' = Append(frames, Frame(New, 1)) /\ code' = done
      /\ at' = Blk(New, "body") /\ exiting' = Append(exiting, Blk(New, "exiting"))
      /\ latches' = Append(latches, Blk(New, "latch")) /\ bodyExit' = bodyExit /\ pads' = pads
      /\ scopes' = Append(scopes, Scope({}))
  BY DEF OpenDo, CompilingInv, CanAdd, Open
<1>2. x.kind = "do"
  BY <1>1, CanStand
<1>3. Struct'
  <2>1. s.kind \notin LeafKinds /\ s.kind # "switch"
    BY <1>1 DEF LeafKinds, JumpKinds
  <2> QED BY <1>1, <2>1, OpenStruct
<1> HIDE DEF x
<1>4. ASSUME MatchIn(tree')
      PROVE  Matches(tree', frames', exiting', latches', bodyExit', pads', scopes', code', at')
  <2>1. Ready(tree, frames, x, tree', New, exiting, latches, bodyExit, pads, scopes, code, at)
    BY <1>1, <1>4, CanReady DEF x
  <2>2. Matches(tree', frames', Append(exiting, Blk(New, "exiting")), Append(latches, Blk(New, "latch")),
                bodyExit, pads, Append(scopes, Scope({})), done, Blk(New, "body"))
    BY <1>1, <1>2, <2>1, OpenDoStep
  <2> QED BY <1>1, <2>2
<1> QED BY <1>1, <1>3, <1>4, StepKeeps

LEMMA OpenForKeeps ==
  ASSUME NEW s \in Shapes, family \in DOMAIN Families, CompilingInv, OpenFor(s)
  PROVE  Keeping
<1> DEFINE x == Node(s)
           done == ForTested(x, New, ForTurned(x, New, ForOpened(x, New, code, at)))
           ss == IF x.decl THEN Append(scopes, Scope({Blk(New, "copy")})) ELSE scopes
<1>1. /\ CanAdd(s) /\ Open(s) /\ s.kind = "for" /\ Struct /\ phase = "compiling" /\ phase' = phase
      /\ tree' = Append(tree, x) /\ frames' = Append(frames, Frame(New, 1))
      /\ at' = Blk(New, "body") /\ exiting' = Append(exiting, Blk(New, "exiting"))
      /\ latches' = Append(latches, Blk(New, "latch")) /\ bodyExit' = Append(bodyExit, New) /\ pads' = pads
  BY DEF OpenFor, CompilingInv, CanAdd, Open
<1>2. x.kind = "for" /\ x.decl = s.decl /\ x.opts = s.opts
  BY <1>1, CanStand
<1>3. Struct'
  <2>1. s.kind \notin LeafKinds /\ s.kind # "switch"
    BY <1>1 DEF LeafKinds, JumpKinds
  <2> QED BY <1>1, <2>1, OpenStruct
<1> HIDE DEF x
<1>4. code' = done /\ scopes' = ss
  <2>1. code' = done
    BY <1>2 DEF OpenFor, ForTested, ForTurned, ForOpened
  <2>2. scopes' = ss
    BY <1>2 DEF OpenFor
  <2> QED BY <2>1, <2>2
<1>5. ASSUME MatchIn(tree')
      PROVE  Matches(tree', frames', exiting', latches', bodyExit', pads', scopes', code', at')
  <2>1. Ready(tree, frames, x, tree', New, exiting, latches, bodyExit, pads, scopes, code, at)
    BY <1>1, <1>5, CanReady DEF x
  <2>2. Matches(tree', frames', Append(exiting, Blk(New, "exiting")), Append(latches, Blk(New, "latch")),
                Append(bodyExit, New), pads, ss, done, Blk(New, "body"))
    BY <1>1, <1>2, <2>1, OpenForStep
  <2> QED BY <1>1, <1>4, <2>2
<1> QED BY <1>1, <1>3, <1>5, StepKeeps

LEMMA OpenForOfKeeps ==
  ASSUME NEW s \in Shapes, family \in DOMAIN Families, CompilingInv, OpenForOf(s) \/ OpenForIn(s)
  PROVE  Keeping
<1> DEFINE x == Node(s)
           done == IteratorOpened(New, code, at)
           ss == Append(scopes, Scope(IF x.kind = "forof" /\ "tuple" \in x.opts THEN {} ELSE {Blk(New, "element")}))
<1>1. /\ CanAdd(s) /\ Open(s) /\ s.kind \in {"forof", "forin"} /\ Struct /\ phase = "compiling" /\ phase' = phase
      /\ tree' = Append(tree, x) /\ frames' = Append(frames, Frame(New, 1))
      /\ at' = Blk(New, "body") /\ exiting' = Append(exiting, Blk(New, "exiting"))
      /\ latches' = Append(latches, Blk(New, "latch")) /\ bodyExit' = bodyExit /\ pads' = pads
  BY DEF OpenForOf, OpenForIn, Iterate, CompilingInv, CanAdd, Open
<1>2. x.kind \in {"forof", "forin"} /\ x.kind = s.kind /\ x.opts = s.opts
  BY <1>1, CanStand
<1>3. Struct'
  <2>1. s.kind \notin LeafKinds /\ s.kind # "switch"
    BY <1>1 DEF LeafKinds, JumpKinds
  <2> QED BY <1>1, <2>1, OpenStruct
<1> HIDE DEF x
<1>4. code' = done /\ scopes' = ss
  <2>1. code' = done
    BY DEF OpenForOf, OpenForIn, Iterate, IteratorOpened
  <2>2. scopes' = ss
    <3>1. CASE OpenForOf(s)
      BY <1>2, <3>1 DEF OpenForOf
    <3>2. CASE OpenForIn(s)
      BY <1>2, <3>2 DEF OpenForIn
    <3> QED BY <3>1, <3>2
  <2> QED BY <2>1, <2>2
<1>5. ASSUME MatchIn(tree')
      PROVE  Matches(tree', frames', exiting', latches', bodyExit', pads', scopes', code', at')
  <2>1. Ready(tree, frames, x, tree', New, exiting, latches, bodyExit, pads, scopes, code, at)
    BY <1>1, <1>5, CanReady DEF x
  <2>2. Matches(tree', frames', Append(exiting, Blk(New, "exiting")), Append(latches, Blk(New, "latch")),
                bodyExit, pads, ss, done, Blk(New, "body"))
    BY <1>1, <1>2, <2>1, OpenForOfStep
  <2> QED BY <1>1, <1>4, <2>2
<1> QED BY <1>1, <1>3, <1>5, StepKeeps

LEMMA OpenTryKeeps ==
  ASSUME NEW s \in Shapes, family \in DOMAIN Families, CompilingInv, OpenTry(s)
  PROVE  Keeping
<1> DEFINE x == Node(s)
           done == code ++ In(at, <<Br({Blk(New, "try")})>>) ++ In(Blk(New, "try"), <<>>) ++ In(Blk(New, "pad"), <<>>)
<1>1. /\ CanAdd(s) /\ Open(s) /\ s.kind = "try" /\ Struct /\ phase = "compiling" /\ phase' = phase
      /\ tree' = Append(tree, x) /\ frames' = Append(frames, Frame(New, 1)) /\ code' = done
      /\ at' = Blk(New, "try") /\ exiting' = exiting /\ latches' = latches /\ bodyExit' = bodyExit
      /\ pads' = Append(pads, Blk(New, "pad")) /\ scopes' = scopes
  BY DEF OpenTry, CompilingInv, CanAdd, Open
<1>2. x.kind = "try"
  BY <1>1, CanStand
<1>3. Struct'
  <2>1. s.kind \notin LeafKinds /\ s.kind # "switch"
    BY <1>1 DEF LeafKinds, JumpKinds
  <2> QED BY <1>1, <2>1, OpenStruct
<1> HIDE DEF x
<1>4. ASSUME MatchIn(tree')
      PROVE  Matches(tree', frames', exiting', latches', bodyExit', pads', scopes', code', at')
  <2>1. Ready(tree, frames, x, tree', New, exiting, latches, bodyExit, pads, scopes, code, at)
    BY <1>1, <1>4, CanReady DEF x
  <2>2. Matches(tree', frames', exiting, latches, bodyExit, Append(pads, Blk(New, "pad")), scopes, done,
                Blk(New, "try"))
    BY <1>1, <1>2, <2>1, OpenTryStep
  <2> QED BY <1>1, <2>2
<1> QED BY <1>1, <1>3, <1>4, StepKeeps

(* The clause a switch compiles first. *)
LEMMA FirstClause ==
  ASSUME NEW x \in NodeRecords, x.clauses # <<>>, \A j, k \in Defaults(x.clauses) : j = k
  PROVE  Ordered(x.clauses)[1] \in Nat /\ Ordered(x.clauses)[1] \in DOMAIN x.clauses
<1> DEFINE q == x.clauses  o == Ordered(q)
<1>1. Order(q, o, Cases(q))
  <2>1. q \in Seq(Clauses)
    BY DEF NodeRecords
  <2> QED BY <2>1, OrderIs
<1> HIDE DEF q, o
<1>2. o \in Seq(1..Len(q)) /\ 1 \in 1..Len(o) /\ DOMAIN q = 1..Len(q) /\ Len(q) \in Nat
  BY <1>1 DEF Order
<1>3. o[1] \in 1..Len(q)
  <2>1. \A i \in 1..Len(o) : o[i] \in 1..Len(q)
    BY <1>2, Sequence
  <2> QED BY <1>2, <2>1
<1>4. o[1] \in Nat /\ o[1] \in DOMAIN q
  BY <1>2, <1>3
<1> QED BY <1>4 DEF o, q

LEMMA OpenSwitchKeeps ==
  ASSUME NEW s \in Shapes, family \in DOMAIN Families, CompilingInv, OpenSwitch(s)
  PROVE  Keeping
<1> DEFINE x == Node(s)
           slot == Ordered(x.clauses)[1]
           done == code ++ In(at, <<Br({Blk(New, "switch")})>>) ++ In(Blk(New, "switch"), <<>>)
                        ++ In(Blk(New, "exiting"), <<Br({Blk(New, "end")})>>) ++ In(Blk(New, "end"), <<>>)
                        ++ [y \in {Clause(New, i) : i \in 1..Len(x.clauses)} |-> <<>>]
<1>1. /\ CanAdd(s) /\ s.kind = "switch" /\ Struct /\ phase = "compiling" /\ phase' = phase
      /\ tree' = Append(tree, x)
      /\ exiting' = Append(exiting, Blk(New, "exiting"))
      /\ latches' = latches /\ bodyExit' = bodyExit /\ pads' = pads /\ scopes' = scopes
  BY DEF OpenSwitch, CompilingInv, CanAdd
<1>2. x.kind = "switch" /\ x.clauses = s.clauses /\ Stands(tree, frames, x, tree')
  BY <1>1, CanStand
<1>3. frames' = Append(frames, Frame(New, slot)) /\ code' = done /\ at' = Clause(New, slot)
  BY <1>2 DEF OpenSwitch
<1>4. slot \in Nat /\ slot \in DOMAIN x.clauses
  <2>1. x \in NodeRecords /\ x.clauses # <<>> /\ \A j, k \in Defaults(x.clauses) : j = k
    BY <1>2 DEF Stands, Belongs
  <2> QED BY <2>1, FirstClause
<1>5. Struct'
  <2> DEFINE L == Len(tree) + 1  u == tree'
  <2> HIDE DEF L, u, x, slot
  <2>1. Stands(tree, frames, x, u) /\ L = Len(tree) + 1
    BY <1>2 DEF L, u
  <2>2. Shaped(u) /\ Len(u) = L /\ u[L] = x
    BY <2>1, Standing
  <2>3. Fits(u, L, slot)
    BY <1>2, <1>4, <2>2 DEF Fits
  <2>4. Begun(tree, frames, x, u, L, slot, frames')
    BY <1>2, <1>3, <1>4, <2>1, <2>3 DEF Begun, New, LeafKinds, JumpKinds, L
  <2>5. Nested(u, frames')
    BY <2>4, Began
  <2> QED BY <2>2, <2>5 DEF Struct, u
<1> HIDE DEF x
<1>6. ASSUME MatchIn(tree')
      PROVE  Matches(tree', frames', exiting', latches', bodyExit', pads', scopes', code', at')
  <2>1. Ready(tree, frames, x, tree', New, exiting, latches, bodyExit, pads, scopes, code, at)
    BY <1>1, <1>6, CanReady DEF x
  <2>2. Matches(tree', frames', Append(exiting, Blk(New, "exiting")), latches, bodyExit, pads, scopes, done,
                Clause(New, slot))
    BY <1>2, <1>3, <2>1, OpenSwitchStep
  <2> QED BY <1>1, <1>3, <2>2
<1> QED BY <1>1, <1>5, <1>6, StepKeeps

(* Where a handler ends, or goes on to its next part, the program is the   *)
(* same.                                                                   *)
LEMMA WorkingHere ==
  ASSUME CompilingInv, tree' = tree, MatchIn(tree'), NEW n, n = Top(frames).node, NEW slot, slot = Top(frames).slot
  PROVE  Working(tree, frames, n, slot, exiting, latches, bodyExit, pads, scopes, code, at)
BY DEF Working, CompilingInv, Struct

(* The handlers after a statement has ended. *)
LEMMA CloseStruct ==
  ASSUME Struct, Close, Parent.kind # "function"
  PROVE  Struct'
<1>1. Shaped(tree) /\ Nested(tree, frames) /\ tree[Top(frames).node].kind # "function" /\ frames' = Pop(frames)
  BY DEF Struct, Close, Parent
<1>2. Nested(tree, frames')
  BY <1>1, LeftIs
<1> QED BY <1>1, <1>2 DEF Close, Struct

(* The handlers after one has gone on to another slot. *)
LEMMA MoveStruct ==
  ASSUME Struct, NEW slot \in Nat, NextSlot(slot), Parent.kind # "function", Fits(tree, Top(frames).node, slot),
         Parent.kind = "try" => Top(frames).slot <= slot
  PROVE  Struct'
<1> DEFINE n == Top(frames).node
<1>1. Shaped(tree) /\ Nested(tree, frames) /\ tree[n].kind # "function"
      /\ frames' = Append(Pop(frames), Frame(n, slot))
  BY DEF Struct, NextSlot, Parent
<1>2. Inner(tree, frames, n, Top(frames).slot)
  BY <1>1, InnerIs
<1>3. n # 1
  BY <1>1, <1>2 DEF Inner
<1>4. Nested(tree, frames')
  BY <1>1, <1>3, Moved DEF Parent
<1> QED BY <1>1, <1>4 DEF NextSlot, Struct

LEMMA CloseBlockKeeps ==
  ASSUME CompilingInv, CloseBlock
  PROVE  Keeping
<1> DEFINE n == Top(frames).node  slot == Top(frames).slot
<1>1. /\ tree[n].kind = "block" /\ slot = 1 /\ Close /\ Struct /\ phase' = "compiling"
      /\ tree' = tree /\ frames' = Pop(frames) /\ code' = code ++ In(at, Deinitialize(Top(scopes)))
      /\ at' = at /\ exiting' = exiting /\ latches' = latches /\ bodyExit' = bodyExit /\ pads' = pads
      /\ scopes' = Pop(scopes)
  BY DEF CloseBlock, Doing, Close, Parent, CompilingInv
<1>2. Struct'
  BY <1>1, CloseStruct DEF Parent
<1>3. ASSUME MatchIn(tree')
      PROVE  Matches(tree', frames', exiting', latches', bodyExit', pads', scopes', code', at')
  <2>1. Working(tree, frames, n, slot, exiting, latches, bodyExit, pads, scopes, code, at)
    BY <1>1, <1>3, WorkingHere
  <2> HIDE DEF n, slot
  <2>2. Matches(tree, frames', exiting, latches, bodyExit, pads, Pop(scopes), code ++ In(at, Deinitialize(Top(scopes))), at)
    BY <1>1, <2>1, CloseBlockStep
  <2> QED BY <1>1, <2>2
<1> QED BY <1>1, <1>2, <1>3, StepKeeps

LEMMA ElseKeeps ==
  ASSUME CompilingInv, Else
  PROVE  Keeping
<1> DEFINE n == Top(frames).node  slot == Top(frames).slot
<1>1. /\ tree[n].kind = "if" /\ slot = 1 /\ NextSlot(2) /\ Struct /\ phase' = "compiling"
      /\ tree' = tree /\ frames' = Append(Pop(frames), Frame(n, 2))
      /\ code' = BrUnlessTerminated(code, at, Blk(n, "endif")) /\ at' = Blk(n, "else")
      /\ exiting' = exiting /\ latches' = latches /\ bodyExit' = bodyExit /\ pads' = pads /\ scopes' = scopes
  BY DEF Else, Doing, NextSlot, Parent, CompilingInv
<1>2. Struct'
  <2>1. Fits(tree, n, 2) /\ 2 \in Nat
    BY <1>1 DEF Fits
  <2> QED BY <1>1, <2>1, MoveStruct DEF Parent
<1>3. ASSUME MatchIn(tree')
      PROVE  Matches(tree', frames', exiting', latches', bodyExit', pads', scopes', code', at')
  <2>1. Working(tree, frames, n, slot, exiting, latches, bodyExit, pads, scopes, code, at)
    BY <1>1, <1>3, WorkingHere
  <2> HIDE DEF n, slot
  <2>2. Matches(tree, frames', exiting, latches, bodyExit, pads, scopes,
                BrUnlessTerminated(code, at, Blk(n, "endif")), Blk(n, "else")) /\ Nested(tree, frames')
    BY <1>1, <2>1, ElseStep
  <2> QED BY <1>1, <2>2
<1> QED BY <1>1, <1>2, <1>3, StepKeeps

LEMMA CloseIfKeeps ==
  ASSUME CompilingInv, CloseIf
  PROVE  Keeping
<1> DEFINE n == Top(frames).node  slot == Top(frames).slot
<1>1. /\ tree[n].kind = "if" /\ slot = 2 /\ Close /\ Struct /\ phase' = "compiling"
      /\ tree' = tree /\ frames' = Pop(frames)
      /\ code' = BrUnlessTerminated(code, at, Blk(n, "endif")) /\ at' = Blk(n, "endif")
      /\ exiting' = exiting /\ latches' = latches /\ bodyExit' = bodyExit /\ pads' = pads /\ scopes' = scopes
  BY DEF CloseIf, Doing, Close, Parent, CompilingInv
<1>2. Struct'
  BY <1>1, CloseStruct DEF Parent
<1>3. ASSUME MatchIn(tree')
      PROVE  Matches(tree', frames', exiting', latches', bodyExit', pads', scopes', code', at')
  <2>1. Working(tree, frames, n, slot, exiting, latches, bodyExit, pads, scopes, code, at)
    BY <1>1, <1>3, WorkingHere
  <2> HIDE DEF n, slot
  <2>2. Matches(tree, frames', exiting, latches, bodyExit, pads, scopes,
                BrUnlessTerminated(code, at, Blk(n, "endif")), Blk(n, "endif"))
    BY <1>1, <2>1, CloseIfStep
  <2> QED BY <1>1, <2>2
<1> QED BY <1>1, <1>2, <1>3, StepKeeps

LEMMA CloseWhileKeeps ==
  ASSUME CompilingInv, CloseWhile
  PROVE  Keeping
<1> DEFINE n == Top(frames).node  slot == Top(frames).slot
           done == BrUnlessTerminated(code, at, Blk(n, "latch")) ++ In(Blk(n, "end"), <<>>)
<1>1. /\ tree[n].kind = "while" /\ Close /\ Struct /\ phase' = "compiling"
      /\ tree' = tree /\ frames' = Pop(frames) /\ code' = done /\ at' = Blk(n, "end")
      /\ exiting' = Pop(exiting) /\ latches' = latches /\ bodyExit' = bodyExit /\ pads' = pads
      /\ scopes' = Pop(scopes)
  BY DEF CloseWhile, Doing, Close, Parent, CompilingInv
<1>2. Struct'
  BY <1>1, CloseStruct DEF Parent
<1>3. ASSUME MatchIn(tree')
      PROVE  Matches(tree', frames', exiting', latches', bodyExit', pads', scopes', code', at')
  <2>1. Working(tree, frames, n, slot, exiting, latches, bodyExit, pads, scopes, code, at)
    BY <1>1, <1>3, WorkingHere
  <2> HIDE DEF n, slot
  <2>2. Matches(tree, frames', Pop(exiting), latches, bodyExit, pads, Pop(scopes), done, Blk(n, "end"))
    BY <1>1, <2>1, CloseWhileStep
  <2> QED BY <1>1, <2>2
<1> QED BY <1>1, <1>2, <1>3, StepKeeps

LEMMA CloseDoKeeps ==
  ASSUME CompilingInv, CloseDo
  PROVE  Keeping
<1> DEFINE n == Top(frames).node  slot == Top(frames).slot
           done == BrUnlessTerminated(code, at, Blk(n, "latch"))
                     ++ In(Blk(n, "latch"), <<Br({Blk(n, "cond")})>>)
                     ++ In(Blk(n, "cond"), <<Eval(Blk(n, "cond")), Br({Blk(n, "body"), Blk(n, "exiting")})>>)
                     ++ In(Blk(n, "exiting"), <<Br({Blk(n, "end")})>>)
<1>1. /\ tree[n].kind = "do" /\ Close /\ Struct /\ phase' = "compiling"
      /\ tree' = tree /\ frames' = Pop(frames) /\ code' = done /\ at' = Blk(n, "end")
      /\ exiting' = Pop(exiting) /\ latches' = latches /\ bodyExit' = bodyExit /\ pads' = pads
      /\ scopes' = Pop(scopes)
  BY DEF CloseDo, Doing, Close, Parent, CompilingInv
<1>2. Struct'
  BY <1>1, CloseStruct DEF Parent
<1>3. ASSUME MatchIn(tree')
      PROVE  Matches(tree', frames', exiting', latches', bodyExit', pads', scopes', code', at')
  <2>1. Working(tree, frames, n, slot, exiting, latches, bodyExit, pads, scopes, code, at)
    BY <1>1, <1>3, WorkingHere
  <2> HIDE DEF n, slot
  <2>2. Matches(tree, frames', Pop(exiting), latches, bodyExit, pads, Pop(scopes), done, Blk(n, "end"))
    BY <1>1, <2>1, CloseDoStep
  <2> QED BY <1>1, <2>2
<1> QED BY <1>1, <1>2, <1>3, StepKeeps

LEMMA CloseForKeeps ==
  ASSUME CompilingInv, CloseFor
  PROVE  Keeping
<1> DEFINE n == Top(frames).node  slot == Top(frames).slot
           opts == tree[n].opts
           body(rs) == IF Terminated(code, at) THEN BeforeTerminator(code, at, ReleaseAll(rs))
                       ELSE code ++ In(at, ReleaseAll(rs) \o <<Br({Blk(n, "latch")})>>)
           turned(c) == IF "inc" \in opts
                        THEN c ++ In(Blk(n, "inc"), <<Eval(Blk(n, "inc")), Br({IterationOf(n, opts)})>>)
                        ELSE c
           original == Originals(tree, n, scopes)
<1>1. /\ tree[n].kind = "for" /\ Close /\ Struct /\ phase' = "compiling"
      /\ tree' = tree /\ frames' = Pop(frames) /\ at' = Blk(n, "end")
      /\ code' = turned(body(BodyExit)) ++ In(Blk(n, "end"), Deinitialize(original))
      /\ exiting' = Pop(exiting) /\ latches' = latches /\ bodyExit' = Pop(bodyExit) /\ pads' = pads
      /\ scopes' = (IF tree[n].decl THEN Pop(scopes) ELSE scopes)
  BY DEF CloseFor, Doing, Close, Parent, CompilingInv, Originals
<1>2. Struct'
  BY <1>1, CloseStruct DEF Parent
<1>3. ASSUME MatchIn(tree')
      PROVE  Matches(tree', frames', exiting', latches', bodyExit', pads', scopes', code', at')
  <2> DEFINE it == IF "inc" \in opts
                   THEN BodyLeft(tree, n, code, at)
                          ++ In(Blk(n, "inc"), <<Eval(Blk(n, "inc")), Br({IterationOf(n, opts)})>>)
                   ELSE BodyLeft(tree, n, code, at)
  <2>1. Working(tree, frames, n, slot, exiting, latches, bodyExit, pads, scopes, code, at)
    BY <1>1, <1>3, WorkingHere
  <2>2. BodyExit = Copies(tree, n)
    <3> HIDE DEF n, slot
    <3>1. BodyExitOf(tree, bodyExit) = Copies(tree, n)
      BY <1>1, <2>1, OwnBodyExit
    <3> QED BY <3>1, BodyExitIs
  <2>3. turned(body(BodyExit)) = it
    BY <2>2 DEF BodyLeft
  <2> HIDE DEF n, slot, turned, body
  <2>4. Matches(tree, frames', Pop(exiting), latches, Pop(bodyExit), pads, IF tree[n].decl THEN Pop(scopes) ELSE scopes,
                it ++ In(Blk(n, "end"), Deinitialize(original)), Blk(n, "end"))
    BY <1>1, <2>1, CloseForStep
  <2> QED BY <1>1, <2>3, <2>4
<1> QED BY <1>1, <1>2, <1>3, StepKeeps

LEMMA CloseForOfKeeps ==
  ASSUME CompilingInv, CloseForOf \/ CloseForIn
  PROVE  Keeping
<1> DEFINE n == Top(frames).node  slot == Top(frames).slot
           place == IF tree[n].kind = "forof" /\ "tuple" \in tree[n].opts THEN {Blk(n, "element")} ELSE {}
           done == BrUnlessTerminated(code, at, Blk(n, "latch"))
                     ++ In(Blk(n, "exiting"), <<Br({Blk(n, "end")})>>)
                     ++ In(Blk(n, "end"), ReleaseAll(place) \o Deinitialize(Top(scopes)))
<1>1. /\ tree[n].kind \in {"forof", "forin"} /\ Close /\ Struct /\ phase' = "compiling"
      /\ tree' = tree /\ frames' = Pop(frames) /\ at' = Blk(n, "end")
      /\ exiting' = Pop(exiting) /\ latches' = latches /\ bodyExit' = bodyExit /\ pads' = pads
      /\ scopes' = Pop(scopes)
  BY DEF CloseForOf, CloseForIn, EndIterations, Doing, Close, Parent, CompilingInv
<1>2. code' = done
  <2>1. CASE CloseForOf
    <3>1. tree[n].kind = "forof"
      BY <2>1 DEF CloseForOf, Doing, Parent
    <3> QED BY <2>1, <3>1 DEF CloseForOf, EndIterations, Parent
  <2>2. CASE CloseForIn
    <3>1. place = {}
      BY <2>2 DEF CloseForIn, Doing, Parent
    <3> HIDE DEF place
    <3> QED BY <2>2, <3>1 DEF CloseForIn, EndIterations
  <2> QED BY <2>1, <2>2
<1>3. Struct'
  BY <1>1, CloseStruct DEF Parent
<1>4. ASSUME MatchIn(tree')
      PROVE  Matches(tree', frames', exiting', latches', bodyExit', pads', scopes', code', at')
  <2>1. Working(tree, frames, n, slot, exiting, latches, bodyExit, pads, scopes, code, at)
    BY <1>1, <1>4, WorkingHere
  <2> HIDE DEF n, slot
  <2>2. Matches(tree, frames', Pop(exiting), latches, bodyExit, pads, Pop(scopes), done, Blk(n, "end"))
    BY <1>1, <2>1, CloseForOfStep, SMTT(60)
  <2> QED BY <1>1, <1>2, <2>2
<1> QED BY <1>1, <1>3, <1>4, StepKeeps

LEMMA NextClauseKeeps ==
  ASSUME CompilingInv, NextClause
  PROVE  Keeping
<1> DEFINE n == Top(frames).node  slot == Top(frames).slot
           o == Ordered(tree[n].clauses)  k == Position(o, slot)  next == o[k + 1]
<1>1. /\ tree[n].kind = "switch" /\ NextSlot(next) /\ k < Len(o) /\ Struct /\ phase' = "compiling"
      /\ tree' = tree /\ frames' = Append(Pop(frames), Frame(n, next))
      /\ code' = BrUnlessTerminated(code, at, Clause(n, next)) /\ at' = Clause(n, next)
      /\ exiting' = exiting /\ latches' = latches /\ bodyExit' = bodyExit /\ pads' = pads /\ scopes' = scopes
  BY DEF NextClause, NextSlot, Parent, CompilingInv
<1>2. next \in Nat /\ Fits(tree, n, next)
  <2> DEFINE q == tree[n].clauses
  <2>1. Shaped(tree) /\ Inner(tree, frames, n, slot)
    BY <1>1, InnerIs DEF Struct
  <2>2. n \in 1..Len(tree) /\ Fits(tree, n, slot)
    BY <2>1 DEF Inner
  <2> HIDE DEF n, slot
  <2>3. /\ Order(q, o, Cases(q)) /\ Len(q) \in Nat \ {0} /\ DOMAIN q = 1..Len(q) /\ slot \in 1..Len(q)
        /\ Len(o) = Len(q) /\ DOMAIN o = 1..Len(q) /\ \A i \in 1..Len(q) : o[i] \in 1..Len(q)
        /\ Position(o, slot) \in 1..Len(q) /\ o[Position(o, slot)] = slot
    BY <1>1, <2>1, <2>2, SwitchOrder, SMTT(60)
  <2> HIDE DEF q, o
  <2>4. k \in 1..Len(q) /\ k < Len(q) /\ Len(q) \in Nat
    BY <1>1, <2>3
  <2> HIDE DEF k
  <2>5. k + 1 \in 1..Len(q)
    BY <2>4
  <2>6. next \in 1..Len(q)
    BY <2>3, <2>5
  <2>7. next \in Nat /\ next \in DOMAIN q
    BY <2>3, <2>4, <2>6, SMTT(60)
  <2> QED BY <1>1, <2>7, SMTT(60) DEF Fits, q
<1>3. Struct'
  BY <1>1, <1>2, MoveStruct DEF Parent
<1>4. ASSUME MatchIn(tree')
      PROVE  Matches(tree', frames', exiting', latches', bodyExit', pads', scopes', code', at')
  <2>1. Working(tree, frames, n, slot, exiting, latches, bodyExit, pads, scopes, code, at)
    BY <1>1, <1>4, WorkingHere
  <2> HIDE DEF n, slot
  <2>2. Matches(tree, frames', exiting, latches, bodyExit, pads, scopes,
                BrUnlessTerminated(code, at, Clause(n, next)), Clause(n, next)) /\ Nested(tree, frames')
    BY <1>1, <2>1, NextClauseStep
  <2> QED BY <1>1, <2>2, SMTT(60)
<1> QED BY <1>1, <1>3, <1>4, StepKeeps

(* The code of a switch, with the conditions of its clauses.               *)
LEMMA SwitchCode ==
  ASSUME CloseSwitch, NEW n, n = Top(frames).node, NEW q, q = Parent.clauses,
         NEW d, d = Discriminant(n, Parent.opts)
  PROVE  code' = BrUnlessTerminated(code, at, Blk(n, "end"))
                   ++ In(Blk(n, "switch"), <<Br({SwitchNext(n, q, 0)})>>)
                   ++ [y \in SwitchTests(n, q) |-> SwitchTest(n, q, y, d)]
BY SMT DEF CloseSwitch, SwitchNext, SwitchTest, SwitchTests, Discriminant

(* What the end of a switch changes besides the code. *)
LEMMA SwitchLeaves ==
  ASSUME CloseSwitch
  PROVE  /\ Parent.kind = "switch" /\ Close /\ phase = "compiling" /\ phase' = phase
         /\ at' = Blk(Top(frames).node, "end")
         /\ exiting' = exiting /\ latches' = latches /\ bodyExit' = bodyExit /\ pads' = pads /\ scopes' = scopes
BY DEF CloseSwitch

LEMMA CloseSwitchKeeps ==
  ASSUME CompilingInv, CloseSwitch
  PROVE  Keeping
<1> DEFINE n == Top(frames).node  slot == Top(frames).slot  q == tree[n].clauses
           d == Discriminant(n, tree[n].opts)
           done == BrUnlessTerminated(code, at, Blk(n, "end"))
                     ++ In(Blk(n, "switch"), <<Br({SwitchNext(n, q, 0)})>>)
                     ++ [y \in SwitchTests(n, q) |-> SwitchTest(n, q, y, d)]
<1>1. /\ tree[n].kind = "switch" /\ Close /\ Struct /\ phase' = "compiling"
      /\ tree' = tree /\ frames' = Pop(frames) /\ at' = Blk(n, "end")
      /\ exiting' = exiting /\ latches' = latches /\ bodyExit' = bodyExit /\ pads' = pads /\ scopes' = scopes
  BY SwitchLeaves DEF Close, Parent, CompilingInv
<1>2. code' = done
  <2>1. q = Parent.clauses /\ d = Discriminant(n, Parent.opts)
    BY DEF Parent
  <2> HIDE DEF n, q, d
  <2>2. n = Top(frames).node
    BY DEF n
  <2> QED BY <2>1, <2>2, SwitchCode
<1>3. Struct'
  BY <1>1, CloseStruct DEF Parent
<1>4. ASSUME MatchIn(tree')
      PROVE  Matches(tree', frames', exiting', latches', bodyExit', pads', scopes', code', at')
  <2>1. Working(tree, frames, n, slot, exiting, latches, bodyExit, pads, scopes, code, at)
    BY <1>1, <1>4, WorkingHere
  <2> HIDE DEF n, slot, q, d
  <2>2. q = tree[n].clauses /\ d = Discriminant(n, tree[n].opts)
    BY DEF q, d
  <2>3. Matches(tree, frames', exiting, latches, bodyExit, pads, scopes, done, Blk(n, "end"))
    BY <1>1, <2>1, <2>2, CloseSwitchStep
  <2> QED BY <1>1, <1>2, <2>3
<1> QED BY <1>1, <1>3, <1>4, StepKeeps

LEMMA CatchKeeps ==
  ASSUME CompilingInv, Catch
  PROVE  Keeping
<1> DEFINE n == Top(frames).node  slot == Top(frames).slot
           done == BrUnlessTerminated(code, at, Blk(n, "after")) ++ In(Blk(n, "after"), <<>>)
<1>1. /\ tree[n].kind = "try" /\ slot = 1 /\ "catch" \in tree[n].opts /\ NextSlot(2) /\ Struct /\ phase' = "compiling"
      /\ tree' = tree /\ frames' = Append(Pop(frames), Frame(n, 2)) /\ code' = done /\ at' = Top(pads)
      /\ exiting' = exiting /\ latches' = latches /\ bodyExit' = bodyExit /\ pads' = Pop(pads) /\ scopes' = scopes
  BY DEF Catch, Doing, NextSlot, Parent, CompilingInv
<1>2. Struct'
  <2>1. Fits(tree, n, 2) /\ 2 \in Nat /\ slot <= 2
    BY <1>1 DEF Fits
  <2> QED BY <1>1, <2>1, MoveStruct DEF Parent
<1>3. ASSUME MatchIn(tree')
      PROVE  Matches(tree', frames', exiting', latches', bodyExit', pads', scopes', code', at')
  <2>1. Working(tree, frames, n, slot, exiting, latches, bodyExit, pads, scopes, code, at)
    BY <1>1, <1>3, WorkingHere
  <2> HIDE DEF n, slot
  <2>2. Matches(tree, frames', exiting, latches, bodyExit, Pop(pads), scopes, done, Top(pads)) /\ Nested(tree, frames')
    BY <1>1, <2>1, CatchStep
  <2> QED BY <1>1, <2>2
<1> QED BY <1>1, <1>2, <1>3, StepKeeps

LEMMA CloseTryKeeps ==
  ASSUME CompilingInv, CloseTry
  PROVE  Keeping
<1> DEFINE n == Top(frames).node  slot == Top(frames).slot
           done == BrUnlessTerminated(code ++ In(at, CaughtReleased(n, code, at)), at, Blk(n, "after"))
<1>1. /\ tree[n].kind = "try" /\ slot = 2 /\ Filled /\ Close /\ Struct /\ phase' = "compiling"
      /\ tree' = tree /\ frames' = Pop(frames) /\ at' = Blk(n, "after")
      /\ exiting' = exiting /\ latches' = latches /\ bodyExit' = bodyExit /\ pads' = pads /\ scopes' = scopes
  BY DEF CloseTry, Doing, Close, Parent, CompilingInv
<1>2. code' = done
  BY DEF CloseTry, CaughtReleased
<1>3. PICK m \in 1..Len(tree) : tree[m].parent = n /\ tree[m].slot = 2
  BY <1>1 DEF Filled, Here, Kids
<1>4. Struct'
  BY <1>1, CloseStruct DEF Parent
<1>5. ASSUME MatchIn(tree')
      PROVE  Matches(tree', frames', exiting', latches', bodyExit', pads', scopes', code', at')
  <2>1. Working(tree, frames, n, slot, exiting, latches, bodyExit, pads, scopes, code, at)
    BY <1>1, <1>5, WorkingHere
  <2> HIDE DEF n, slot
  <2>2. Matches(tree, frames', exiting, latches, bodyExit, pads, scopes, done, Blk(n, "after"))
    BY <1>1, <1>3, <2>1, CloseTryStep
  <2> QED BY <1>1, <1>2, <2>2
<1> QED BY <1>1, <1>4, <1>5, StepKeeps

LEMMA CloseTryWithoutCatchKeeps ==
  ASSUME CompilingInv, CloseTryWithoutCatch
  PROVE  Keeping
<1> DEFINE n == Top(frames).node  slot == Top(frames).slot
           done == BrUnlessTerminated(code, at, Blk(n, "after")) ++ In(Blk(n, "after"), <<>>)
<1>1. /\ tree[n].kind = "try" /\ slot = 1 /\ "catch" \notin tree[n].opts /\ Close /\ Struct /\ phase' = "compiling"
      /\ tree' = tree /\ frames' = Pop(frames) /\ code' = done /\ at' = Blk(n, "after")
      /\ exiting' = exiting /\ latches' = latches /\ bodyExit' = bodyExit /\ pads' = pads /\ scopes' = scopes
  BY DEF CloseTryWithoutCatch, Doing, Close, Parent, CompilingInv
<1>2. Struct'
  BY <1>1, CloseStruct DEF Parent
<1>3. ASSUME MatchIn(tree')
      PROVE  Matches(tree', frames', exiting', latches', bodyExit', pads', scopes', code', at')
  <2>1. Working(tree, frames, n, slot, exiting, latches, bodyExit, pads, scopes, code, at)
    BY <1>1, <1>3, WorkingHere
  <2> HIDE DEF n, slot
  <2>2. Matches(tree, frames', exiting, latches, bodyExit, pads, scopes, done, Blk(n, "after"))
    BY <1>1, <2>1, CloseTryWithoutCatchStep
  <2> QED BY <1>1, <2>2
<1> QED BY <1>1, <1>2, <1>3, StepKeeps

(* The end of the function: LLVM accepts it or not.                        *)
Accepting == phase' = "accepted" /\ AcceptedInv'

LEMMA CloseFunctionKeeps ==
  ASSUME CompilingInv, CloseFunction
  PROVE  Accepting \/ Refusing
<1> DEFINE n == Top(frames).node  slot == Top(frames).slot
           done == code ++ In(at, Deinitialize(Top(scopes)) \o (IF Terminated(code, at) THEN <<>> ELSE <<Ret>>))
<1>1. /\ tree[n].kind = "function" /\ Struct /\ tree' = tree /\ code' = done
      /\ phase' = IF WellFormed(done) THEN "accepted" ELSE "rejected"
  BY DEF CloseFunction, Doing, Parent, CompilingInv
<1>2. CASE ~WellFormed(done)
  BY <1>1, <1>2 DEF Refusing
<1>3. CASE WellFormed(done)
  <2>1. phase' = "accepted"
    BY <1>1, <1>3
  <2>2. Shaped(tree)'
    BY <1>1 DEF Struct
  <2>3. ASSUME MatchIn(tree')
        PROVE  Compiled(tree', code')
    <3>1. Working(tree, frames, n, slot, exiting, latches, bodyExit, pads, scopes, code, at)
      BY <1>1, <2>3, WorkingHere
    <3> HIDE DEF n, slot
    <3>2. EndsOnce(done)
      BY <1>3 DEF WellFormed
    <3>3. Compiled(tree, done)
      BY <1>1, <3>1, <3>2, CloseFunctionStep
    <3> QED BY <1>1, <3>3
  <2> QED BY <2>1, <2>2, <2>3 DEF Accepting, AcceptedInv
<1> QED BY <1>2, <1>3

(* A step of the compiler.                                                 *)
LEMMA CompilerStep ==
  ASSUME family \in DOMAIN Families, phase = "compiling" => CompilingInv, Next
  PROVE  (Keeping \/ Accepting \/ Refusing) /\ family' = family /\ phase = "compiling"
<1>1. family' = family
  BY DEF Next
<1>2. ASSUME NEW s \in Shapes, Statement(s)
      PROVE  (Keeping \/ Refusing) /\ phase = "compiling"
  <2>1. phase = "compiling"
    BY <1>2 DEF Statement, Expression, Closure, Logic, Ternary, Invoke, Break, Continue, Return, Throw, OpenBlock,
                OpenIf, OpenWhile, OpenDo, OpenFor, OpenForOf, OpenForIn, OpenSwitch, OpenTry, CanAdd
  <2>2. CompilingInv
    BY <2>1
  <2>3. CASE Expression(s)
    BY <2>1, <2>2, <2>3, ExpressionKeeps
  <2>4. CASE Logic(s)
    BY <2>1, <2>2, <2>4, LogicKeeps
  <2>5. CASE Ternary(s)
    BY <2>1, <2>2, <2>5, TernaryKeeps
  <2>6. CASE Invoke(s)
    BY <2>1, <2>2, <2>6, InvokeKeeps
  <2>7. CASE Break(s)
    BY <2>1, <2>2, <2>7, BreakKeeps
  <2>8. CASE Continue(s)
    BY <2>1, <2>2, <2>8, ContinueKeeps
  <2>9. CASE Return(s)
    BY <2>1, <2>2, <2>9, ReturnKeeps
  <2>10. CASE Throw(s)
    BY <2>1, <2>2, <2>10, ThrowKeeps
  <2>11. CASE OpenBlock(s)
    BY <2>1, <2>2, <2>11, OpenBlockKeeps
  <2>12. CASE OpenIf(s)
    BY <2>1, <2>2, <2>12, OpenIfKeeps
  <2>13. CASE OpenWhile(s)
    BY <2>1, <2>2, <2>13, OpenWhileKeeps
  <2>14. CASE OpenDo(s)
    BY <2>1, <2>2, <2>14, OpenDoKeeps
  <2>15. CASE OpenFor(s)
    BY <2>1, <2>2, <2>15, OpenForKeeps
  <2>16. CASE OpenForOf(s) \/ OpenForIn(s)
    BY <2>1, <2>2, <2>16, OpenForOfKeeps
  <2>17. CASE OpenSwitch(s)
    BY <2>1, <2>2, <2>17, OpenSwitchKeeps
  <2>18. CASE OpenTry(s)
    BY <2>1, <2>2, <2>18, OpenTryKeeps
  <2>19. CASE Closure(s)
    BY <2>1, <2>2, <2>19, ClosureKeeps
  <2> QED BY <1>2, <2>1, <2>3, <2>4, <2>5, <2>6, <2>7, <2>8, <2>9, <2>10, <2>11, <2>12, <2>13, <2>14, <2>15, <2>16,
             <2>17, <2>18, <2>19 DEF Statement
<1>3. ASSUME Closing
      PROVE  (Keeping \/ Accepting \/ Refusing) /\ phase = "compiling"
  <2>1. phase = "compiling"
    BY <1>3 DEF Closing, CloseBlock, Else, CloseIf, CloseWhile, CloseDo, CloseFor, CloseForOf, CloseForIn, NextClause,
                CloseSwitch, Catch, CloseTry, CloseTryWithoutCatch, CloseFunction, Doing
  <2>2. CompilingInv
    BY <2>1
  <2>3. CASE CloseBlock
    BY <2>1, <2>2, <2>3, CloseBlockKeeps
  <2>4. CASE Else
    BY <2>1, <2>2, <2>4, ElseKeeps
  <2>5. CASE CloseIf
    BY <2>1, <2>2, <2>5, CloseIfKeeps
  <2>6. CASE CloseWhile
    BY <2>1, <2>2, <2>6, CloseWhileKeeps
  <2>7. CASE CloseDo
    BY <2>1, <2>2, <2>7, CloseDoKeeps
  <2>8. CASE CloseFor
    BY <2>1, <2>2, <2>8, CloseForKeeps
  <2>9. CASE CloseForOf \/ CloseForIn
    BY <2>1, <2>2, <2>9, CloseForOfKeeps
  <2>10. CASE NextClause
    BY <2>1, <2>2, <2>10, NextClauseKeeps
  <2>11. CASE CloseSwitch
    BY <2>1, <2>2, <2>11, CloseSwitchKeeps
  <2>12. CASE Catch
    BY <2>1, <2>2, <2>12, CatchKeeps
  <2>13. CASE CloseTry
    BY <2>1, <2>2, <2>13, CloseTryKeeps
  <2>14. CASE CloseTryWithoutCatch
    BY <2>1, <2>2, <2>14, CloseTryWithoutCatchKeeps
  <2>15. CASE CloseFunction
    BY <2>1, <2>2, <2>15, CloseFunctionKeeps
  <2> QED BY <1>3, <2>1, <2>3, <2>4, <2>5, <2>6, <2>7, <2>8, <2>9, <2>10, <2>11, <2>12, <2>13, <2>14, <2>15 DEF Closing
<1> QED BY <1>1, <1>2, <1>3 DEF Next

-----------------------------------------------------------------------------
(* The function begins *)

(* The program that is a function without statements. *)
LEMMA BeginsFunction ==
  ASSUME NEW x \in NodeRecords, x.kind = "function", x.parent = 0, x.slot = 1, NEW t, t = <<x>>,
         NEW f, f = <<Frame(1, 1)>>
  PROVE  /\ Shaped(t) /\ Nested(t, f) /\ Len(t) = 1 /\ 1..Len(t) = {1} /\ t[1] = x
         /\ Top(f).node = 1 /\ Opened(f) = {<<1, 1>>}
<1>1. Len(t) = 1 /\ t[1] = x /\ t \in Seq(NodeRecords) /\ t # <<>>
  <2> HIDE DEF NodeRecords
  <2> QED OBVIOUS
<1>2. 1..Len(t) = {1}
  BY <1>1
<1>3. Shaped(t)
  <2>1. 0 \in 0..0 /\ 1 - 1 = 0
    OBVIOUS
  <2>2. \A n \in 1..Len(t) : n = 1
    BY <1>2
  <2> QED BY <1>1, <2>1, <2>2 DEF Shaped
<1>4. Len(f) = 1 /\ f[1] = Frame(1, 1) /\ DOMAIN f = {1} /\ f # <<>>
  BY DEF Frame
<1>5. Frame(1, 1).node = 1 /\ Frame(1, 1).slot = 1
  BY DEF Frame
<1>6. Nested(t, f)
  <2>1. f \in Seq([node : 1..Len(t), slot : Nat])
    <3>1. Frame(1, 1) \in [node : 1..Len(t), slot : Nat]
      BY <1>1 DEF Frame
    <3> DEFINE S == [node : 1..Len(t), slot : Nat]
    <3> HIDE DEF S
    <3> QED BY <3>1 DEF S
  <2>2. NestedAt(t, f, 1)
    <3>1. Path(t, 1) = {}
      BY <1>3, Nowhere
    <3>2. 1..(1 - 1) = {} /\ (1 + 1)..Len(t) = {}
      BY <1>1
    <3>3. t[1].kind \notin LeafKinds /\ Fits(t, 1, 1)
      BY <1>1 DEF LeafKinds, JumpKinds, Fits
    <3>4. Path(t, 1) = {Pair(f[j]) : j \in 1..(1 - 1)}
      BY <3>1, <3>2
    <3>5. (\A j \in 1..(1 - 1) : f[j].node < 1) /\ (\A m \in (1 + 1)..Len(t) : 1 \in Climb(t)[m]) /\ t[1].kind # "try"
      BY <1>1, <3>2
    <3> QED BY <1>4, <1>5, <3>3, <3>4, <3>5 DEF NestedAt
  <2> QED BY <1>4, <2>1, <2>2 DEF Nested
<1>7. Top(f).node = 1 /\ Top(f).slot = 1
  BY <1>4, <1>5 DEF Top
<1>8. Opened(f) = {<<1, 1>>}
  BY <1>1, <1>3, <1>6, <1>7, OnlyFunction
<1> QED BY <1>1, <1>2, <1>3, <1>6, <1>7, <1>8

(* Its stacks and its code match. *)
LEMMA FunctionBegins ==
  ASSUME NEW x \in NodeRecords, x.kind = "function", x.parent = 0, x.slot = 1, NEW t, t = <<x>>,
         NEW f, f = <<Frame(1, 1)>>, NEW rs, rs = Local(x, 1), NEW b, b = Blk(1, "entry")
  PROVE  Matches(t, f, <<>>, <<>>, <<>>, <<>>, <<Scope(rs)>>, In(b, AcquireAll(rs)), b)
<1> DEFINE c == In(b, AcquireAll(rs))  s == AcquireAll(rs)  names == NamesOf(t)  T == Typing(t)
<1>1. /\ Shaped(t) /\ Nested(t, f) /\ Len(t) = 1 /\ 1..Len(t) = {1} /\ t[1] = x
      /\ Top(f).node = 1 /\ Opened(f) = {<<1, 1>>}
  BY BeginsFunction
<1>2. /\ Expected(t, f) = {} /\ OpenTries(t, f) = {} /\ Now(t, f) = Declared(t, 1)
  BY <1>1, OnlyFunction
<1>3. Declared(t, 1) = rs
  BY <1>1 DEF Declared, Local
<1>4. b \in names /\ rs \in SUBSET names /\ b[1] = 1
  <2>1. Blk(1, "entry") \in names /\ Blk(1, "local") \in names
    BY <1>1 DEF NamesOf, Parts, Blk
  <2> QED BY <2>1 DEF Local, Blk
<1>5. HeldIn(t, b) = {}
  <2>1. HeldIn(t, b) = ScopeIn(t, 1) \cup OwnHeld(t, 1, "entry")
    BY <1>1, HeldAre
  <2>2. ScopeIn(t, 1) = {}
    BY <1>1, Nowhere
  <2>3. OwnHeld(t, 1, "entry") = {}
    BY <1>1 DEF OwnHeld
  <2> QED BY <2>1, <2>2, <2>3
<1>6. \A kinds : "function" \notin kinds => OpenIn(t, f, kinds) = {}
  <2> SUFFICES ASSUME NEW kinds, "function" \notin kinds, NEW k \in OpenIn(t, f, kinds) PROVE FALSE
    OBVIOUS
  <2>0. \A m : m \in OpenIn(t, f, kinds) <=> \E o \in Opened(f) : m = o[1] /\ t[o[1]].kind \in kinds
    BY DEF OpenIn
  <2>1. PICK o \in Opened(f) : k = o[1] /\ t[o[1]].kind \in kinds
    BY <2>0
  <2>2. o[1] = 1
    BY <1>1, <2>1
  <2> QED BY <1>1, <2>1, <2>2
<1>7. \A S : <<>> \in Seq(S)
  OBVIOUS
<1>8. Elements(<<>>) = {} /\ Sorted(<<>>) /\ Increasing(<<>>)
  BY DEF Elements, Sorted, Increasing
<1>9. Stacked(t, f, <<>>, <<>>, <<>>, <<>>, c, b)
  <2>1. ExitsMatch(t, f, <<>>)
    <3>1. OpenIn(t, f, Breakable) = {}
      BY <1>6 DEF Breakable, LoopKinds
    <3> QED BY <1>7, <1>8, <3>1 DEF ExitsMatch
  <2>2. LatchesMatch(t, <<>>)
    <3>1. {m \in 1..Len(t) : t[m].kind \in LoopKinds} = {}
      BY <1>1 DEF LoopKinds
    <3> QED BY <1>7, <1>8, <3>1 DEF LatchesMatch
  <2>3. BodyExitsMatch(t, f, <<>>)
    <3>1. OpenIn(t, f, {"for"}) = {}
      BY <1>6
    <3> QED BY <1>7, <1>8, <3>1 DEF BodyExitsMatch
  <2>4. PadsMatch(t, f, <<>>, c, b)
    <3>1. \A n \in 1..Len(t) : t[n].kind # "try"
      BY <1>1
    <3> QED BY <1>2, <1>7, <1>8, <3>1 DEF PadsMatch
  <2> QED BY <2>1, <2>2, <2>3, <2>4 DEF Stacked
<1>10. ScopesMatch(t, f, <<Scope(rs)>>, c, b)
  <2> DEFINE ss == <<Scope(rs)>>  owner == <<1>>
  <2>1. Scope(rs).vals = rs /\ Scope(rs).isDeinitialized = FALSE
    BY DEF Scope
  <2>2. Scope(rs) \in [vals : SUBSET NamesOf(t), isDeinitialized : BOOLEAN]
    BY <1>4 DEF Scope
  <2>3. ss \in Seq([vals : SUBSET NamesOf(t), isDeinitialized : BOOLEAN]) /\ Len(ss) = 1 /\ ss[1] = Scope(rs)
    <3> DEFINE S == [vals : SUBSET NamesOf(t), isDeinitialized : BOOLEAN]
    <3>1. Scope(rs) \in S
      BY <2>2
    <3> HIDE DEF S
    <3>2. <<Scope(rs)>> \in Seq(S)
      BY <3>1
    <3> QED BY <3>2 DEF S
  <2>4. owner \in Seq(1..Len(t)) /\ Len(owner) = 1 /\ owner[1] = 1 /\ DOMAIN owner = {1}
    BY <1>1
  <2>5. Elements(owner) = {1} /\ Increasing(owner)
    <3>1. \A i \in DOMAIN owner : i = 1
      BY <2>4
    <3>2. ~(1 < 1)
      OBVIOUS
    <3> QED BY <2>4, <3>1, <3>2 DEF Elements, Increasing
  <2>6. ScopedIn(t, f) = {1}
    <3>1. \A k : k \in ScopedIn(t, f) <=> \E o \in Opened(f) : k = o[1] /\ Scoped(t, o[1])
      BY Readings
    <3>2. Scoped(t, 1)
      BY <1>1 DEF Scoped
    <3> DEFINE only == <<1, 1>>
    <3>3. only[1] = 1 /\ Opened(f) = {only}
      BY <1>1
    <3> HIDE DEF only
    <3>4. \A k : k \in ScopedIn(t, f) <=> k = 1
      BY <3>1, <3>2, <3>3
    <3> QED BY <3>4
  <2> HIDE DEF owner, ss
  <2>7. 1..Len(ss) = {1}
    BY <2>3
  <2>8. Owns(t, f, ss, owner)
    BY <1>3, <2>1, <2>3, <2>4, <2>5, <2>6, <2>7 DEF Owns
  <2>9. NoFlags(ss)
    BY <2>1, <2>3, <2>7 DEF NoFlags
  <2>10. ScopesMatch(t, f, ss, c, b)
    BY <2>3, <2>8, <2>9 DEF ScopesMatch
  <2> QED BY <2>10 DEF ss
<1>11. CodeMatches(t, f, c, b)
  <2>1. Runs(names, T, s, {}, {}, rs, {})
    <3>1. rs \cap ({} \cup {}) = {} /\ {} \cup rs = rs
      OBVIOUS
    <3>2. Runs(names, T, AcquireAll(rs), {}, {}, {} \cup rs, {})
      BY <1>4, <3>1, Acquiring
    <3> QED BY <3>1, <3>2
  <2>2. s \in Seq(Instructions(names)) /\ Leads(T, {}, s, rs, {})
    <3> HIDE DEF names, T, s
    <3>1. Leads(T, {}, <<>>, {}, {})
      BY Starting
    <3>2. <<>> \in Seq(Instructions(names)) /\ s \in Seq(Instructions(names))
      BY <2>1 DEF Runs
    <3>3. Leads(T, {}, <<>> \o s, rs, {})
      BY <2>1, <3>1, <3>2 DEF Runs
    <3>4. <<>> \o s = s
      BY <3>2
    <3> QED BY <3>2, <3>3, <3>4
  <2>3. DOMAIN c = {b} /\ c[b] = s /\ c = [y \in DOMAIN c |-> c[y]]
    BY DEF In
  <2> HIDE DEF c, s
  <2>4. Written(names, T, c)
    <3>1. T.held[b] = {}
      BY <1>4, <1>5, TypingIs
    <3>2. TypedCode(T, c)
      BY <2>2, <2>3, <3>1 DEF TypedCode, Leads
    <3>3. Named(names, c)
      BY <1>4, <2>2, <2>3 DEF Named
    <3> QED BY <3>2, <3>3 DEF Written
  <2>5. BlocksOf(t) \subseteq DOMAIN c
    <3>1. Made(t, 1) = {b}
      BY <1>1 DEF Made
    <3> QED BY <1>1, <2>3, <3>1 DEF BlocksOf
  <2>6. Built(t, f, c)
    <3>1. Ahead(t, 1) = {}
      BY <1>1 DEF Ahead
    <3>2. \A o \in Opened(f) : o[1] = 1
      BY <1>1
    <3> QED BY <1>1, <3>1, <3>2 DEF Built, AfterTry
  <2>7. CatchBegins(t, f, c, b)
    BY <1>1 DEF CatchBegins
  <2>8. PlaceIsRight(t, f, c, b)
    <3>1. ~Terminated(c, b)
      <4>1. CASE rs = {}
        <5>1. s = <<>>
          BY <4>1 DEF s, AcquireAll
        <5> QED BY <2>3, <5>1 DEF Terminated
      <4>2. CASE rs # {}
        <5>1. s = <<[op |-> "acquire", res |-> rs]>>
          BY <4>2 DEF s, AcquireAll
        <5>2. Top(s).op = "acquire"
          BY <5>1 DEF Top
        <5> QED BY <2>3, <5>2 DEF Terminated, IsTerminator
      <4> QED BY <4>1, <4>2
    <3>2. After(HeldIn(t, b), c[b]) = rs
      BY <1>5, <2>2, <2>3 DEF After, Leads
    <3> QED BY <1>2, <1>3, <3>1, <3>2 DEF PlaceIsRight
  <2> QED BY <1>2, <2>3, <2>4, <2>5, <2>6, <2>7, <2>8 DEF CodeMatches, names, T
<1> QED BY <1>9, <1>10, <1>11 DEF Matches

(* The invariant holds at the beginning. *)
LEMMA StartHeld ==
  ASSUME RunInit
  PROVE  HeldInv
<1>1. Init /\ pos = Outside /\ held = {} /\ lost = {}
  BY DEF RunInit
<1>2. family \in DOMAIN Families /\ phase = "compiling"
  BY <1>1 DEF Init
<1>3. PICK s \in Shapes :
        /\ s.kind = "function"
        /\ tree = <<[kind |-> "function", decl |-> s.decl, opts |-> s.opts, clauses |-> <<>>, parent |-> 0, slot |-> 1]>>
        /\ frames = <<Frame(1, 1)>> /\ code = In(Blk(1, "entry"), AcquireAll(Hoisted(1, s)))
        /\ at = Blk(1, "entry") /\ latches = <<>> /\ exiting = <<>> /\ bodyExit = <<>> /\ pads = <<>>
        /\ scopes = <<Scope(Hoisted(1, s))>>
  BY <1>1 DEF Init
<1> DEFINE x == [kind |-> "function", decl |-> s.decl, opts |-> s.opts, clauses |-> <<>>, parent |-> 0, slot |-> 1]
<1>4. x \in NodeRecords /\ x.kind = "function" /\ x.parent = 0 /\ x.slot = 1 /\ x.decl = s.decl
  <2>1. s \in Shape
    BY <1>2, FamiliesAssumption DEF Shapes
  <2>2. s.decl \in BOOLEAN /\ s.opts \in SUBSET {"cond", "inc", "tuple", "else", "catch", "var", "finally", "known",
                                               "effect", "outer"}
    BY <2>1 DEF Shape
  <2>3. "function" \in Kinds /\ <<>> \in Seq(Clauses)
    BY DEF Kinds
  <2>4. 0 \in Nat /\ 1 \in Nat
    OBVIOUS
  <2> QED BY <2>2, <2>3, <2>4 DEF NodeRecords
<1>5. Hoisted(1, s) = Local(x, 1)
  BY <1>4 DEF Hoisted, Local
<1>6. tree = <<x>>
  BY <1>3
<1> HIDE DEF x
<1>7. Struct
  <2>1. /\ Shaped(tree) /\ Nested(tree, frames) /\ Len(tree) = 1 /\ 1..Len(tree) = {1} /\ tree[1] = x
        /\ Top(frames).node = 1 /\ Opened(frames) = {<<1, 1>>}
    BY <1>3, <1>4, <1>6, BeginsFunction
  <2> QED BY <2>1 DEF Struct
<1>8. Matches(tree, frames, exiting, latches, bodyExit, pads, scopes, code, at)
  <2> DEFINE rs == Local(x, 1)  b == Blk(1, "entry")
  <2>1. rs = Local(x, 1) /\ b = Blk(1, "entry")
    OBVIOUS
  <2> HIDE DEF rs, b
  <2>2. Matches(tree, frames, <<>>, <<>>, <<>>, <<>>, <<Scope(rs)>>, In(b, AcquireAll(rs)), b)
    BY <1>3, <1>4, <1>6, <2>1, FunctionBegins
  <2> QED BY <1>3, <1>5, <2>1, <2>2
<1>9. RunningInv
  <2>1. Outside # ReturnedNormally /\ Outside # LeftByException
    BY DEF Outside, ReturnedNormally, LeftByException
  <2> QED BY <1>1, <2>1 DEF RunningInv, Running
<1> QED BY <1>2, <1>7, <1>8, <1>9 DEF HeldInv, CompilingInv

-----------------------------------------------------------------------------
(* The compiled blocks run *)

(* What one more instruction changes. *)
LEMMA OneMore ==
  ASSUME NEW s, NEW m, NEW k \in Nat \ {0}, NEW i, i = s[k]
  PROVE  /\ Gains(s, k + 1) = Gains(s, k) \cup Acquired(i)
         /\ Drops(s, k + 1) = Drops(s, k) \cup Released(i)
         /\ i.op \notin {"acquire", "release"} => Before(m, s, k + 1) = Before(m, s, k)
         /\ i.op = "acquire" /\ i.res \cap (Before(m, s, k) \cup Drops(s, k)) = {} =>
              Before(m, s, k + 1) = Before(m, s, k) \cup i.res
         /\ i.op = "release" => Before(m, s, k + 1) = Before(m, s, k) \ i.res
<1>1. 1..((k + 1) - 1) = 1..(k - 1) \cup {k}
  OBVIOUS
<1>2. Gains(s, k + 1) = Gains(s, k) \cup Acquired(i)
  BY <1>1 DEF Gains
<1>3. Drops(s, k + 1) = Drops(s, k) \cup Released(i)
  BY <1>1 DEF Drops
<1>4. i.op \notin {"acquire", "release"} => Before(m, s, k + 1) = Before(m, s, k)
  BY <1>2, <1>3 DEF Before, Acquired, Released
<1>5. i.op = "acquire" /\ i.res \cap (Before(m, s, k) \cup Drops(s, k)) = {} =>
        Before(m, s, k + 1) = Before(m, s, k) \cup i.res
  <2> SUFFICES ASSUME i.op = "acquire", i.res \cap (Before(m, s, k) \cup Drops(s, k)) = {}
               PROVE  Before(m, s, k + 1) = Before(m, s, k) \cup i.res
    OBVIOUS
  <2>1. Acquired(i) = i.res /\ Released(i) = {}
    BY DEF Acquired, Released
  <2> QED BY <1>2, <1>3, <2>1 DEF Before
<1>6. i.op = "release" => Before(m, s, k + 1) = Before(m, s, k) \ i.res
  <2> SUFFICES ASSUME i.op = "release" PROVE Before(m, s, k + 1) = Before(m, s, k) \ i.res
    OBVIOUS
  <2>1. Acquired(i) = {} /\ Released(i) = i.res
    BY DEF Acquired, Released
  <2> QED BY <1>2, <1>3, <2>1 DEF Before
<1> QED BY <1>2, <1>3, <1>4, <1>5, <1>6

(* The present instruction finds what it needs, and unless it is a         *)
(* terminator there is another after it.                                   *)
Present(t, c, p, i, e) ==
  /\ i \in Instructions(NamesOf(t))
  /\ Ok(Typing(t), i, e, Drops(c[p[1]], p[2]))
  /\ ~IsTerminator(i) => InPlace(t, c, At(p[1], p[2] + 1))
  /\ p[2] \in Nat \ {0}

(* Accepted code is disciplined at each instruction. *)
LEMMA PresentIs ==
  ASSUME NEW t, NEW c, NEW p, Compiled(t, c), InPlace(t, c, p), NEW i, i = c[p[1]][p[2]],
         NEW e, e = Before(HeldIn(t, p[1]), c[p[1]], p[2])
  PROVE  Present(t, c, p, i, e)
<1> DEFINE b == p[1]  k == p[2]  s == c[b]  T == Typing(t)
<1>1. b \in DOMAIN c /\ k \in Nat /\ k \in DOMAIN s /\ DOMAIN c \subseteq NamesOf(t)
  BY DEF InPlace, Compiled, Written, Named
<1>2. s \in Seq(Instructions(NamesOf(t)))
  BY <1>1 DEF Compiled, Written, Named
<1>3. Len(s) \in Nat /\ DOMAIN s = 1..Len(s) /\ \A j \in 1..Len(s) : s[j] \in Instructions(NamesOf(t))
  BY <1>2, Sequence
<1>4. i = s[k] /\ i \in Instructions(NamesOf(t)) /\ k \in Nat \ {0}
  BY <1>1, <1>3
<1>5. WellBlocks(c)
  BY DEF Compiled, EndsOnce, WellBlocks
<1>6. TypedCode(T, c)
  <2>1. T.caught
    BY DEF Compiled, Typing
  <2> QED BY <1>5, <2>1 DEF Compiled, Written
<1>7. T.held[b] = HeldIn(t, b)
  BY <1>1 DEF Typing
<1>8. Ok(T, i, e, Drops(s, k))
  BY <1>1, <1>4, <1>6, <1>7 DEF TypedCode, TypedSeq
<1>9. ASSUME ~IsTerminator(i) PROVE InPlace(t, c, At(b, k + 1))
  <2>1. IsTerminator(s[Len(s)])
    BY <1>1 DEF Compiled, EndsOnce, Terminated, Top
  <2>2. k + 1 \in DOMAIN s /\ k + 1 \in Nat
    BY <1>1, <1>3, <1>4, <1>9, <2>1
  <2> QED BY <1>1, <2>2 DEF InPlace, At
<1> HIDE DEF T
<1> QED BY <1>4, <1>8, <1>9 DEF Present, T

(* A run in place, under way. *)
Holding(t, c, p, h, l) == InPlace(t, c, p) /\ HoldsThere(t, c, p, h, l)

(* Instructions that change nothing that is held. *)
LEMMA RunContinues ==
  ASSUME NEW t, NEW c, NEW p, NEW h, NEW l, Compiled(t, c), Holding(t, c, p, h, l), NEW i, i = c[p[1]][p[2]],
         i.op \notin {"acquire", "release"}, ~IsTerminator(i)
  PROVE  Holding(t, c, At(p[1], p[2] + 1), h, l)
<1> DEFINE e == Before(HeldIn(t, p[1]), c[p[1]], p[2])
<1>1. Present(t, c, p, i, e)
  BY PresentIs DEF Holding
<1>2. Before(HeldIn(t, p[1]), c[p[1]], p[2] + 1) = e
  BY <1>1, OneMore DEF Present
<1>3. e \subseteq h /\ (TidyIn(t) => h \subseteq e /\ l = {})
  BY DEF Holding, HoldsThere
<1> HIDE DEF e
<1> QED BY <1>1, <1>2, <1>3 DEF Holding, HoldsThere, Present, At

(* An instruction that acquires. *)
LEMMA RunTakes ==
  ASSUME NEW t, NEW c, NEW p, NEW h, NEW l, Compiled(t, c), Holding(t, c, p, h, l), NEW i, i = c[p[1]][p[2]],
         i.op = "acquire"
  PROVE  Holding(t, c, At(p[1], p[2] + 1), h \cup i.res, l \cup (h \cap i.res))
<1> DEFINE e == Before(HeldIn(t, p[1]), c[p[1]], p[2])
<1>1. Present(t, c, p, i, e)
  BY PresentIs DEF Holding
<1>2. i.res \cap (e \cup Drops(c[p[1]], p[2])) = {}
  BY <1>1 DEF Present, Ok
<1>3. Before(HeldIn(t, p[1]), c[p[1]], p[2] + 1) = e \cup i.res
  BY <1>1, <1>2, OneMore DEF Present
<1>4. ~IsTerminator(i)
  BY DEF IsTerminator
<1>5. e \subseteq h /\ (TidyIn(t) => h \subseteq e /\ l = {})
  BY DEF Holding, HoldsThere
<1> HIDE DEF e
<1> QED BY <1>1, <1>2, <1>3, <1>4, <1>5 DEF Holding, HoldsThere, Present, At

(* An instruction that releases. *)
LEMMA RunReleases ==
  ASSUME NEW t, NEW c, NEW p, NEW h, NEW l, Compiled(t, c), Holding(t, c, p, h, l), NEW i, i = c[p[1]][p[2]],
         i.op = "release"
  PROVE  Holding(t, c, At(p[1], p[2] + 1), h \ i.res, l)
<1> DEFINE e == Before(HeldIn(t, p[1]), c[p[1]], p[2])
<1>1. Present(t, c, p, i, e)
  BY PresentIs DEF Holding
<1>3. Before(HeldIn(t, p[1]), c[p[1]], p[2] + 1) = e \ i.res
  BY <1>1, OneMore DEF Present
<1>4. ~IsTerminator(i)
  BY DEF IsTerminator
<1>5. e \subseteq h /\ (TidyIn(t) => h \subseteq e /\ l = {})
  BY DEF Holding, HoldsThere
<1> HIDE DEF e
<1> QED BY <1>1, <1>3, <1>4, <1>5 DEF Holding, HoldsThere, Present, At

(* At the first instruction of a block. *)
LEMMA AtFirstInstruction ==
  ASSUME NEW t, NEW c, Compiled(t, c), NEW b \in BlocksOf(t)
  PROVE  InPlace(t, c, At(b, 1)) /\ Before(HeldIn(t, b), c[b], 1) = HeldIn(t, b)
<1>1. b \in DOMAIN c
  BY DEF Compiled
<1>2. c[b] \in Seq(Instructions(NamesOf(t))) /\ c[b] # <<>>
  BY <1>1 DEF Compiled, EndsOnce, Terminated, Written, Named
<1>3. 1 \in DOMAIN c[b]
  BY <1>2, Sequence
<1>4. Gains(c[b], 1) = {} /\ Drops(c[b], 1) = {}
  BY DEF Gains, Drops
<1> QED BY <1>1, <1>3, <1>4 DEF InPlace, At, Before

(* A branch. *)
LEMMA RunJumps ==
  ASSUME NEW t, NEW c, NEW p, NEW h, NEW l, Compiled(t, c), Holding(t, c, p, h, l), NEW i, i = c[p[1]][p[2]],
         i.op = "br", NEW b \in i.to
  PROVE  Holding(t, c, At(b, 1), h, l)
<1> DEFINE e == Before(HeldIn(t, p[1]), c[p[1]], p[2])
<1>1. Present(t, c, p, i, e)
  BY PresentIs DEF Holding
<1>2. b \in BlocksOf(t) /\ b \in NamesOf(t)
  <2>1. b \in Typing(t).blocks
    BY <1>1 DEF Present, Ok
  <2>2. DOMAIN c \subseteq NamesOf(t) /\ BlocksOf(t) \subseteq DOMAIN c
    BY DEF Compiled, Written, Named
  <2> QED BY <2>1, <2>2 DEF Typing
<1>3. Typing(t).held[b] = HeldIn(t, b) /\ Typing(t).tidy = TidyIn(t)
  BY <1>2 DEF Typing
<1>4. HeldIn(t, b) \subseteq e /\ (TidyIn(t) => e \subseteq HeldIn(t, b))
  BY <1>1, <1>3 DEF Present, Ok
<1>5. e \subseteq h /\ (TidyIn(t) => h \subseteq e /\ l = {})
  BY DEF Holding, HoldsThere
<1>6. InPlace(t, c, At(b, 1)) /\ Before(HeldIn(t, b), c[b], 1) = HeldIn(t, b)
  BY <1>2, AtFirstInstruction
<1> HIDE DEF e
<1>7. At(b, 1)[1] = b /\ At(b, 1)[2] = 1
  BY DEF At
<1> QED BY <1>4, <1>5, <1>6, <1>7 DEF Holding, HoldsThere

(* Leaving a tidy function, nothing is held. *)
LEMMA RunLeaves ==
  ASSUME NEW t, NEW c, NEW p, NEW h, NEW l, Compiled(t, c), Holding(t, c, p, h, l), NEW i, i = c[p[1]][p[2]],
         i.op \in {"call", "ret", "raise"}, TidyIn(t)
  PROVE  h = {} /\ l = {}
<1> DEFINE e == Before(HeldIn(t, p[1]), c[p[1]], p[2])
<1>1. Present(t, c, p, i, e)
  BY PresentIs DEF Holding
<1>2. Typing(t).tidy
  BY DEF Typing
<1>3. e = {}
  BY <1>1, <1>2 DEF Present, Ok
<1>4. h \subseteq e /\ l = {}
  BY DEF Holding, HoldsThere
<1> QED BY <1>3, <1>4

(* The places a run can be at are told apart. *)
LEMMA Distinct ==
  /\ Outside # ReturnedNormally /\ Outside # LeftByException /\ ReturnedNormally # LeftByException
  /\ \A b, i : At(b, i) \notin {Outside, ReturnedNormally, LeftByException}
BY DEF Outside, ReturnedNormally, LeftByException, At

(* A run under way, in terms of the program and the blocks. *)
UnderWay == MatchIn(tree) /\ Running => Compiled(tree, code) /\ Holding(tree, code, pos, held, lost)

(* The invariant, for a run under way. *)
LEMMA WellUnderWay ==
  ASSUME HeldInv
  PROVE  UnderWay /\ (Running => phase = "accepted")
<1>1. Running => phase = "accepted"
  BY DEF HeldInv, RunningInv, Running
<1>2. MatchIn(tree) /\ phase = "accepted" => Compiled(tree, code)
  BY DEF HeldInv, AcceptedInv
<1>3. MatchIn(tree) /\ Running => Holding(tree, code, pos, held, lost)
  BY DEF HeldInv, RunningInv, Holding
<1> QED BY <1>1, <1>2, <1>3 DEF UnderWay

(* What the compiler keeps does not depend on the run. *)
LEMMA CompilerRests ==
  ASSUME HeldInv, UNCHANGED vars, RunningInv'
  PROVE  HeldInv'
<1>1. /\ family' = family /\ phase' = phase /\ tree' = tree /\ frames' = frames /\ code' = code /\ at' = at
      /\ latches' = latches /\ exiting' = exiting /\ bodyExit' = bodyExit /\ pads' = pads /\ scopes' = scopes
  BY DEF vars
<1>2. CompilingInv' <=> CompilingInv
  BY <1>1 DEF CompilingInv, Struct
<1>3. AcceptedInv' <=> AcceptedInv
  BY <1>1 DEF AcceptedInv
<1> QED BY <1>1, <1>2, <1>3 DEF HeldInv

(* The compiler keeps the invariant. *)
LEMMA CompileKeeps ==
  ASSUME HeldInv, Compile
  PROVE  HeldInv'
<1>1. Next /\ UNCHANGED runVars
  BY DEF Compile
<1>2. (Keeping \/ Accepting \/ Refusing) /\ family' = family /\ phase = "compiling"
  <2>1. family \in DOMAIN Families /\ (phase = "compiling" => CompilingInv)
    BY DEF HeldInv
  <2> QED BY <1>1, <2>1, CompilerStep
<1>3. pos = Outside /\ held = {} /\ lost = {}
  BY <1>2 DEF HeldInv, RunningInv
<1>4. pos' = Outside /\ held' = {} /\ lost' = {}
  BY <1>1, <1>3 DEF runVars
<1>5. RunningInv'
  BY <1>4, Distinct DEF RunningInv, Running
<1>6. family' \in DOMAIN Families
  BY <1>2 DEF HeldInv
<1> QED BY <1>2, <1>5, <1>6 DEF HeldInv, Keeping, Accepting, Refusing

(* A step of the run within the function. *)
LEMMA StaysUnderWay ==
  ASSUME HeldInv, UNCHANGED vars, NEW b, NEW i, pos' = At(b, i), phase = "accepted",
         MatchIn(tree) => Holding(tree, code, At(b, i), held', lost')
  PROVE  HeldInv'
<1>1. tree' = tree /\ code' = code /\ phase' = phase
  BY DEF vars
<1>2. pos' \notin {Outside, ReturnedNormally, LeftByException}
  BY Distinct
<1>3. RunningInv'
  BY <1>1, <1>2 DEF RunningInv, Running, Holding
<1> QED BY <1>3, CompilerRests

(* Each step of the run keeps the invariant. *)
LEMMA EnterKeeps ==
  ASSUME HeldInv, Enter
  PROVE  HeldInv'
<1>1. /\ phase = "accepted" /\ pos' = At(Blk(1, "entry"), 1) /\ UNCHANGED vars
      /\ held' = {} /\ lost' = {}
  BY DEF Enter, HeldInv, RunningInv
<1>2. Shaped(tree) /\ (MatchIn(tree) => Compiled(tree, code))
  BY <1>1 DEF HeldInv, AcceptedInv
<1> DEFINE b == Blk(1, "entry")
<1>3. 1 \in 1..Len(tree) /\ tree[1].kind = "function" /\ Rooted(tree)
  BY <1>2, ShapedIsRooted DEF Shaped
<1>4. b \in BlocksOf(tree)
  BY <1>3 DEF BlocksOf, Made
<1>5. HeldIn(tree, b) = {}
  <2>1. HeldIn(tree, b) = ScopeIn(tree, 1) \cup OwnHeld(tree, 1, "entry")
    BY <1>3, HeldAre
  <2>2. ScopeIn(tree, 1) = {}
    BY <1>2, Nowhere
  <2>3. OwnHeld(tree, 1, "entry") = {}
    BY <1>3 DEF OwnHeld
  <2> QED BY <2>1, <2>2, <2>3
<1>6. b = Blk(1, "entry")
  OBVIOUS
<1> HIDE DEF b
<1>7. ASSUME MatchIn(tree) PROVE Holding(tree, code, At(b, 1), {}, {})
  <2>1. InPlace(tree, code, At(b, 1)) /\ Before(HeldIn(tree, b), code[b], 1) = HeldIn(tree, b)
    BY <1>2, <1>4, <1>7, AtFirstInstruction
  <2>2. At(b, 1)[1] = b /\ At(b, 1)[2] = 1
    BY DEF At
  <2> QED BY <1>5, <2>1, <2>2 DEF Holding, HoldsThere
<1> QED BY <1>1, <1>6, <1>7, StaysUnderWay

LEMMA ProceedKeeps ==
  ASSUME HeldInv, Running, Instruction.op \in {"eval", "call"}, Proceed, UNCHANGED <<vars, held, lost>>
  PROVE  HeldInv'
<1>1. UnderWay /\ phase = "accepted"
  BY WellUnderWay
<1>2. UNCHANGED vars /\ held' = held /\ lost' = lost /\ pos' = At(pos[1], pos[2] + 1)
  BY DEF Proceed
<1>3. Instruction.op \notin {"acquire", "release"} /\ ~IsTerminator(Instruction)
  BY DEF IsTerminator
<1>4. ASSUME MatchIn(tree) PROVE Holding(tree, code, At(pos[1], pos[2] + 1), held, lost)
  <2>1. Compiled(tree, code) /\ Holding(tree, code, pos, held, lost)
    BY <1>1, <1>4 DEF UnderWay
  <2>2. Instruction = code[pos[1]][pos[2]]
    BY DEF Instruction
  <2> QED BY <1>3, <2>1, <2>2, RunContinues
<1> QED BY <1>1, <1>2, <1>4, StaysUnderWay

LEMMA TakeKeeps ==
  ASSUME HeldInv, Take
  PROVE  HeldInv'
<1>1. UnderWay /\ phase = "accepted" /\ Running
  BY WellUnderWay DEF Take
<1>2. /\ UNCHANGED vars /\ pos' = At(pos[1], pos[2] + 1) /\ Instruction.op = "acquire"
      /\ held' = held \cup Instruction.res /\ lost' = lost \cup (held \cap Instruction.res)
  BY DEF Take, Proceed
<1>3. ASSUME MatchIn(tree) PROVE Holding(tree, code, At(pos[1], pos[2] + 1), held', lost')
  <2>1. Compiled(tree, code) /\ Holding(tree, code, pos, held, lost)
    BY <1>1, <1>3 DEF UnderWay
  <2>2. Instruction = code[pos[1]][pos[2]]
    BY DEF Instruction
  <2>3. Holding(tree, code, At(pos[1], pos[2] + 1), held \cup Instruction.res, lost \cup (held \cap Instruction.res))
    BY <1>2, <2>1, <2>2, RunTakes
  <2> QED BY <1>2, <2>3
<1> QED BY <1>1, <1>2, <1>3, StaysUnderWay

LEMMA DropKeeps ==
  ASSUME HeldInv, Drop
  PROVE  HeldInv'
<1>1. UnderWay /\ phase = "accepted" /\ Running
  BY WellUnderWay DEF Drop
<1>2. /\ UNCHANGED vars /\ pos' = At(pos[1], pos[2] + 1) /\ Instruction.op = "release"
      /\ held' = held \ Instruction.res /\ lost' = lost
  BY DEF Drop, Proceed
<1>3. ASSUME MatchIn(tree) PROVE Holding(tree, code, At(pos[1], pos[2] + 1), held', lost')
  <2>1. Compiled(tree, code) /\ Holding(tree, code, pos, held, lost)
    BY <1>1, <1>3 DEF UnderWay
  <2>2. Instruction = code[pos[1]][pos[2]]
    BY DEF Instruction
  <2>3. Holding(tree, code, At(pos[1], pos[2] + 1), held \ Instruction.res, lost)
    BY <1>2, <2>1, <2>2, RunReleases
  <2> QED BY <1>2, <2>3
<1> QED BY <1>1, <1>2, <1>3, StaysUnderWay

LEMMA JumpKeeps ==
  ASSUME HeldInv, Jump
  PROVE  HeldInv'
<1>1. UnderWay /\ phase = "accepted" /\ Running
  BY WellUnderWay DEF Jump
<1>2. PICK b \in Instruction.to : pos' = At(b, 1)
  BY DEF Jump
<1>3. UNCHANGED vars /\ Instruction.op = "br" /\ held' = held /\ lost' = lost
  BY DEF Jump
<1>4. ASSUME MatchIn(tree) PROVE Holding(tree, code, At(b, 1), held, lost)
  <2>1. Compiled(tree, code) /\ Holding(tree, code, pos, held, lost)
    BY <1>1, <1>4 DEF UnderWay
  <2>2. Instruction = code[pos[1]][pos[2]]
    BY DEF Instruction
  <2> QED BY <1>3, <2>1, <2>2, RunJumps
<1> QED BY <1>1, <1>2, <1>3, <1>4, StaysUnderWay

(* The function is left, by a return or by an exception. *)
LEMMA LeaveKeeps ==
  ASSUME HeldInv, Running, Instruction.op \in {"call", "ret", "raise"},
         pos' \in {ReturnedNormally, LeftByException}, UNCHANGED <<vars, held, lost>>
  PROVE  HeldInv'
<1>1. UnderWay /\ phase = "accepted"
  BY WellUnderWay
<1>2. UNCHANGED vars /\ tree' = tree /\ phase' = phase /\ held' = held /\ lost' = lost
  BY DEF vars
<1>3. ASSUME TidyIn(tree) PROVE held = {} /\ lost = {}
  <2>1. MatchIn(tree)
    BY <1>3 DEF TidyIn
  <2>2. Compiled(tree, code) /\ Holding(tree, code, pos, held, lost)
    BY <1>1, <2>1 DEF UnderWay
  <2>3. Instruction = code[pos[1]][pos[2]]
    BY DEF Instruction
  <2> QED BY <1>3, <2>2, <2>3, RunLeaves
<1>4. RunningInv'
  BY <1>1, <1>2, <1>3, Distinct DEF RunningInv, Running
<1> QED BY <1>2, <1>4, CompilerRests

LEMMA ExecuteKeeps ==
  ASSUME HeldInv, Execute
  PROVE  HeldInv'
<1>1. CASE Enter
  BY <1>1, EnterKeeps
<1>2. CASE Evaluate \/ CallReturns
  BY <1>2, ProceedKeeps DEF Evaluate, CallReturns
<1>3. CASE CallThrows \/ Leave
  BY <1>3, LeaveKeeps DEF CallThrows, Leave
<1>4. CASE Take
  BY <1>4, TakeKeeps
<1>5. CASE Drop
  BY <1>5, DropKeeps
<1>6. CASE Jump
  BY <1>6, JumpKeeps
<1> QED BY <1>1, <1>2, <1>3, <1>4, <1>5, <1>6 DEF Execute

(* So does a step in which nothing happens. *)
LEMMA NothingHappens ==
  ASSUME HeldInv, UNCHANGED allVars
  PROVE  HeldInv'
<1>1. UNCHANGED vars /\ pos' = pos /\ held' = held /\ lost' = lost
  BY DEF allVars, runVars
<1>2. tree' = tree /\ code' = code /\ phase' = phase
  BY <1>1 DEF vars
<1>3. RunningInv'
  BY <1>1, <1>2 DEF HeldInv, RunningInv, Running
<1> QED BY <1>1, <1>3, CompilerRests

-----------------------------------------------------------------------------
(* The theorems *)

(* Every program whose breaks and continues find the block of their own    *)
(* statement on the stacks of the generator is compiled into blocks that   *)
(* hold, wherever the run is, what the scopes of that place keep.          *)
THEOREM BlocksHoldScopes == RunSpec => []HeldInv
<1>1. RunInit => HeldInv
  BY StartHeld
<1>2. HeldInv /\ [Compile \/ Execute]_allVars => HeldInv'
  BY CompileKeeps, ExecuteKeeps, NothingHappens
<1> QED BY <1>1, <1>2, PTL DEF RunSpec

(* The invariant implies that the variables in scope are rooted. *)
LEMMA AliveFollows == HeldInv => AliveInScope
<1> SUFFICES ASSUME HeldInv, StacksMatch, Running, Instruction.op \in {"eval", "call"}
             PROVE  InScope(Instruction.what[1]) \subseteq held
  BY DEF AliveInScope
<1>1. Compiled(tree, code) /\ Holding(tree, code, pos, held, lost)
  BY WellUnderWay, MatchingIs DEF UnderWay
<1> DEFINE i == Instruction  e == Before(HeldIn(tree, pos[1]), code[pos[1]], pos[2])  n == i.what[1]
<1>2. Present(tree, code, pos, i, e)
  BY <1>1, PresentIs DEF Holding, Instruction
<1>3. n \in 1..Len(tree)
  <2>1. i.what \in NamesOf(tree)
    BY <1>2 DEF Present, Instructions
  <2> QED BY <2>1 DEF NamesOf
<1>4. Typing(tree).scope[n] = ScopeIn(tree, n)
  BY <1>3 DEF Typing
<1>5. Typing(tree).scope[n] \subseteq e
  BY <1>2 DEF Present, Ok
<1>6. e \subseteq held
  BY <1>1 DEF Holding, HoldsThere
<1> HIDE DEF e
<1> QED BY <1>4, <1>5, <1>6, ScopesAre

(* Whatever a scope declares is rooted whenever an expression inside that  *)
(* scope is evaluated: the collector never takes a variable that the       *)
(* function still uses.                                                    *)
THEOREM VariablesStayRooted == RunSpec => []AliveInScope
BY BlocksHoldScopes, AliveFollows, PTL

(* A function of a tidy program has released all it acquired when it has   *)
(* returned or an exception has left it.                                   *)
THEOREM NothingIsLeftRooted == RunSpec => []NothingStaysHeld
<1>1. HeldInv => NothingStaysHeld
  BY TidyIs DEF HeldInv, RunningInv, NothingStaysHeld
<1> QED BY <1>1, BlocksHoldScopes, PTL
=============================================================================
