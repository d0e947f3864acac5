---------------------------- MODULE PromisesProofs -----------------------------
(***************************************************************************)
(* Proofs about promises, for any number of them, of values, of handlers   *)
(* and of joins.                                                           *)
(***************************************************************************)
EXTENDS PromisesProperties, TLAPS

(* ----------------------------- sequences ------------------------------- *)

LEMMA InAppend ==
  ASSUME NEW S, NEW s \in Seq(S), NEW x \in S
  PROVE  \A y : y \in ToSet(Append(s, x)) <=> y \in ToSet(s) \/ y = x
  <1>1. /\ Append(s, x) \in Seq(S) /\ Len(s) \in Nat
        /\ Len(Append(s, x)) = Len(s) + 1
        /\ \A i \in 1..Len(s) : Append(s, x)[i] = s[i]
        /\ Append(s, x)[Len(s) + 1] = x
    OBVIOUS
  <1>2. /\ DOMAIN s = 1..Len(s) /\ DOMAIN Append(s, x) = 1..(Len(s) + 1)
    BY <1>1
  <1>3. \A y : y \in ToSet(s) <=> \E i \in 1..Len(s) : y = s[i]
    BY <1>2 DEF ToSet
  <1>4. \A y : y \in ToSet(Append(s, x)) <=> \E i \in 1..(Len(s) + 1) : y = Append(s, x)[i]
    BY <1>2 DEF ToSet
  <1> QED BY <1>1, <1>3, <1>4

LEMMA InConcat ==
  ASSUME NEW S, NEW s \in Seq(S), NEW t \in Seq(S)
  PROVE  \A y : y \in ToSet(s \o t) <=> y \in ToSet(s) \/ y \in ToSet(t)
  <1>1. /\ s \o t \in Seq(S) /\ Len(s) \in Nat /\ Len(t) \in Nat
        /\ Len(s \o t) = Len(s) + Len(t)
        /\ \A i \in 1..Len(s) : (s \o t)[i] = s[i]
        /\ \A i \in 1..Len(t) : (s \o t)[Len(s) + i] = t[i]
    OBVIOUS
  <1>2. /\ DOMAIN s = 1..Len(s) /\ DOMAIN t = 1..Len(t)
        /\ DOMAIN (s \o t) = 1..(Len(s) + Len(t))
    BY <1>1
  <1>3. /\ \A y : y \in ToSet(s) <=> \E i \in 1..Len(s) : y = s[i]
        /\ \A y : y \in ToSet(t) <=> \E i \in 1..Len(t) : y = t[i]
    BY <1>2 DEF ToSet
  <1>4. \A y : y \in ToSet(s \o t) <=> \E i \in 1..(Len(s) + Len(t)) : y = (s \o t)[i]
    BY <1>2 DEF ToSet
  <1>5. ASSUME NEW y, y \in ToSet(s \o t)
        PROVE  y \in ToSet(s) \/ y \in ToSet(t)
    <2>1. PICK i \in 1..(Len(s) + Len(t)) : y = (s \o t)[i]
      BY <1>4, <1>5
    <2>2. CASE i \in 1..Len(s)
      BY <1>1, <1>3, <2>1, <2>2
    <2>3. CASE i \notin 1..Len(s)
      <3>1. i - Len(s) \in 1..Len(t) /\ i = Len(s) + (i - Len(s))
        BY <1>1, <2>3
      <3> QED BY <1>1, <1>3, <2>1, <3>1
    <2> QED BY <2>2, <2>3
  <1>6. ASSUME NEW y, y \in ToSet(s) PROVE y \in ToSet(s \o t)
    BY <1>1, <1>3, <1>4, <1>6
  <1>7. ASSUME NEW y, y \in ToSet(t) PROVE y \in ToSet(s \o t)
    BY <1>1, <1>3, <1>4, <1>7
  <1> QED BY <1>5, <1>6, <1>7

LEMMA InSingle == \A x, y : y \in ToSet(<<x>>) <=> y = x
  BY DEF ToSet

(* Taking the first element away.                                            *)
LEMMA InTail ==
  ASSUME NEW S, NEW s \in Seq(S), s # <<>>
  PROVE  /\ Head(s) \in S /\ Tail(s) \in Seq(S)
         /\ \A y : y \in ToSet(s) <=> y = Head(s) \/ y \in ToSet(Tail(s))
  <1>1. /\ Head(s) \in S /\ Tail(s) \in Seq(S)
        /\ s = <<Head(s)>> \o Tail(s) /\ <<Head(s)>> \in Seq(S)
    OBVIOUS
  <1>2. \A y : y \in ToSet(<<Head(s)>> \o Tail(s))
                 <=> y \in ToSet(<<Head(s)>>) \/ y \in ToSet(Tail(s))
    BY <1>1, InConcat
  <1> QED BY <1>1, <1>2, InSingle

LEMMA InPush ==
  ASSUME NEW S, NEW s \in Seq(S), NEW x \in S
  PROVE  /\ <<x>> \o s \in Seq(S)
         /\ \A y : y \in ToSet(<<x>> \o s) <=> y = x \/ y \in ToSet(s)
  <1>1. <<x>> \in Seq(S) /\ <<x>> \o s \in Seq(S)
    OBVIOUS
  <1> QED BY <1>1, InConcat, InSingle

LEMMA InEmpty == ToSet(<<>>) = {}
  BY DEF ToSet

LEMMA InSeq ==
  ASSUME NEW S, NEW s \in Seq(S)
  PROVE  /\ ToSet(s) \subseteq S
         /\ \A y : y \in ToSet(s) <=> \E i \in 1..Len(s) : s[i] = y
         /\ \A y : y \in ToSet(s) <=> Contains(s, y)
  <1>1. DOMAIN s = 1..Len(s) /\ \A i \in 1..Len(s) : s[i] \in S
    OBVIOUS
  <1> QED BY <1>1 DEF ToSet, Contains

(* ------------------------------- effects ------------------------------- *)

(* What resolve and reject do in the end: nothing, settle, or join.          *)
Settles(p, o, w) ==
  /\ state[p] = "pending"
  /\ state' = [state EXCEPT ![p] = o]
  /\ result' = [result EXCEPT ![p] = w]
  /\ emitting' = <<[of |-> p, joins |-> joined[p]]>> \o emitting
  /\ UNCHANGED joined

Joins(p, v) ==
  /\ v \in Promises /\ ~Ready(v)
  /\ joined' = [joined EXCEPT ![v] = Append(@, p)]
  /\ UNCHANGED <<state, result, emitting>>

Resolved(p) ==
  \/ UNCHANGED <<state, result, emitting, joined>>
  \/ \E o \in Outcomes, w \in Values \cup {Unset} : Settles(p, o, w)
  \/ \E v \in Promises : Joins(p, v)

LEMMA SettleCases ==
  ASSUME NEW p, NEW o, NEW w, Settle(p, o, w), UNCHANGED joined
  PROVE  UNCHANGED <<state, result, emitting, joined>> \/ Settles(p, o, w)
  <1>1. CASE state[p] = "pending"
    BY <1>1 DEF Settle, Settles
  <1>2. CASE state[p] # "pending"
    BY <1>2 DEF Settle
  <1> QED BY <1>1, <1>2

LEMMA ResolveCases ==
  ASSUME TypeOK, NEW p \in Promises, NEW o \in Outcomes,
         NEW v \in Promises \cup Values \cup {Unset}, ResolveWith(p, o, v)
  PROVE  Resolved(p)
  <1>1. CASE v \notin Promises
    <2>1. Settle(p, o, v) /\ UNCHANGED joined
      BY <1>1, Zenon DEF ResolveWith
    <2>2. UNCHANGED <<state, result, emitting, joined>> \/ Settles(p, o, v)
      BY <2>1, SettleCases
    <2> QED BY <1>1, <2>2 DEF Resolved
  <1>2. CASE v \in Promises /\ Ready(v)
    <2>1. Settle(p, state[v], result[v]) /\ UNCHANGED joined
      BY <1>2, Zenon DEF ResolveWith
    <2>2. state[v] \in Outcomes /\ result[v] \in Values \cup {Unset}
      BY <1>2 DEF Ready, TypeOK
    <2>3. UNCHANGED <<state, result, emitting, joined>> \/ Settles(p, state[v], result[v])
      BY <2>1, SettleCases
    <2> QED BY <2>2, <2>3 DEF Resolved
  <1>3. CASE v \in Promises /\ ~Ready(v)
    <2>1. joined' = [joined EXCEPT ![v] = Append(@, p)] /\ UNCHANGED <<state, result, emitting>>
      BY <1>3, Zenon DEF ResolveWith
    <2> QED BY <1>3, <2>1 DEF Resolved, Joins
  <1> QED BY <1>1, <1>2, <1>3

LEMMA ResolvedTypes ==
  ASSUME TypeOK, NEW p \in Promises, Resolved(p)
  PROVE  /\ state' \in [Promises -> {"none", "pending"} \cup Outcomes]
         /\ result' \in [Promises -> Values \cup {Unset}]
         /\ joined' \in [Promises -> Seq(Promises)]
         /\ emitting' \in Seq(Emission)
  <1>0. /\ state \in [Promises -> {"none", "pending"} \cup Outcomes]
        /\ result \in [Promises -> Values \cup {Unset}]
        /\ joined \in [Promises -> Seq(Promises)]
        /\ emitting \in Seq(Emission)
    BY DEF TypeOK
  <1>1. CASE UNCHANGED <<state, result, emitting, joined>>
    BY <1>0, <1>1
  <1>2. ASSUME NEW o \in Outcomes, NEW w \in Values \cup {Unset}, Settles(p, o, w)
        PROVE  /\ state' \in [Promises -> {"none", "pending"} \cup Outcomes]
               /\ result' \in [Promises -> Values \cup {Unset}]
               /\ joined' \in [Promises -> Seq(Promises)]
               /\ emitting' \in Seq(Emission)
    <2>1. /\ state' = [state EXCEPT ![p] = o]
          /\ result' = [result EXCEPT ![p] = w]
          /\ emitting' = <<[of |-> p, joins |-> joined[p]]>> \o emitting
          /\ joined' = joined
      BY <1>2 DEF Settles
    <2>2. <<[of |-> p, joins |-> joined[p]]>> \in Seq(Emission)
      BY <1>0 DEF Emission
    <2>3. emitting' \in Seq(Emission)
      BY <1>0, <2>1, <2>2
    <2> QED BY <1>0, <2>1, <2>3
  <1>3. ASSUME NEW v \in Promises, Joins(p, v)
        PROVE  /\ state' = state /\ result' = result /\ emitting' = emitting
               /\ joined' \in [Promises -> Seq(Promises)]
    <2>1. joined' = [joined EXCEPT ![v] = Append(@, p)] /\ UNCHANGED <<state, result, emitting>>
      BY <1>3 DEF Joins
    <2>2. Append(joined[v], p) \in Seq(Promises)
      BY <1>0
    <2> QED BY <1>0, <2>1, <2>2
  <1> QED BY <1>0, <1>1, <1>2, <1>3 DEF Resolved

(* The actions that call resolve or reject, and the promise they settle.     *)
Resolves(p) ==
  \/ \E v \in Objects : Success(p, v) \/ Failure(p, v)
  \/ PassOn /\ p = Head(queue).to
  \/ \E v \in Objects : (HandlerReturns(v) \/ HandlerThrows(v)) /\ p = Head(current).to

ResolveStep == \E p \in Promises : Resolves(p)

ThenStep == \E p, n \in Promises, h \in Pairs : Then(p, n, h)

NewStep == \E p \in Promises : New(p)

LEMMA StepKinds ==
  ASSUME TypeOK, Next
  PROVE  NewStep \/ ResolveStep \/ ThenStep \/ EmitJoin \/ EmitReactions \/ CallHandler
  <1>1. ASSUME NEW p \in Promises, NEW v \in Objects, Success(p, v) \/ Failure(p, v)
        PROVE  ResolveStep
    BY <1>1 DEF ResolveStep, Resolves
  <1>2. CASE PassOn
    <2>1. Head(queue) \in Reaction
      BY <1>2, InTail DEF PassOn, CanRun, TypeOK
    <2>2. Head(queue).to \in Promises
      BY <2>1 DEF Reaction
    <2> QED BY <1>2, <2>2 DEF ResolveStep, Resolves
  <1>3. ASSUME NEW v \in Objects, HandlerReturns(v) \/ HandlerThrows(v)
        PROVE  ResolveStep
    <2>1. Head(current) \in Reaction
      BY <1>3, InTail DEF HandlerReturns, HandlerThrows, TypeOK
    <2>2. Head(current).to \in Promises
      BY <2>1 DEF Reaction
    <2> QED BY <1>3, <2>2 DEF ResolveStep, Resolves
  <1> QED BY <1>1, <1>2, <1>3 DEF Next, Emit, HandlerEnds, NewStep, ThenStep

(* ------------------------- the invariant ------------------------------- *)

(* A promise that may be settled: whatever it reacts to is ready.            *)
Free(m) == Exists(m) /\ \A p \in Promises : m \in ToSet(reactions[p]) => Ready(p)

(* Whoever is about to be settled, or has been, is free: the reactions of    *)
(* the executor, the promises that wait for others.                          *)
Due ==
  /\ \A r \in ToSet(queue) : Ready(r.from) /\ Free(r.to)
  /\ \A r \in ToSet(current) : Ready(r.from) /\ Free(r.to)
  /\ \A e \in ToSet(emitting) : Ready(e.of) /\ \A m \in ToSet(e.joins) : Free(m)
  /\ \A q \in Promises : \A m \in ToSet(joined[q]) : Free(m)
  /\ \A m \in reacted : Free(m)

(* Promises form a forest: each reacts to one other at most, and waits.      *)
Forest ==
  /\ \A p \in Promises : \A m \in ToSet(reactions[p]) :
       Exists(m) /\ (~Ready(p) => state[m] = "pending")
  /\ \A p, q \in Promises : \A m \in ToSet(reactions[p]) :
       m \in ToSet(reactions[q]) => p = q

(* A promise that waits for one that is ready is ready, or an emission in    *)
(* progress is going to tell it.                                             *)
Following ==
  \A q \in Promises : Ready(q) =>
    \A m \in ToSet(joined[q]) :
      Ready(m) \/ \E e \in ToSet(emitting) : e.of = q /\ m \in ToSet(e.joins)

(* A reaction to a promise that is ready has run, is enqueued, or an         *)
(* emission in progress is going to enqueue it.                              *)
Serving ==
  \A p \in Promises : Ready(p) =>
    \A m \in ToSet(reactions[p]) :
      \/ m \in reacted
      \/ [from |-> p, to |-> m] \in ToSet(queue)
      \/ \E e \in ToSet(emitting) : e.of = p

IInv == TypeOK /\ Due /\ Forest /\ Following /\ Serving

(* ------------------------ what the steps do ---------------------------- *)

(* A promise that resolve or reject is called for is free.                   *)
LEMMA ResolvesFree ==
  ASSUME TypeOK, Due, NEW p \in Promises, Resolves(p)
  PROVE  /\ Free(p) /\ Resolved(p) /\ emitting = <<>>
         /\ UNCHANGED <<reactions, handler>>
  <1>1. ASSUME NEW v \in Objects, Success(p, v) \/ Failure(p, v)
        PROVE  Free(p) /\ Resolved(p)
    <2>1. Exists(p) /\ \A q \in Promises : ~Contains(reactions[q], p)
      BY <1>1 DEF Success, Failure, Derived
    <2>2. \A q \in Promises : p \notin ToSet(reactions[q])
      BY <2>1, InSeq DEF TypeOK
    <2>3. v \in Promises \cup Values \cup {Unset}
      BY DEF Objects
    <2>4. Resolved(p)
      BY <1>1, <2>3, ResolveCases DEF Success, Failure, Outcomes
    <2> QED BY <2>1, <2>2, <2>4 DEF Free
  <1>2. ASSUME NEW r \in Reaction, Ready(r.from), p = r.to, TransferResult(r)
        PROVE  Resolved(p)
    <2>1. state[r.from] \in Outcomes /\ result[r.from] \in Promises \cup Values \cup {Unset}
      BY <1>2 DEF Reaction, TypeOK, Ready
    <2> QED BY <1>2, <2>1, ResolveCases DEF TransferResult
  <1>3. ASSUME PassOn, p = Head(queue).to
        PROVE  Free(p) /\ Resolved(p)
    <2>1. queue # <<>> /\ TransferResult(Head(queue))
      BY <1>3 DEF PassOn, CanRun
    <2>2. Head(queue) \in Reaction /\ Head(queue) \in ToSet(queue)
      BY <2>1, InTail DEF TypeOK
    <2> QED BY <1>2, <1>3, <2>1, <2>2 DEF Due
  <1>4. ASSUME NEW v \in Objects, HandlerReturns(v) \/ HandlerThrows(v), p = Head(current).to
        PROVE  Free(p) /\ Resolved(p)
    <2>1. current # <<>>
      BY <1>4 DEF HandlerReturns, HandlerThrows
    <2>2. Head(current) \in Reaction /\ Head(current) \in ToSet(current)
      BY <2>1, InTail DEF TypeOK
    <2>3. Ready(Head(current).from) /\ Free(p)
      BY <1>4, <2>2 DEF Due
    <2>4. v \in Promises \cup Values \cup {Unset}
      BY DEF Objects
    <2>5. \/ ResolveWith(p, "fulfilled", v) \/ ResolveWith(p, "rejected", v)
          \/ TransferResult(Head(current))
      <3>1. CASE HandlerReturns(v)
        BY <1>4, <3>1 DEF HandlerReturns
      <3>2. CASE HandlerThrows(v)
        BY <1>4, <3>2 DEF HandlerThrows
      <3> QED BY <1>4, <3>1, <3>2
    <2> QED BY <1>2, <1>4, <2>2, <2>3, <2>4, <2>5, ResolveCases DEF Outcomes
  <1>5. emitting = <<>> /\ UNCHANGED <<reactions, handler>>
    BY DEF Resolves, Success, Failure, PassOn, CanRun, HandlerReturns, HandlerThrows
  <1> QED BY <1>1, <1>3, <1>4, <1>5 DEF Resolves

(* What is left of an emission when the next promise that waits is served.   *)
Served == Head(Head(emitting).joins)

RestOfHead == [Head(emitting) EXCEPT !.joins = Tail(@)]

LEMMA EmitJoinFacts ==
  ASSUME TypeOK, EmitJoin
  PROVE  /\ Served \in Promises
         /\ Head(emitting) \in ToSet(emitting)
         /\ Head(emitting).of \in Promises /\ RestOfHead.of = Head(emitting).of
         /\ \A m : m \in ToSet(Head(emitting).joins)
                     <=> m = Served \/ m \in ToSet(RestOfHead.joins)
         /\ RestOfHead \in Emission
         /\ \A e \in ToSet(emitting) : e = Head(emitting) \/ e \in ToSet(emitting')
         /\ RestOfHead \in ToSet(emitting')
         /\ \A e \in ToSet(emitting') :
              \/ e \in ToSet(emitting) \/ e = RestOfHead
              \/ state[Served] = "pending" /\ e = [of |-> Served, joins |-> joined[Served]]
         /\ emitting' \in Seq(Emission)
         /\ \/ /\ state[Served] = "pending"
               /\ state' = [state EXCEPT ![Served] = state[Head(emitting).of]]
               /\ result' = [result EXCEPT ![Served] = result[Head(emitting).of]]
               /\ [of |-> Served, joins |-> joined[Served]] \in ToSet(emitting')
            \/ state[Served] # "pending" /\ UNCHANGED <<state, result>>
  <1> DEFINE e == Head(emitting)
             p == Head(e.joins)
             r == [e EXCEPT !.joins = Tail(@)]
             rest == <<r>> \o Tail(emitting)
             new == [of |-> p, joins |-> joined[p]]
  <1>1. emitting # <<>> /\ e.joins # <<>>
    BY DEF EmitJoin
  <1>2. /\ e \in Emission /\ Tail(emitting) \in Seq(Emission)
        /\ \A y : y \in ToSet(emitting) <=> y = e \/ y \in ToSet(Tail(emitting))
    BY <1>1, InTail DEF TypeOK
  <1>3. e.of \in Promises /\ e.joins \in Seq(Promises)
    BY <1>2 DEF Emission
  <1>4. /\ p \in Promises /\ Tail(e.joins) \in Seq(Promises)
        /\ \A m : m \in ToSet(e.joins) <=> m = p \/ m \in ToSet(Tail(e.joins))
    BY <1>1, <1>3, InTail
  <1>5. r \in Emission /\ r.of = e.of /\ r.joins = Tail(e.joins)
    BY <1>2, <1>3, <1>4 DEF Emission
  <1>6. new \in Emission
    BY <1>4 DEF Emission, TypeOK
  <1>7. \/ /\ state[p] = "pending"
           /\ state' = [state EXCEPT ![p] = state[e.of]]
           /\ result' = [result EXCEPT ![p] = result[e.of]]
           /\ emitting' = <<new>> \o rest
        \/ state[p] # "pending" /\ UNCHANGED <<state, result>> /\ emitting' = rest
    BY Zenon DEF EmitJoin
  <1> HIDE DEF r, e, new
  <1>8. /\ rest \in Seq(Emission) /\ <<new>> \o rest \in Seq(Emission)
        /\ <<r>> \in Seq(Emission) /\ <<new>> \in Seq(Emission)
    BY <1>2, <1>5, <1>6
  <1>9. \A y : y \in ToSet(rest) <=> y = r \/ y \in ToSet(Tail(emitting))
    BY <1>2, <1>8, InConcat, InSingle
  <1> HIDE DEF rest
  <1>10. \A y : y \in ToSet(<<new>> \o rest) <=> y = new \/ y \in ToSet(rest)
    BY <1>8, InConcat, InSingle
  <1>11. /\ emitting' \in Seq(Emission)
         /\ r \in ToSet(emitting')
         /\ \A y \in ToSet(emitting) : y = e \/ y \in ToSet(emitting')
         /\ \A y \in ToSet(emitting') :
              y \in ToSet(emitting) \/ y = r \/ (state[p] = "pending" /\ y = new)
         /\ state[p] = "pending" => new \in ToSet(emitting')
    BY <1>2, <1>7, <1>8, <1>9, <1>10
  <1> QED BY <1>2, <1>3, <1>4, <1>5, <1>7, <1>11 DEF Served, RestOfHead, e, r, new

(* EmitReactions enqueues the reactions to the promise that emits.           *)
LEMMA EmitReactionsFacts ==
  ASSUME TypeOK, EmitReactions
  PROVE  /\ Head(emitting) \in ToSet(emitting) /\ Head(emitting).of \in Promises
         /\ \A e \in ToSet(emitting) : e = Head(emitting) \/ e \in ToSet(emitting')
         /\ \A e \in ToSet(emitting') : e \in ToSet(emitting)
         /\ emitting' \in Seq(Emission) /\ queue' \in Seq(Reaction)
         /\ \A r : r \in ToSet(queue')
              <=> \/ r \in ToSet(queue)
                  \/ \E m \in ToSet(reactions[Head(emitting).of]) :
                       r = [from |-> Head(emitting).of, to |-> m]
  <1> DEFINE p == Head(emitting).of
             s == reactions[p]
             t == [i \in 1..Len(s) |-> [from |-> p, to |-> s[i]]]
  <1>1. emitting # <<>> /\ emitting' = Tail(emitting) /\ queue' = queue \o t
    BY DEF EmitReactions
  <1>2. /\ Head(emitting) \in Emission /\ Tail(emitting) \in Seq(Emission)
        /\ \A y : y \in ToSet(emitting) <=> y = Head(emitting) \/ y \in ToSet(Tail(emitting))
    BY <1>1, InTail DEF TypeOK
  <1>3. p \in Promises
    BY <1>2 DEF Emission
  <1>4. s \in Seq(Promises)
    BY <1>3 DEF TypeOK
  <1>5. t \in Seq(Reaction)
    BY <1>3, <1>4 DEF Reaction
  <1>6. \A y : y \in ToSet(t) <=> \E i \in 1..Len(s) : y = [from |-> p, to |-> s[i]]
    <2>1. DOMAIN t = 1..Len(s)
      OBVIOUS
    <2> QED BY <2>1 DEF ToSet
  <1>7. \A m : m \in ToSet(s) <=> \E i \in 1..Len(s) : s[i] = m
    BY <1>4, InSeq
  <1> HIDE DEF t, s, p
  <1>8. \A y : y \in ToSet(t) <=> \E m \in ToSet(s) : y = [from |-> p, to |-> m]
    BY <1>6, <1>7
  <1>9. queue \o t \in Seq(Reaction)
        /\ \A y : y \in ToSet(queue \o t) <=> y \in ToSet(queue) \/ y \in ToSet(t)
    BY <1>5, InConcat DEF TypeOK
  <1> QED BY <1>1, <1>2, <1>3, <1>8, <1>9 DEF s, p

(* The queue, the handler that runs and the reactions that have run.         *)
LEMMA QueueFacts ==
  ASSUME TypeOK, Next
  PROVE  /\ queue' \in Seq(Reaction) /\ current' \in Seq(Reaction) /\ reacted' \subseteq Promises
         /\ \A r \in ToSet(queue') : r \in ToSet(queue) \/ EmitReactions
         /\ \A r \in ToSet(queue) : r \in ToSet(queue') \/ r.to \in reacted'
         /\ reacted \subseteq reacted'
         /\ \A m \in reacted' : m \in reacted \/ \E r \in ToSet(queue) : r.to = m
         /\ \A r \in ToSet(current') : r \in ToSet(current) \/ r \in ToSet(queue)
  <1>0. queue \in Seq(Reaction) /\ current \in Seq(Reaction) /\ reacted \subseteq Promises
    BY DEF TypeOK
  <1>1. CASE UNCHANGED <<queue, current, reacted>>
    BY <1>0, <1>1
  <1>2. CASE EmitReactions
    BY <1>0, <1>2, EmitReactionsFacts DEF EmitReactions
  <1>3. CASE PassOn \/ CallHandler
    <2>1. /\ queue # <<>> /\ queue' = Tail(queue) /\ reacted' = reacted \cup {Head(queue).to}
          /\ current' = current \/ current' = <<Head(queue)>>
      BY <1>3 DEF PassOn, CallHandler, CanRun
    <2>2. /\ Head(queue) \in Reaction /\ Tail(queue) \in Seq(Reaction)
          /\ \A y : y \in ToSet(queue) <=> y = Head(queue) \/ y \in ToSet(Tail(queue))
      BY <1>0, <2>1, InTail
    <2>3. Head(queue).to \in Promises /\ <<Head(queue)>> \in Seq(Reaction)
      BY <2>2 DEF Reaction
    <2>4. \A r \in ToSet(current') : r \in ToSet(current) \/ r = Head(queue)
      BY <2>1, InSingle
    <2> QED BY <1>0, <2>1, <2>2, <2>3, <2>4
  <1>4. ASSUME NEW v \in Objects, HandlerReturns(v) \/ HandlerThrows(v)
        PROVE  current' = <<>> /\ UNCHANGED <<queue, reacted>>
    BY <1>4 DEF HandlerReturns, HandlerThrows
  <1>5. CASE current' = <<>> /\ UNCHANGED <<queue, reacted>>
    <2>1. <<>> \in Seq(Reaction)
      OBVIOUS
    <2> QED BY <1>0, <1>5, <2>1, InEmpty
  <1>6. CASE NewStep \/ ThenStep \/ EmitJoin
    BY <1>1, <1>6 DEF NewStep, ThenStep, New, Then, EmitJoin
  <1>7. CASE ResolveStep
    BY <1>1, <1>3, <1>4, <1>5, <1>7 DEF ResolveStep, Resolves, Success, Failure
  <1> QED BY <1>2, <1>3, <1>6, <1>7, StepKinds

(* States only go forward.                                                   *)
LEMMA States ==
  ASSUME TypeOK, Due, Next, NEW q \in Promises
  PROVE  /\ Ready(q) => state'[q] = state[q] /\ result'[q] = result[q] /\ Ready(q)'
         /\ Exists(q) => Exists(q)'
         /\ state[q] = "pending" => state'[q] \in {"pending"} \cup Outcomes
  <1>0. /\ state \in [Promises -> {"none", "pending"} \cup Outcomes]
        /\ result \in [Promises -> Values \cup {Unset}]
    BY DEF TypeOK
  <1>1. CASE UNCHANGED <<state, result>>
    BY <1>1 DEF Ready, Exists
  <1>2. ASSUME NEW p \in Promises, state[p] = "none", result' = result,
               state' = [state EXCEPT ![p] = "pending"]
        PROVE  /\ Ready(q) => state'[q] = state[q] /\ result'[q] = result[q] /\ Ready(q)'
               /\ Exists(q) => Exists(q)'
               /\ state[q] = "pending" => state'[q] \in {"pending"} \cup Outcomes
    BY <1>0, <1>2 DEF Ready, Exists, Outcomes
  <1>3. ASSUME NEW p \in Promises, NEW o \in Outcomes, NEW w, state[p] = "pending",
               state' = [state EXCEPT ![p] = o], result' = [result EXCEPT ![p] = w]
        PROVE  /\ Ready(q) => state'[q] = state[q] /\ result'[q] = result[q] /\ Ready(q)'
               /\ Exists(q) => Exists(q)'
               /\ state[q] = "pending" => state'[q] \in {"pending"} \cup Outcomes
    BY <1>0, <1>3 DEF Ready, Exists, Outcomes
  <1>4. CASE NewStep \/ ThenStep
    BY <1>2, <1>4 DEF NewStep, ThenStep, New, Then
  <1>5. CASE ResolveStep
    <2>1. PICK p \in Promises : Resolved(p)
      BY <1>5, ResolvesFree DEF ResolveStep
    <2> QED BY <1>1, <1>3, <2>1 DEF Resolved, Settles, Joins
  <1>6. CASE EmitJoin
    <2>1. /\ Head(emitting) \in ToSet(emitting) /\ Served \in Promises
          /\ Head(emitting).of \in Promises
      BY <1>6, EmitJoinFacts
    <2>2. state[Head(emitting).of] \in Outcomes
      BY <2>1 DEF Due, Ready
    <2>3. \/ /\ state[Served] = "pending"
             /\ state' = [state EXCEPT ![Served] = state[Head(emitting).of]]
             /\ result' = [result EXCEPT ![Served] = result[Head(emitting).of]]
          \/ UNCHANGED <<state, result>>
      BY <1>6, EmitJoinFacts
    <2> QED BY <1>1, <1>3, <2>1, <2>2, <2>3
  <1>7. CASE EmitReactions \/ CallHandler
    BY <1>1, <1>7 DEF EmitReactions, CallHandler
  <1> QED BY <1>4, <1>5, <1>6, <1>7, StepKinds

(* Reactions are only attached, by promises that are new.                    *)
LEMMA Attached ==
  ASSUME TypeOK, Due, Next
  PROVE  \/ reactions' = reactions
         \/ \E p, n \in Promises :
              /\ Exists(p) /\ state[n] = "none"
              /\ state' = [state EXCEPT ![n] = "pending"]
              /\ reactions' = [reactions EXCEPT ![p] = Append(@, n)]
              /\ Ready(p) => \E e \in ToSet(emitting') : e.of = p
              /\ UNCHANGED <<joined, queue, reacted>>
              /\ emitting = <<>>
  <1>1. CASE ThenStep
    <2>1. PICK p, n \in Promises, h \in Pairs : Then(p, n, h)
      BY <1>1 DEF ThenStep
    <2>2. ASSUME Ready(p) PROVE \E e \in ToSet(emitting') : e.of = p
      <3>1. emitting' = <<[of |-> p, joins |-> joined[p]]>>
        BY <2>1, <2>2 DEF Then
      <3> QED BY <3>1, InSingle
    <2> QED BY <2>1, <2>2 DEF Then
  <1>2. CASE ResolveStep
    BY <1>2, ResolvesFree DEF ResolveStep
  <1>3. CASE NewStep \/ EmitJoin \/ EmitReactions \/ CallHandler
    BY <1>3 DEF NewStep, New, EmitJoin, EmitReactions, CallHandler
  <1> QED BY <1>1, <1>2, <1>3, StepKinds

(* The elements of the lists of reactions after a step.                      *)
LEMMA AttachedElements ==
  ASSUME TypeOK, Due, Next, NEW p \in Promises, NEW m \in ToSet(reactions'[p])
  PROVE  \/ m \in ToSet(reactions[p])
         \/ /\ m \in Promises /\ state[m] = "none" /\ state'[m] = "pending" /\ Exists(p)
            /\ Ready(p) => \E e \in ToSet(emitting') : e.of = p
            /\ \A q \in Promises : q # p => reactions'[q] = reactions[q]
  <1>0. reactions \in [Promises -> Seq(Promises)] /\ state \in [Promises -> {"none", "pending"} \cup Outcomes]
    BY DEF TypeOK
  <1>1. CASE reactions' = reactions
    BY <1>1
  <1>2. ASSUME NEW q \in Promises, NEW n \in Promises, Exists(q), state[n] = "none",
               state' = [state EXCEPT ![n] = "pending"],
               reactions' = [reactions EXCEPT ![q] = Append(@, n)],
               Ready(q) => \E e \in ToSet(emitting') : e.of = q
        PROVE  \/ m \in ToSet(reactions[p])
               \/ /\ m \in Promises /\ state[m] = "none" /\ state'[m] = "pending" /\ Exists(p)
                  /\ Ready(p) => \E e \in ToSet(emitting') : e.of = p
                  /\ \A r \in Promises : r # p => reactions'[r] = reactions[r]
    <2>1. CASE p = q
      <3>1. reactions'[p] = Append(reactions[p], n) /\ reactions[p] \in Seq(Promises)
        BY <1>0, <1>2, <2>1
      <3>2. m \in ToSet(reactions[p]) \/ m = n
        BY <3>1, InAppend
      <3> QED BY <1>0, <1>2, <2>1, <3>2
    <2>2. CASE p # q
      BY <1>0, <1>2, <2>2
    <2> QED BY <2>1, <2>2
  <1> QED BY <1>1, <1>2, Attached

(* Free promises stay free.                                                  *)
LEMMA FreeStays ==
  ASSUME TypeOK, Due, Next, NEW m \in Promises, Free(m)
  PROVE  Free(m)'
  <1>1. Exists(m)'
    BY States DEF Free
  <1>2. ASSUME NEW p \in Promises, m \in ToSet(reactions'[p])
        PROVE  Ready(p)'
    <2>1. m \in ToSet(reactions[p])
      BY <1>2, AttachedElements DEF Free, Exists
    <2> QED BY <2>1, States DEF Free
  <1> QED BY <1>1, <1>2 DEF Free

(* Only free promises and new ones change their state.                       *)
LEMMA Changed ==
  ASSUME TypeOK, Due, Next, NEW q \in Promises, state'[q] # state[q]
  PROVE  Free(q) \/ state[q] = "none"
  <1>0. state \in [Promises -> {"none", "pending"} \cup Outcomes]
    BY DEF TypeOK
  <1>1. CASE NewStep \/ ThenStep
    BY <1>0, <1>1 DEF NewStep, ThenStep, New, Then
  <1>2. CASE ResolveStep
    <2>1. PICK p \in Promises : Free(p) /\ Resolved(p)
      BY <1>2, ResolvesFree DEF ResolveStep
    <2>2. q = p
      BY <1>0, <2>1 DEF Resolved, Settles, Joins
    <2> QED BY <2>1, <2>2
  <1>3. CASE EmitJoin
    <2>1. /\ Head(emitting) \in ToSet(emitting) /\ Served \in ToSet(Head(emitting).joins)
          /\ Served \in Promises
      BY <1>3, EmitJoinFacts
    <2>2. Free(Served)
      BY <2>1 DEF Due
    <2>3. \/ state' = [state EXCEPT ![Served] = state[Head(emitting).of]]
          \/ UNCHANGED state
      BY <1>3, EmitJoinFacts
    <2>4. q = Served
      BY <1>0, <2>1, <2>3
    <2> QED BY <2>2, <2>4
  <1>4. CASE EmitReactions \/ CallHandler
    BY <1>4 DEF EmitReactions, CallHandler
  <1> QED BY <1>1, <1>2, <1>3, <1>4, StepKinds

LEMMA ForestStep ==
  ASSUME TypeOK, Due, Forest, Next
  PROVE  Forest'
  <1>0. \A p \in Promises : ToSet(reactions[p]) \subseteq Promises
    BY InSeq DEF TypeOK
  <1>1. ASSUME NEW p \in Promises, NEW m \in ToSet(reactions'[p])
        PROVE  Exists(m)' /\ (~Ready(p)' => state'[m] = "pending")
    <2>1. CASE m \in ToSet(reactions[p])
      <3>1. m \in Promises /\ Exists(m) /\ (~Ready(p) => state[m] = "pending")
        BY <1>0, <2>1 DEF Forest
      <3>2. Exists(m)' /\ (Ready(p) => Ready(p)')
        BY <3>1, States
      <3>3. ~Ready(p) => state'[m] = state[m]
        BY <2>1, <3>1, Changed DEF Free, Exists
      <3> QED BY <3>1, <3>2, <3>3
    <2>2. CASE m \notin ToSet(reactions[p])
      <3>1. state'[m] = "pending"
        BY <2>2, AttachedElements
      <3> QED BY <3>1 DEF Exists
    <2> QED BY <2>1, <2>2
  <1>2. ASSUME NEW p \in Promises, NEW q \in Promises,
               NEW m \in ToSet(reactions'[p]), m \in ToSet(reactions'[q])
        PROVE  p = q
    <2>1. CASE m \in ToSet(reactions[p]) /\ m \in ToSet(reactions[q])
      BY <2>1 DEF Forest
    <2>2. CASE m \notin ToSet(reactions[p])
      <3>1. state[m] = "none" /\ (q # p => m \in ToSet(reactions[q]))
        BY <1>2, <2>2, AttachedElements
      <3> QED BY <3>1 DEF Forest, Exists
    <2>3. CASE m \notin ToSet(reactions[q])
      <3>1. state[m] = "none" /\ (p # q => m \in ToSet(reactions[p]))
        BY <1>2, <2>3, AttachedElements
      <3> QED BY <3>1 DEF Forest, Exists
    <2> QED BY <2>1, <2>2, <2>3
  <1> QED BY <1>1, <1>2 DEF Forest

(* Who waits after a step waited before, or is free and waits for a promise  *)
(* that is not ready.                                                        *)
LEMMA JoinedFacts ==
  ASSUME TypeOK, Due, Next, NEW q \in Promises, NEW m \in ToSet(joined'[q])
  PROVE  m \in ToSet(joined[q]) \/ (m \in Promises /\ Free(m) /\ ~Ready(q)')
  <1>0. joined \in [Promises -> Seq(Promises)]
    BY DEF TypeOK
  <1>1. CASE joined' = joined
    BY <1>1
  <1>2. CASE ResolveStep
    <2>1. PICK p \in Promises : Free(p) /\ Resolved(p)
      BY <1>2, ResolvesFree DEF ResolveStep
    <2>2. ASSUME NEW v \in Promises, Joins(p, v)
          PROVE  m \in ToSet(joined[q]) \/ (m \in Promises /\ Free(m) /\ ~Ready(q)')
      <3>1. /\ ~Ready(v) /\ UNCHANGED state
            /\ joined' = [joined EXCEPT ![v] = Append(@, p)]
        BY <2>2 DEF Joins
      <3>2. CASE q = v
        <4>1. joined'[q] = Append(joined[q], p) /\ joined[q] \in Seq(Promises)
          BY <1>0, <3>1, <3>2
        <4>2. m \in ToSet(joined[q]) \/ m = p
          BY <4>1, InAppend
        <4> QED BY <2>1, <3>1, <3>2, <4>2 DEF Ready
      <3>3. CASE q # v
        BY <1>0, <3>1, <3>3
      <3> QED BY <3>2, <3>3
    <2> QED BY <1>1, <2>1, <2>2 DEF Resolved, Settles
  <1>3. CASE NewStep \/ ThenStep \/ EmitJoin \/ EmitReactions \/ CallHandler
    BY <1>1, <1>3 DEF NewStep, ThenStep, New, Then, EmitJoin, EmitReactions, CallHandler
  <1> QED BY <1>2, <1>3, StepKinds

(* Emissions after a step: each was there, or is of a promise that is ready  *)
(* and for promises that are free; none but the innermost ends; a promise    *)
(* that becomes ready tells all that wait for it.                            *)
LEMMA EmittingFacts ==
  ASSUME TypeOK, Due, Next
  PROVE  /\ \A e \in ToSet(emitting') :
              \/ e \in ToSet(emitting)
              \/ /\ e.of \in Promises /\ Ready(e.of)'
                 /\ \A m \in ToSet(e.joins) : m \in Promises /\ Free(m)
         /\ \A e \in ToSet(emitting) :
              e \in ToSet(emitting') \/ (e = Head(emitting) /\ (EmitJoin \/ EmitReactions))
         /\ \A q \in Promises : Ready(q)' /\ ~Ready(q) =>
              \E e \in ToSet(emitting') : e.of = q /\ e.joins = joined[q]
         /\ emitting' \in Seq(Emission)
  <1> DEFINE Old == \A e \in ToSet(emitting') :
                      \/ e \in ToSet(emitting)
                      \/ /\ e.of \in Promises /\ Ready(e.of)'
                         /\ \A m \in ToSet(e.joins) : m \in Promises /\ Free(m)
             Kept == \A e \in ToSet(emitting) :
                       e \in ToSet(emitting') \/ (e = Head(emitting) /\ (EmitJoin \/ EmitReactions))
             Told == \A q \in Promises : Ready(q)' /\ ~Ready(q) =>
                       \E e \in ToSet(emitting') : e.of = q /\ e.joins = joined[q]
  <1>0. /\ state \in [Promises -> {"none", "pending"} \cup Outcomes]
        /\ emitting \in Seq(Emission) /\ joined \in [Promises -> Seq(Promises)]
    BY DEF TypeOK
  <1>1. \A q \in Promises : \A m \in ToSet(joined[q]) : m \in Promises /\ Free(m)
    BY <1>0, InSeq DEF Due
  <1>2. CASE UNCHANGED <<state, emitting>>
    BY <1>0, <1>2 DEF Ready
  <1>3. CASE EmitReactions
    <2>1. UNCHANGED state
      BY <1>3 DEF EmitReactions
    <2> QED BY <1>3, <2>1, EmitReactionsFacts DEF Ready
  <1>4. CASE NewStep
    <2>1. PICK p \in Promises : state' = [state EXCEPT ![p] = "pending"] /\ UNCHANGED emitting
      BY <1>4 DEF NewStep, New
    <2>2. \A q \in Promises : Ready(q)' => Ready(q)
      BY <1>0, <2>1 DEF Ready, Outcomes
    <2> QED BY <1>0, <2>1, <2>2
  <1>5. CASE ThenStep
    <2>1. PICK p, n \in Promises, h \in Pairs : Then(p, n, h)
      BY <1>5 DEF ThenStep
    <2>2. /\ emitting = <<>> /\ state' = [state EXCEPT ![n] = "pending"]
          /\ \/ Ready(p) /\ emitting' = <<[of |-> p, joins |-> joined[p]]>>
             \/ emitting' = <<>>
      BY <2>1 DEF Then
    <2>3. \A q \in Promises : Ready(q)' => Ready(q)
      BY <1>0, <2>2 DEF Ready, Outcomes
    <2>4. emitting' \in Seq(Emission)
      <3>1. [of |-> p, joins |-> joined[p]] \in Emission
        BY <1>0 DEF Emission
      <3>2. <<[of |-> p, joins |-> joined[p]]>> \in Seq(Emission) /\ <<>> \in Seq(Emission)
        BY <3>1
      <3> QED BY <2>2, <3>2
    <2>5. \A e \in ToSet(emitting') : Ready(p) /\ e = [of |-> p, joins |-> joined[p]]
      BY <2>2, InSingle, InEmpty
    <2>6. Ready(p) => Ready(p)'
      BY States
    <2>7. Old
      BY <1>1, <2>5, <2>6
    <2>8. Kept
      BY <2>2, InEmpty
    <2> QED BY <2>3, <2>4, <2>7, <2>8
  <1>6. CASE ResolveStep
    <2>1. PICK p \in Promises : Resolved(p)
      BY <1>6, ResolvesFree DEF ResolveStep
    <2>2. ASSUME NEW o \in Outcomes, NEW w \in Values \cup {Unset}, Settles(p, o, w)
          PROVE  Old /\ Kept /\ Told /\ emitting' \in Seq(Emission)
      <3> DEFINE new == [of |-> p, joins |-> joined[p]]
      <3>1. /\ state' = [state EXCEPT ![p] = o] /\ emitting' = <<new>> \o emitting
        BY <2>2 DEF Settles
      <3>2. new \in Emission
        BY <1>0 DEF Emission
      <3> HIDE DEF new
      <3>3. /\ <<new>> \o emitting \in Seq(Emission)
            /\ \A e : e \in ToSet(<<new>> \o emitting) <=> e = new \/ e \in ToSet(emitting)
        BY <1>0, <3>2, InPush
      <3>4. emitting' \in Seq(Emission)
            /\ \A e : e \in ToSet(emitting') <=> e = new \/ e \in ToSet(emitting)
        BY <3>1, <3>3
      <3>5. Ready(p)' /\ \A q \in Promises : q # p => (Ready(q)' <=> Ready(q))
        BY <1>0, <3>1 DEF Ready
      <3>6. new.of = p /\ new.joins = joined[p]
        BY DEF new
      <3> QED BY <1>1, <3>4, <3>5, <3>6
    <2> QED BY <1>2, <2>1, <2>2 DEF Resolved, Joins
  <1>7. CASE EmitJoin
    <2>1. PICK h, s, r : h = Head(emitting) /\ s = Served /\ r = RestOfHead
      OBVIOUS
    <2>2. /\ s \in Promises /\ h \in ToSet(emitting) /\ h.of \in Promises /\ r.of = h.of
          /\ \A m : m \in ToSet(h.joins) <=> m = s \/ m \in ToSet(r.joins)
          /\ \A e \in ToSet(emitting) : e = h \/ e \in ToSet(emitting')
          /\ \A e \in ToSet(emitting') :
               \/ e \in ToSet(emitting) \/ e = r
               \/ state[s] = "pending" /\ e = [of |-> s, joins |-> joined[s]]
          /\ emitting' \in Seq(Emission)
          /\ \/ /\ state[s] = "pending"
                /\ state' = [state EXCEPT ![s] = state[h.of]]
                /\ [of |-> s, joins |-> joined[s]] \in ToSet(emitting')
             \/ state[s] # "pending" /\ UNCHANGED state
      BY <1>7, <2>1, EmitJoinFacts
    <2>3. /\ Ready(h.of) /\ Ready(h.of)'
          /\ \A m \in ToSet(h.joins) : Free(m)
      BY <2>2, States DEF Due
    <2>4. \A m \in ToSet(r.joins) : m \in Promises /\ Free(m)
      <3>1. ToSet(h.joins) \subseteq Promises
        <4>1. h \in Emission
          BY <1>0, <2>2, InSeq
        <4> QED BY <4>1, InSeq DEF Emission
      <3> QED BY <2>2, <2>3, <3>1
    <2>5. /\ state[s] = "pending" => Ready(s)'
          /\ \A q \in Promises : q # s => (Ready(q)' <=> Ready(q))
          /\ state[s] # "pending" => \A q \in Promises : Ready(q)' <=> Ready(q)
      <3>1. CASE state[s] = "pending"
        <4>1. state' = [state EXCEPT ![s] = state[h.of]] /\ state[h.of] \in Outcomes
          BY <2>2, <2>3, <3>1 DEF Ready
        <4> QED BY <1>0, <2>2, <3>1, <4>1 DEF Ready
      <3>2. CASE state[s] # "pending"
        BY <2>2, <3>2 DEF Ready
      <3> QED BY <3>1, <3>2
    <2>6. Old
      <3>1. ASSUME NEW e \in ToSet(emitting'), e \notin ToSet(emitting)
            PROVE  /\ e.of \in Promises /\ Ready(e.of)'
                   /\ \A m \in ToSet(e.joins) : m \in Promises /\ Free(m)
        <4>1. CASE e = r
          BY <2>2, <2>3, <2>4, <4>1
        <4>2. CASE state[s] = "pending" /\ e = [of |-> s, joins |-> joined[s]]
          <5>1. e.of = s /\ e.joins = joined[s]
            BY <4>2
          <5> QED BY <1>1, <2>2, <2>5, <4>2, <5>1
        <4> QED BY <2>2, <3>1, <4>1, <4>2
      <3> QED BY <3>1
    <2>7. Kept
      BY <1>7, <2>1, <2>2
    <2>8. Told
      <3>1. CASE state[s] = "pending"
        <4>1. [of |-> s, joins |-> joined[s]] \in ToSet(emitting')
          BY <2>2, <3>1
        <4> QED BY <2>5, <4>1
      <3>2. CASE state[s] # "pending"
        BY <2>5, <3>2
      <3> QED BY <3>1, <3>2
    <2> QED BY <2>2, <2>6, <2>7, <2>8
  <1>8. CASE CallHandler
    BY <1>2, <1>8 DEF CallHandler
  <1> QED BY <1>3, <1>4, <1>5, <1>6, <1>7, <1>8, StepKinds

LEMMA DueStep ==
  ASSUME TypeOK, Due, Forest, Next
  PROVE  Due'
  <1>0. /\ \A p \in Promises : ToSet(reactions[p]) \subseteq Promises
        /\ \A p \in Promises : ToSet(joined[p]) \subseteq Promises
        /\ reacted \subseteq Promises
        /\ \A r \in ToSet(queue) : r.from \in Promises /\ r.to \in Promises
        /\ \A r \in ToSet(current) : r.from \in Promises /\ r.to \in Promises
    <2>1. \A p \in Promises : reactions[p] \in Seq(Promises) /\ joined[p] \in Seq(Promises)
      BY DEF TypeOK
    <2>2. ToSet(queue) \subseteq Reaction /\ ToSet(current) \subseteq Reaction
      BY InSeq DEF TypeOK
    <2>3. \A r \in Reaction : r.from \in Promises /\ r.to \in Promises
      BY DEF Reaction
    <2>4. reacted \subseteq Promises
      BY DEF TypeOK
    <2> QED BY <2>1, <2>2, <2>3, <2>4, InSeq
  <1>1. ASSUME NEW e \in ToSet(emitting)
        PROVE  /\ e.of \in Promises /\ Ready(e.of)
               /\ \A m \in ToSet(e.joins) : m \in Promises /\ Free(m)
    <2>1. e \in Emission
      BY InSeq DEF TypeOK
    <2>2. e.of \in Promises /\ ToSet(e.joins) \subseteq Promises
      BY <2>1, InSeq DEF Emission
    <2> QED BY <2>2 DEF Due
  <1>2. ASSUME NEW r \in ToSet(queue) \cup ToSet(current)
        PROVE  Ready(r.from)' /\ Free(r.to)'
    BY <1>0, FreeStays, States DEF Due
  <1>3. ASSUME NEW r \in ToSet(queue') PROVE Ready(r.from)' /\ Free(r.to)'
    <2>1. CASE r \in ToSet(queue)
      BY <1>2, <2>1
    <2>2. CASE r \notin ToSet(queue)
      <3>1. PICK p, m : /\ p = Head(emitting).of /\ m \in ToSet(reactions[p])
                        /\ r = [from |-> p, to |-> m] /\ Head(emitting) \in ToSet(emitting)
        BY <2>2, QueueFacts, EmitReactionsFacts
      <3>2. p \in Promises /\ Ready(p)
        BY <1>1, <3>1
      <3>3. m \in Promises /\ Free(m)
        BY <1>0, <3>1, <3>2 DEF Free, Forest
      <3>4. Ready(p)' /\ Free(m)'
        BY <3>2, <3>3, States, FreeStays
      <3> QED BY <3>1, <3>4
    <2> QED BY <2>1, <2>2
  <1>4. ASSUME NEW r \in ToSet(current') PROVE Ready(r.from)' /\ Free(r.to)'
    BY <1>2, QueueFacts
  <1>5. ASSUME NEW m \in reacted' PROVE Free(m)'
    BY <1>0, QueueFacts, FreeStays DEF Due
  <1>6. ASSUME NEW q \in Promises, NEW m \in ToSet(joined'[q]) PROVE Free(m)'
    BY <1>0, JoinedFacts, FreeStays DEF Due
  <1>7. ASSUME NEW e \in ToSet(emitting')
        PROVE  Ready(e.of)' /\ \A m \in ToSet(e.joins) : Free(m)'
    <2>1. /\ e.of \in Promises
          /\ Ready(e.of) \/ Ready(e.of)'
          /\ \A m \in ToSet(e.joins) : m \in Promises /\ Free(m)
      BY <1>1, EmittingFacts
    <2> QED BY <2>1, States, FreeStays
  <1> QED BY <1>3, <1>4, <1>5, <1>6, <1>7 DEF Due

LEMMA FollowingStep ==
  ASSUME TypeOK, Due, Following, Next
  PROVE  Following'
  <1> SUFFICES ASSUME NEW q \in Promises, Ready(q)', NEW m \in ToSet(joined'[q])
               PROVE  Ready(m)' \/ \E e \in ToSet(emitting') : e.of = q /\ m \in ToSet(e.joins)
    BY DEF Following
  <1>1. m \in ToSet(joined[q])
    BY JoinedFacts
  <1>2. m \in Promises
    BY <1>1, InSeq DEF TypeOK
  <1>3. CASE ~Ready(q)
    BY <1>1, <1>3, EmittingFacts
  <1>4. CASE Ready(m)
    BY <1>2, <1>4, States
  <1>5. CASE Ready(q) /\ ~Ready(m)
    <2>1. PICK e \in ToSet(emitting) : e.of = q /\ m \in ToSet(e.joins)
      BY <1>1, <1>5 DEF Following
    <2>2. CASE e \in ToSet(emitting')
      BY <2>1, <2>2
    <2>3. CASE EmitReactions /\ e = Head(emitting)
      BY <2>1, <2>3, InEmpty DEF EmitReactions
    <2>4. CASE EmitJoin /\ e = Head(emitting)
      <3>1. PICK s, r : s = Served /\ r = RestOfHead
        OBVIOUS
      <3>2. /\ s \in Promises /\ r.of = q /\ r \in ToSet(emitting')
            /\ m = s \/ m \in ToSet(r.joins)
            /\ \/ /\ state[s] = "pending"
                  /\ state' = [state EXCEPT ![s] = state[q]]
               \/ state[s] # "pending" /\ UNCHANGED state
        BY <2>1, <2>4, <3>1, EmitJoinFacts
      <3>3. CASE m = s
        <4>1. Exists(m)
          BY <2>1 DEF Due, Free
        <4>2. state[m] = "pending"
          BY <1>2, <1>5, <4>1 DEF Exists, Ready, TypeOK
        <4>3. state'[m] = state[q]
          BY <1>2, <3>2, <3>3, <4>2 DEF TypeOK
        <4> QED BY <1>5, <4>3 DEF Ready
      <3>4. CASE m \in ToSet(r.joins)
        BY <3>2, <3>4
      <3> QED BY <3>2, <3>3, <3>4
    <2> QED BY <2>2, <2>3, <2>4, EmittingFacts
  <1> QED BY <1>3, <1>4, <1>5

LEMMA ServingStep ==
  ASSUME TypeOK, Due, Serving, Next
  PROVE  Serving'
  <1> SUFFICES ASSUME NEW p \in Promises, Ready(p)', NEW m \in ToSet(reactions'[p])
               PROVE  \/ m \in reacted'
                      \/ [from |-> p, to |-> m] \in ToSet(queue')
                      \/ \E e \in ToSet(emitting') : e.of = p
    BY DEF Serving
  <1>1. CASE ~Ready(p)
    BY <1>1, EmittingFacts
  <1>2. CASE Ready(p) /\ m \notin ToSet(reactions[p])
    BY <1>2, AttachedElements
  <1>3. CASE Ready(p) /\ m \in ToSet(reactions[p])
    <2>1. CASE m \in reacted
      BY <2>1, QueueFacts
    <2>2. CASE [from |-> p, to |-> m] \in ToSet(queue)
      BY <2>2, QueueFacts
    <2>3. ASSUME NEW e \in ToSet(emitting), e.of = p, e \notin ToSet(emitting')
          PROVE  \/ [from |-> p, to |-> m] \in ToSet(queue')
                 \/ \E f \in ToSet(emitting') : f.of = p
      <3>1. e = Head(emitting) /\ (EmitJoin \/ EmitReactions)
        BY <2>3, EmittingFacts
      <3>2. CASE EmitReactions
        BY <1>3, <2>3, <3>1, <3>2, EmitReactionsFacts
      <3>3. CASE EmitJoin
        BY <2>3, <3>1, <3>3, EmitJoinFacts
      <3> QED BY <3>1, <3>2, <3>3
    <2> QED BY <1>3, <2>1, <2>2, <2>3 DEF Serving
  <1> QED BY <1>1, <1>2, <1>3

LEMMA TypeStep ==
  ASSUME TypeOK, Due, Next
  PROVE  TypeOK'
  <1>0. TypeOK
    OBVIOUS
  <1>1. queue' \in Seq(Reaction) /\ current' \in Seq(Reaction) /\ reacted' \subseteq Promises
    BY QueueFacts
  <1>2. emitting' \in Seq(Emission)
    BY EmittingFacts
  <1>3. CASE NewStep
    BY <1>1, <1>2, <1>3 DEF NewStep, New, TypeOK
  <1>4. CASE ThenStep
    <2>1. PICK p, n \in Promises, h \in Pairs : Then(p, n, h)
      BY <1>4 DEF ThenStep
    <2>2. Append(reactions[p], n) \in Seq(Promises)
      BY DEF TypeOK
    <2>3. reactions' \in [Promises -> Seq(Promises)]
      BY <2>1, <2>2 DEF Then, TypeOK
    <2>4. handler' \in [Promises -> [fulfilled : Handlers, rejected : Handlers]]
      BY <2>1, PromisesAssumption DEF Then, TypeOK
    <2> QED BY <1>1, <1>2, <2>1, <2>3, <2>4 DEF Then, TypeOK
  <1>5. CASE ResolveStep
    <2>1. PICK p \in Promises : Resolves(p)
      BY <1>5 DEF ResolveStep
    <2>2. /\ state' \in [Promises -> {"none", "pending"} \cup Outcomes]
          /\ result' \in [Promises -> Values \cup {Unset}]
          /\ joined' \in [Promises -> Seq(Promises)]
          /\ UNCHANGED <<reactions, handler>>
      BY <2>1, ResolvesFree, ResolvedTypes
    <2>3. rooted' \subseteq Promises /\ resolving' \subseteq Promises
      BY <2>1 DEF Resolves, Success, Failure, PassOn, HandlerReturns, HandlerThrows, TypeOK
    <2> QED BY <1>1, <1>2, <2>2, <2>3 DEF TypeOK
  <1>6. CASE EmitJoin
    <2>1. /\ Served \in Promises /\ Head(emitting).of \in Promises
          /\ \/ /\ state' = [state EXCEPT ![Served] = state[Head(emitting).of]]
                /\ result' = [result EXCEPT ![Served] = result[Head(emitting).of]]
             \/ UNCHANGED <<state, result>>
      BY <1>6, EmitJoinFacts
    <2>2. /\ state' \in [Promises -> {"none", "pending"} \cup Outcomes]
          /\ result' \in [Promises -> Values \cup {Unset}]
      BY <2>1 DEF TypeOK
    <2> QED BY <1>1, <1>2, <1>6, <2>2 DEF EmitJoin, TypeOK
  <1>7. CASE EmitReactions
    <2>1. rooted' \subseteq Promises
      BY <1>7 DEF EmitReactions, TypeOK
    <2>2. UNCHANGED <<state, result, reactions, handler, joined, resolving>>
      BY <1>7 DEF EmitReactions
    <2> QED BY <1>1, <1>2, <2>1, <2>2 DEF TypeOK
  <1>8. CASE CallHandler
    BY <1>1, <1>2, <1>8 DEF CallHandler, TypeOK
  <1> QED BY <1>3, <1>4, <1>5, <1>6, <1>7, <1>8, StepKinds

(* ------------------------------ theorems ------------------------------- *)

LEMMA Invariant == Spec => []IInv
  <1>1. Init => IInv
    <2>1. ASSUME Init PROVE TypeOK
      <3>1. /\ <<>> \in Seq(Promises) /\ <<>> \in Seq(Emission) /\ <<>> \in Seq(Reaction)
        OBVIOUS
      <3> QED BY <2>1, <3>1 DEF Init, TypeOK, Handlers
    <2>2. Init => Due /\ Forest /\ Following /\ Serving
      BY InEmpty DEF Init, Due, Forest, Following, Serving
    <2> QED BY <2>1, <2>2 DEF IInv
  <1>2. IInv /\ [Next]_vars => IInv'
    <2>1. ASSUME IInv, Next PROVE IInv'
      BY <2>1, TypeStep, DueStep, ForestStep, FollowingStep, ServingStep DEF IInv
    <2>2. ASSUME IInv, UNCHANGED vars PROVE IInv'
      <3> USE <2>2 DEF vars
      <3>1. TypeOK'
        BY DEF IInv, TypeOK
      <3>2. Due'
        BY DEF IInv, Due, Free, Ready, Exists
      <3>3. Forest'
        BY DEF IInv, Forest, Ready, Exists
      <3>4. Following'
        BY DEF IInv, Following, Ready
      <3>5. Serving'
        BY DEF IInv, Serving, Ready
      <3> QED BY <3>1, <3>2, <3>3, <3>4, <3>5 DEF IInv
    <2> QED BY <2>1, <2>2
  <1> QED BY <1>1, <1>2, PTL DEF Spec

(* Type correctness.                                                         *)
THEOREM TypeCorrect == Spec => []TypeOK
  <1>1. IInv => TypeOK
    BY DEF IInv
  <1> QED BY <1>1, Invariant, PTL

(* A promise settles once and for all.                                       *)
THEOREM Immutable == Spec => SettlesOnce
  <1>1. IInv /\ [Next]_vars =>
          [\A p \in Promises : Ready(p) => state'[p] = state[p] /\ result'[p] = result[p]]_vars
    BY States DEF IInv
  <1> QED BY <1>1, Invariant, PTL DEF Spec, SettlesOnce

(* No reaction to a promise that is ready is lost.                           *)
THEOREM EveryReactionIsServed == Spec => []NoReactionIsLost
  <1>1. IInv => NoReactionIsLost
    <2> SUFFICES ASSUME IInv, emitting = <<>>, NEW p \in Promises, Ready(p),
                        NEW i \in 1..Len(reactions[p])
                 PROVE  \/ reactions[p][i] \in reacted
                        \/ \E k \in 1..Len(queue) :
                             queue[k] = [from |-> p, to |-> reactions[p][i]]
      BY DEF NoReactionIsLost, Settled
    <2>1. reactions[p][i] \in ToSet(reactions[p])
      BY InSeq DEF IInv, TypeOK
    <2>2. \/ reactions[p][i] \in reacted
          \/ [from |-> p, to |-> reactions[p][i]] \in ToSet(queue)
      BY <2>1, InEmpty DEF IInv, Serving
    <2> QED BY <2>2, InSeq DEF IInv, TypeOK
  <1> QED BY <1>1, Invariant, PTL

(* No reaction runs, and no promise that reacts settles, too early.          *)
THEOREM NoReactionIsEarly == Spec => []ReactionsAreDue
  <1>1. IInv => ReactionsAreDue
    <2> SUFFICES ASSUME IInv, NEW p \in Promises, ~Ready(p),
                        NEW i \in 1..Len(reactions[p])
                 PROVE  reactions[p][i] \notin reacted /\ state[reactions[p][i]] = "pending"
      BY DEF ReactionsAreDue
    <2>1. reactions[p][i] \in ToSet(reactions[p])
      BY InSeq DEF IInv, TypeOK
    <2> QED BY <2>1 DEF IInv, Forest, Due, Free
  <1> QED BY <1>1, Invariant, PTL

(* Promises that wait for another settle in the same call.                   *)
THEOREM WaitingFollows == Spec => []JoinedFollow
  <1>1. IInv => JoinedFollow
    <2> SUFFICES ASSUME IInv, emitting = <<>>, NEW q \in Promises, Ready(q),
                        NEW i \in 1..Len(joined[q])
                 PROVE  Ready(joined[q][i])
      BY DEF JoinedFollow, Settled
    <2>1. joined[q][i] \in ToSet(joined[q])
      BY InSeq DEF IInv, TypeOK
    <2> QED BY <2>1, InEmpty DEF IInv, Following
  <1> QED BY <1>1, Invariant, PTL

(* -------------------------------- roots -------------------------------- *)

(* A promise that is ready and still rooted is about to drop its root; one   *)
(* that a handler is going to settle is rooted.                              *)
Rooting ==
  \A p \in Promises :
    /\ Ready(p) /\ p \in rooted => \E e \in ToSet(emitting) : e.of = p
    /\ state[p] = "pending" /\ Derived(p) => p \in rooted

LEMMA DerivedIsElement ==
  ASSUME TypeOK, NEW m
  PROVE  Derived(m) <=> \E p \in Promises : m \in ToSet(reactions[p])
  BY InSeq DEF Derived, TypeOK

LEMMA RootingStep ==
  ASSUME TypeOK, Due, Forest, Rooting, Next
  PROVE  Rooting'
  <1>0. TypeOK'
    BY TypeStep
  <1>1. ASSUME NEW q \in Promises, Ready(q)', q \in rooted'
        PROVE  \E e \in ToSet(emitting') : e.of = q
    <2>1. CASE ~Ready(q)
      BY <1>1, <2>1, EmittingFacts
    <2>2. CASE Ready(q)
      <3>1. q \in rooted
        BY <1>1, <2>2, StepKinds
        DEF NewStep, New, ThenStep, Then, ResolveStep, Resolves, Success, Failure, PassOn,
            HandlerReturns, HandlerThrows, EmitJoin, EmitReactions, CallHandler, Ready, Outcomes
      <3>2. PICK e \in ToSet(emitting) : e.of = q
        BY <2>2, <3>1 DEF Rooting
      <3>3. CASE e \in ToSet(emitting')
        BY <3>2, <3>3
      <3>4. CASE EmitJoin /\ e = Head(emitting)
        BY <3>2, <3>4, EmitJoinFacts
      <3>5. CASE EmitReactions /\ e = Head(emitting)
        BY <1>1, <3>2, <3>5 DEF EmitReactions
      <3> QED BY <3>3, <3>4, <3>5, EmittingFacts
    <2> QED BY <2>1, <2>2
  <1>2. ASSUME NEW m \in Promises, state'[m] = "pending", Derived(m)'
        PROVE  m \in rooted'
    <2>1. PICK p \in Promises : m \in ToSet(reactions'[p])
      BY <1>0, <1>2, InSeq DEF Derived, TypeOK
    <2>2. CASE m \in ToSet(reactions[p])
      <3>1. Exists(m) /\ ~Ready(m) /\ Derived(m)
        BY <1>2, <2>2, States, DerivedIsElement DEF Forest, Ready, Outcomes
      <3>2. m \in rooted
        BY <3>1 DEF Rooting, Exists, Ready, TypeOK
      <3>3. CASE EmitReactions
        <4>1. Ready(Head(emitting).of) /\ rooted' = rooted \ {Head(emitting).of}
          BY <3>3, EmitReactionsFacts DEF Due, EmitReactions
        <4> QED BY <3>1, <3>2, <4>1
      <3>4. CASE ResolveStep
        <4>1. PICK q \in Promises : Resolves(q)
          BY <3>4 DEF ResolveStep
        <4>2. \/ rooted' = rooted
              \/ rooted' = rooted \ {q} /\ ~Derived(q)
          BY <4>1 DEF Resolves, Success, Failure, PassOn, HandlerReturns, HandlerThrows
        <4> QED BY <3>1, <3>2, <4>2
      <3>5. CASE NewStep \/ ThenStep \/ EmitJoin \/ CallHandler
        BY <3>2, <3>5 DEF NewStep, New, ThenStep, Then, EmitJoin, CallHandler
      <3> QED BY <3>3, <3>4, <3>5, StepKinds
    <2>3. CASE m \notin ToSet(reactions[p])
      <3>1. state[m] = "none"
        BY <2>1, <2>3, AttachedElements
      <3>2. state'[m] # state[m]
        BY <1>2, <3>1
      <3>3. CASE NewStep \/ ThenStep
        BY <3>2, <3>3 DEF NewStep, New, ThenStep, Then, TypeOK
      <3>4. CASE ResolveStep
        BY <2>1, <2>3, <3>4, ResolvesFree DEF ResolveStep
      <3>5. CASE EmitJoin \/ EmitReactions \/ CallHandler
        BY <2>1, <2>3, <3>5 DEF EmitJoin, EmitReactions, CallHandler
      <3> QED BY <3>3, <3>4, <3>5, StepKinds
    <2> QED BY <2>2, <2>3
  <1> QED BY <1>1, <1>2 DEF Rooting

(* A promise is rooted as long as a handler will settle it, and no longer.   *)
THEOREM RootsAreExact == Spec => []RootedWhileNeeded
  <1>1. Init => Rooting
    BY InEmpty DEF Init, Rooting, Ready, Outcomes
  <1>2. IInv /\ Rooting /\ [Next]_vars => Rooting'
    <2>1. ASSUME IInv, Rooting, Next PROVE Rooting'
      BY <2>1, RootingStep DEF IInv
    <2>2. ASSUME Rooting, UNCHANGED vars PROVE Rooting'
      BY <2>2 DEF Rooting, Ready, Derived, vars
    <2> QED BY <2>1, <2>2
  <1>3. IInv /\ Rooting => RootedWhileNeeded
    BY InEmpty DEF Rooting, RootedWhileNeeded, Settled
  <1> QED BY <1>1, <1>2, <1>3, Invariant, PTL DEF Spec

(* ------------------------------ passing on ----------------------------- *)

(* The promise p is ready, and m becomes what p is: no handler for that.     *)
Passing(p, m) ==
  /\ Ready(p) /\ m \in ToSet(reactions[p])
  /\ HandlerOf([from |-> p, to |-> m]) = "absent"

Waits(m) ==
  \/ \E q \in Promises : m \in ToSet(joined[q])
  \/ \E e \in ToSet(emitting) : m \in ToSet(e.joins)

(* What the executor runs are reactions; who is passed an outcome on never   *)
(* waits for another promise.                                                *)
PassingOn ==
  /\ \A r \in ToSet(queue) \cup ToSet(current) : r.to \in ToSet(reactions[r.from])
  /\ \A r \in ToSet(current) : HandlerOf(r) # "absent"
  /\ \A p, m \in Promises : Passing(p, m) =>
       /\ Ready(m) => state[m] = state[p] /\ result[m] = result[p]
       /\ ~Waits(m)

LEMMA ReactionsStay ==
  ASSUME TypeOK, Due, Next, NEW p \in Promises, NEW m \in ToSet(reactions[p])
  PROVE  m \in ToSet(reactions'[p])
  <1>1. CASE reactions' = reactions
    BY <1>1
  <1>2. ASSUME NEW q \in Promises, NEW n \in Promises,
               reactions' = [reactions EXCEPT ![q] = Append(@, n)]
        PROVE  m \in ToSet(reactions'[p])
    <2>1. reactions[q] \in Seq(Promises) /\ reactions \in [Promises -> Seq(Promises)]
      BY DEF TypeOK
    <2>2. m \in ToSet(reactions[q]) => m \in ToSet(Append(reactions[q], n))
      BY <2>1, InAppend
    <2> QED BY <1>2, <2>1, <2>2
  <1> QED BY <1>1, <1>2, Attached

(* Which handler a reaction to a promise that is ready has is settled.       *)
LEMMA HandlerStays ==
  ASSUME TypeOK, Due, Next, NEW r \in Reaction, Ready(r.from), Exists(r.to)
  PROVE  HandlerOf(r)' = HandlerOf(r)
  <1>1. r.from \in Promises /\ r.to \in Promises
    BY DEF Reaction
  <1>2. state'[r.from] = state[r.from]
    BY <1>1, States
  <1>3. handler'[r.to] = handler[r.to]
    <2>1. CASE ThenStep
      BY <1>1, <2>1 DEF ThenStep, Then, Exists, TypeOK
    <2>2. CASE ResolveStep
      BY <2>2, ResolvesFree DEF ResolveStep
    <2>3. CASE NewStep \/ EmitJoin \/ EmitReactions \/ CallHandler
      BY <2>3 DEF NewStep, New, EmitJoin, EmitReactions, CallHandler
    <2> QED BY <2>1, <2>2, <2>3, StepKinds
  <1> QED BY <1>2, <1>3 DEF HandlerOf

(* A promise that becomes ready is settled by a call, or waited for another. *)
LEMMA SettledBy ==
  ASSUME TypeOK, Due, Next, NEW m \in Promises, ~Ready(m), Ready(m)'
  PROVE  Resolves(m) \/ Waits(m)
  <1>0. state \in [Promises -> {"none", "pending"} \cup Outcomes]
    BY DEF TypeOK
  <1>1. CASE NewStep \/ ThenStep
    BY <1>0, <1>1 DEF NewStep, New, ThenStep, Then, Ready, Outcomes
  <1>2. CASE ResolveStep
    <2>1. PICK p \in Promises : Resolves(p)
      BY <1>2 DEF ResolveStep
    <2>2. Resolved(p)
      BY <2>1, ResolvesFree
    <2>3. CASE p = m
      BY <2>1, <2>3
    <2>4. CASE p # m
      BY <1>0, <2>2, <2>4 DEF Resolved, Settles, Joins, Ready
    <2> QED BY <2>3, <2>4
  <1>3. CASE EmitJoin
    <2>1. /\ Head(emitting) \in ToSet(emitting)
          /\ Served \in ToSet(Head(emitting).joins)
          /\ \/ state' = [state EXCEPT ![Served] = state[Head(emitting).of]]
             \/ UNCHANGED state
      BY <1>3, EmitJoinFacts
    <2>2. m = Served
      BY <1>0, <2>1 DEF Ready
    <2> QED BY <2>1, <2>2 DEF Waits
  <1>4. CASE EmitReactions \/ CallHandler
    BY <1>4 DEF EmitReactions, CallHandler, Ready
  <1> QED BY <1>1, <1>2, <1>3, <1>4, StepKinds

(* A promise that begins to wait has been resolved with another.             *)
LEMMA WaitsBy ==
  ASSUME TypeOK, Due, Next, NEW m \in Promises, Waits(m)'
  PROVE  Waits(m) \/ (Resolves(m) /\ joined' # joined)
  <1>0. joined \in [Promises -> Seq(Promises)] /\ emitting \in Seq(Emission)
    BY DEF TypeOK
  <1>1. CASE NewStep \/ CallHandler
    BY <1>1 DEF NewStep, New, CallHandler, Waits
  <1>2. CASE ThenStep
    <2>1. PICK p \in Promises : /\ UNCHANGED joined
                                /\ \/ emitting' = <<[of |-> p, joins |-> joined[p]]>>
                                   \/ emitting' = <<>>
      BY <1>2 DEF ThenStep, Then
    <2>2. \A e \in ToSet(emitting') : e.joins = joined[p]
      BY <2>1, InSingle, InEmpty
    <2> QED BY <2>1, <2>2 DEF Waits
  <1>3. CASE ResolveStep
    <2>1. PICK p \in Promises : Resolves(p)
      BY <1>3 DEF ResolveStep
    <2>2. Resolved(p)
      BY <2>1, ResolvesFree
    <2>3. CASE UNCHANGED <<state, result, emitting, joined>>
      BY <2>3 DEF Waits
    <2>4. ASSUME NEW o, NEW w, Settles(p, o, w) PROVE Waits(m)
      <3>1. UNCHANGED joined /\ emitting' = <<[of |-> p, joins |-> joined[p]]>> \o emitting
        BY <2>4 DEF Settles
      <3>2. [of |-> p, joins |-> joined[p]] \in Emission
        BY <1>0 DEF Emission
      <3>3. \A e \in ToSet(emitting') : e = [of |-> p, joins |-> joined[p]] \/ e \in ToSet(emitting)
        BY <1>0, <3>1, <3>2, InPush
      <3> QED BY <3>1, <3>3 DEF Waits
    <2>5. ASSUME NEW v \in Promises, Joins(p, v)
          PROVE  Waits(m) \/ (Resolves(m) /\ joined' # joined)
      <3>1. joined' = [joined EXCEPT ![v] = Append(@, p)] /\ UNCHANGED emitting
        BY <2>5 DEF Joins
      <3>2. \A y : y \in ToSet(Append(joined[v], p)) <=> y \in ToSet(joined[v]) \/ y = p
        BY <1>0, InAppend
      <3>3. Waits(m) \/ m = p
        BY <1>0, <3>1, <3>2 DEF Waits
      <3>4. CASE joined' = joined
        BY <3>1, <3>4 DEF Waits
      <3> QED BY <2>1, <3>3, <3>4
    <2> QED BY <2>2, <2>3, <2>4, <2>5 DEF Resolved
  <1>4. CASE EmitJoin
    <2>1. PICK h, s, r : h = Head(emitting) /\ s = Served /\ r = RestOfHead
      OBVIOUS
    <2>2. /\ s \in Promises /\ h \in ToSet(emitting)
          /\ \A x : x \in ToSet(r.joins) => x \in ToSet(h.joins)
          /\ \A e \in ToSet(emitting') :
               \/ e \in ToSet(emitting) \/ e = r
               \/ e = [of |-> s, joins |-> joined[s]]
      BY <1>4, <2>1, EmitJoinFacts
    <2>3. UNCHANGED joined
      BY <1>4 DEF EmitJoin
    <2> QED BY <2>2, <2>3 DEF Waits
  <1>5. CASE EmitReactions
    <2>1. UNCHANGED joined /\ \A e \in ToSet(emitting') : e \in ToSet(emitting)
      BY <1>5, EmitReactionsFacts DEF EmitReactions
    <2> QED BY <2>1 DEF Waits
  <1> QED BY <1>1, <1>2, <1>3, <1>4, <1>5, StepKinds

(* Whoever is passed an outcome on is settled with it, by nobody else.       *)
LEMMA PassingResolves ==
  ASSUME TypeOK, Due, Forest, PassingOn, NEW p \in Promises, NEW m \in Promises,
         Passing(p, m), Resolves(m)
  PROVE  Settle(m, state[p], result[p]) /\ UNCHANGED joined
  <1>1. m \in ToSet(reactions[p]) /\ HandlerOf([from |-> p, to |-> m]) = "absent"
    BY DEF Passing
  <1>2. Derived(m)
    BY <1>1, InSeq DEF Derived, TypeOK
  <1>3. ASSUME NEW r \in ToSet(queue) \cup ToSet(current), r.to = m
        PROVE  r = [from |-> p, to |-> m]
    <2>1. r \in Reaction
      BY <1>3, InSeq DEF TypeOK
    <2>2. r.from \in Promises /\ m \in ToSet(reactions[r.from])
      BY <1>3, <2>1 DEF PassingOn, Reaction
    <2>3. r.from = p
      BY <1>1, <2>2 DEF Forest
    <2> QED BY <1>3, <2>1, <2>3 DEF Reaction
  <1>4. CASE PassOn /\ m = Head(queue).to
    <2>1. queue # <<>> /\ TransferResult(Head(queue))
      BY <1>4 DEF PassOn, CanRun
    <2>2. Head(queue) = [from |-> p, to |-> m]
      BY <1>3, <1>4, <2>1, InTail DEF TypeOK
    <2>3. ResolveWith(m, state[p], result[p])
      BY <2>1, <2>2 DEF TransferResult
    <2>4. result[p] \notin Promises
      BY PromisesAssumption DEF TypeOK
    <2> QED BY <2>3, <2>4, Zenon DEF ResolveWith
  <1>5. CASE \E v \in Objects : (HandlerReturns(v) \/ HandlerThrows(v)) /\ m = Head(current).to
    <2>1. current # <<>> /\ m = Head(current).to
      BY <1>5 DEF HandlerReturns, HandlerThrows
    <2>2. Head(current) \in ToSet(current)
      BY <2>1, InTail DEF TypeOK
    <2>3. Head(current) = [from |-> p, to |-> m]
      BY <1>3, <2>1, <2>2
    <2> QED BY <1>1, <2>2, <2>3 DEF PassingOn
  <1> QED BY <1>2, <1>4, <1>5 DEF Resolves, Success, Failure

LEMMA PassingStep ==
  ASSUME TypeOK, Due, Forest, PassingOn, Next, NEW p \in Promises, NEW m \in Promises,
         Passing(p, m)'
  PROVE  /\ Ready(m)' => state'[m] = state'[p] /\ result'[m] = result'[p]
         /\ ~Waits(m)'
  <1>0. /\ state \in [Promises -> {"none", "pending"} \cup Outcomes]
        /\ result \in [Promises -> Values \cup {Unset}]
    BY DEF TypeOK
  <1>1. Ready(p)' /\ m \in ToSet(reactions'[p]) /\ HandlerOf([from |-> p, to |-> m])' = "absent"
    BY DEF Passing
  <1>2. ASSUME ~Free(m) PROVE ~Waits(m)'
    <2>1. ~Waits(m)
      BY <1>2 DEF Due, Waits
    <2>2. ~Resolves(m)
      BY <1>2, ResolvesFree
    <2> QED BY <2>1, <2>2, WaitsBy
  <1>3. CASE Passing(p, m)
    <2>1. ~Waits(m) /\ Ready(p) /\ (Ready(m) => state[m] = state[p] /\ result[m] = result[p])
      BY <1>3 DEF PassingOn, Passing
    <2>2. ~Waits(m)'
      BY <1>3, <2>1, WaitsBy, PassingResolves
    <2>3. CASE Ready(m)
      BY <2>1, <2>2, <2>3, States
    <2>4. ASSUME ~Ready(m), Ready(m)'
          PROVE  state'[m] = state'[p] /\ result'[m] = result'[p]
      <3>1. Settle(m, state[p], result[p])
        BY <1>3, <2>1, <2>4, SettledBy, PassingResolves
      <3>2. state[m] = "pending"
        BY <2>4, <3>1 DEF Settle, Ready
      <3>3. state'[m] = state[p] /\ result'[m] = result[p]
        BY <1>0, <3>1, <3>2 DEF Settle
      <3> QED BY <2>1, <3>3, States
    <2> QED BY <2>2, <2>3, <2>4
  <1>4. CASE m \notin ToSet(reactions[p])
    <2>1. state[m] = "none" /\ state'[m] = "pending"
      BY <1>1, <1>4, AttachedElements
    <2>2. ~Free(m) /\ ~Ready(m)'
      BY <2>1 DEF Free, Exists, Ready, Outcomes
    <2> QED BY <1>2, <2>2
  <1>5. CASE m \in ToSet(reactions[p]) /\ ~Ready(p)
    <2>1. ~Free(m) /\ state[m] = "pending"
      BY <1>5 DEF Free, Forest
    <2>2. state'[m] = "pending"
      BY <2>1, Changed
    <2>3. ~Ready(m)'
      BY <2>2 DEF Ready, Outcomes
    <2> QED BY <1>2, <2>1, <2>3
  <1>6. CASE m \in ToSet(reactions[p]) /\ Ready(p) /\ ~Passing(p, m)
    <2>1. Exists(m) /\ [from |-> p, to |-> m] \in Reaction
      BY <1>6 DEF Forest, Reaction
    <2>2. HandlerOf([from |-> p, to |-> m])' = HandlerOf([from |-> p, to |-> m])
      BY <1>6, <2>1, HandlerStays
    <2> QED BY <1>1, <1>6, <2>2 DEF Passing
  <1> QED BY <1>3, <1>4, <1>5, <1>6

LEMMA PassingOnStep ==
  ASSUME TypeOK, Due, Forest, PassingOn, Next
  PROVE  PassingOn'
  <1>0. \A r \in ToSet(queue) \cup ToSet(current) :
          /\ r \in Reaction /\ r.from \in Promises /\ r.to \in Promises
          /\ Ready(r.from) /\ Exists(r.to) /\ r.to \in ToSet(reactions[r.from])
    <2>1. ToSet(queue) \subseteq Reaction /\ ToSet(current) \subseteq Reaction
      BY InSeq DEF TypeOK
    <2> QED BY <2>1 DEF Due, Free, PassingOn, Reaction
  <1>1. ASSUME NEW r \in ToSet(queue') \cup ToSet(current')
        PROVE  r.to \in ToSet(reactions'[r.from])
    <2>1. CASE r \in ToSet(queue) \cup ToSet(current)
      BY <1>0, <2>1, ReactionsStay
    <2>2. CASE r \notin ToSet(queue) \cup ToSet(current)
      <3>1. EmitReactions /\ r \in ToSet(queue')
        BY <1>1, <2>2, QueueFacts
      <3>2. /\ Head(emitting).of \in Promises
            /\ \E m \in ToSet(reactions[Head(emitting).of]) : r = [from |-> Head(emitting).of, to |-> m]
        BY <2>2, <3>1, EmitReactionsFacts
      <3>3. reactions' = reactions
        BY <3>1 DEF EmitReactions
      <3> QED BY <3>2, <3>3
    <2> QED BY <2>1, <2>2
  <1>2. ASSUME NEW r \in ToSet(current')
        PROVE  HandlerOf(r)' # "absent"
    <2>1. r \in ToSet(queue) \cup ToSet(current)
      BY QueueFacts
    <2>2. HandlerOf(r)' = HandlerOf(r)
      BY <1>0, <2>1, HandlerStays
    <2>3. CASE r \in ToSet(current)
      BY <2>2, <2>3 DEF PassingOn
    <2>4. CASE r \notin ToSet(current)
      <3>1. current' # current
        BY <2>4
      <3>2. CallHandler \/ current' = <<>>
        BY <3>1, StepKinds
        DEF NewStep, New, ThenStep, Then, ResolveStep, Resolves, Success, Failure, PassOn,
            HandlerReturns, HandlerThrows, EmitJoin, EmitReactions
      <3>3. CallHandler
        BY <1>2, <3>2, InEmpty
      <3>4. r = Head(queue) /\ HandlerOf(Head(queue)) # "absent"
        BY <1>2, <3>3, InSingle DEF CallHandler
      <3> QED BY <2>2, <3>4
    <2> QED BY <2>3, <2>4
  <1> QED BY <1>1, <1>2, PassingStep DEF PassingOn

LEMMA PassingInvariant == Spec => []PassingOn
  <1>1. Init => PassingOn
    BY InEmpty DEF Init, PassingOn, Passing
  <1>2. IInv /\ PassingOn /\ [Next]_vars => PassingOn'
    <2>1. ASSUME IInv, PassingOn, Next PROVE PassingOn'
      BY <2>1, PassingOnStep DEF IInv
    <2>2. ASSUME PassingOn, UNCHANGED vars PROVE PassingOn'
      BY <2>2 DEF PassingOn, Passing, Waits, HandlerOf, Ready, vars
    <2> QED BY <2>1, <2>2
  <1> QED BY <1>1, <1>2, Invariant, PTL DEF Spec

(* Without a handler for the outcome, the outcome is passed on as it is.     *)
THEOREM OutcomesArePassedOn == Spec => []PassedOn
  <1>1. IInv /\ PassingOn => PassedOn
    <2> SUFFICES ASSUME IInv, PassingOn, NEW p \in Promises, NEW i \in 1..Len(reactions[p]),
                        NEW n, n = reactions[p][i], Ready(n),
                        HandlerOf([from |-> p, to |-> n]) = "absent"
                 PROVE  state[n] = state[p] /\ result[n] = result[p]
      BY DEF PassedOn
    <2>1. n \in ToSet(reactions[p]) /\ n \in Promises
      BY InSeq DEF IInv, TypeOK
    <2>2. Ready(p)
      BY <2>1 DEF IInv, Forest, Ready, Outcomes
    <2> QED BY <2>1, <2>2 DEF PassingOn, Passing
  <1> QED BY <1>1, Invariant, PassingInvariant, PTL

(* -------------------------------- order -------------------------------- *)

(* No promise reacts twice to one.                                           *)
Distinct ==
  \A p \in Promises : \A i, j \in 1..Len(reactions[p]) :
    reactions[p][i] = reactions[p][j] => i = j

(* Before the reaction i of a promise, that is, nothing attached later: it   *)
(* has run, or is in front of position k of the queue.                       *)
Before(p, i, k) ==
  \/ reactions[p][i] \in reacted
  \/ \E l \in 1..(k - 1) : queue[l] = [from |-> p, to |-> reactions[p][i]]

Ordered ==
  /\ Distinct
  /\ ReactionsInOrder
  /\ \A p \in Promises : \A j \in 1..Len(reactions[p]) : \A k \in 1..Len(queue) :
       queue[k] = [from |-> p, to |-> reactions[p][j]] =>
         \A i \in 1..(j - 1) : Before(p, i, k)

(* The positions of a concatenation.                                         *)
LEMMA Concatenated ==
  ASSUME NEW S, NEW s \in Seq(S), NEW t \in Seq(S)
  PROVE  /\ Len(s) \in Nat /\ Len(t) \in Nat /\ Len(s \o t) = Len(s) + Len(t)
         /\ \A k \in 1..Len(s) : (s \o t)[k] = s[k]
         /\ \A k \in 1..Len(t) : (s \o t)[Len(s) + k] = t[k]
  OBVIOUS

LEMMA OrderedWhenAttached ==
  ASSUME TypeOK, Due, Forest, Ordered, Next, reactions' # reactions
  PROVE  Ordered'
  <1>1. PICK p, n \in Promises :
          /\ state[n] = "none"
          /\ reactions' = [reactions EXCEPT ![p] = Append(@, n)]
          /\ UNCHANGED <<queue, reacted>>
    BY Attached
  <1>2. /\ n \notin reacted
        /\ \A r \in ToSet(queue) : r.to # n
        /\ \A q \in Promises : n \notin ToSet(reactions[q])
    BY <1>1 DEF Due, Free, Forest, Exists
  <1>3. /\ \A k \in 1..Len(queue) : queue[k].to # n
        /\ \A q \in Promises : \A i \in 1..Len(reactions[q]) : reactions[q][i] # n
    BY <1>2, InSeq DEF TypeOK
  <1>4. /\ reactions[p] \in Seq(Promises) /\ Len(reactions[p]) \in Nat
        /\ Len(reactions'[p]) = Len(reactions[p]) + 1
        /\ \A i \in 1..Len(reactions[p]) : reactions'[p][i] = reactions[p][i]
        /\ reactions'[p][Len(reactions[p]) + 1] = n
        /\ \A q \in Promises : q # p => reactions'[q] = reactions[q]
    BY <1>1 DEF TypeOK
  <1>5. ASSUME NEW q \in Promises, NEW j \in 1..Len(reactions'[q])
        PROVE  \/ j \in 1..Len(reactions[q]) /\ reactions'[q][j] = reactions[q][j]
               \/ q = p /\ j = Len(reactions[p]) + 1 /\ reactions'[q][j] = n
    BY <1>4
  <1>6. \A q \in Promises : Len(reactions[q]) \in Nat
    BY DEF TypeOK
  <1>7. Distinct'
    BY <1>3, <1>5, <1>6 DEF Ordered, Distinct
  <1>8. ASSUME NEW q \in Promises, NEW j \in 1..Len(reactions'[q]), NEW i \in 1..(j - 1)
        PROVE  j \in 1..Len(reactions[q]) =>
                 i \in 1..Len(reactions[q]) /\ reactions'[q][i] = reactions[q][i]
    <2> SUFFICES ASSUME j \in 1..Len(reactions[q])
                 PROVE  i \in 1..Len(reactions[q]) /\ reactions'[q][i] = reactions[q][i]
      OBVIOUS
    <2>1. i \in 1..Len(reactions[q])
      BY <1>6
    <2>2. CASE q = p
      BY <1>4, <2>1, <2>2
    <2>3. CASE q # p
      BY <1>4, <2>1, <2>3
    <2> QED BY <2>1, <2>2, <2>3
  <1>9. ReactionsInOrder'
    BY <1>1, <1>2, <1>5, <1>8 DEF Ordered, ReactionsInOrder
  <1>10. ASSUME NEW q \in Promises, NEW j \in 1..Len(reactions'[q]), NEW k \in 1..Len(queue'),
                queue'[k] = [from |-> q, to |-> reactions'[q][j]], NEW i \in 1..(j - 1)
         PROVE  Before(q, i, k)'
    <2>1. queue'[k].to = reactions'[q][j] /\ queue' = queue /\ reacted' = reacted
      BY <1>1, <1>10
    <2>2. j \in 1..Len(reactions[q]) /\ reactions'[q][j] = reactions[q][j]
      BY <1>3, <1>5, <2>1
    <2>3. reactions'[q][i] = reactions[q][i]
      BY <1>8, <2>2
    <2>4. Before(q, i, k)
      BY <1>10, <2>1, <2>2 DEF Ordered
    <2> QED BY <2>1, <2>3, <2>4 DEF Before
  <1> QED BY <1>7, <1>9, <1>10 DEF Ordered

LEMMA OrderedWhenEnqueued ==
  ASSUME TypeOK, Ordered, EmitReactions
  PROVE  Ordered'
  <1>1. PICK o : o = Head(emitting).of
    OBVIOUS
  <1>2. o \in Promises
    BY <1>1, EmitReactionsFacts
  <1> DEFINE t == [i \in 1..Len(reactions[o]) |-> [from |-> o, to |-> reactions[o][i]]]
  <1>3. queue' = queue \o t /\ UNCHANGED <<reactions, reacted>>
    BY <1>1 DEF EmitReactions
  <1>4. reactions[o] \in Seq(Promises) /\ queue \in Seq(Reaction)
    BY <1>2 DEF TypeOK
  <1>5. \A i \in 1..Len(reactions[o]) : [from |-> o, to |-> reactions[o][i]] \in Reaction
    BY <1>2, <1>4 DEF Reaction
  <1>6. /\ t \in Seq(Reaction) /\ Len(t) = Len(reactions[o])
        /\ \A i \in 1..Len(reactions[o]) : t[i] = [from |-> o, to |-> reactions[o][i]]
    BY <1>4, <1>5
  <1> HIDE DEF t
  <1>7. /\ Len(queue) \in Nat /\ Len(t) \in Nat /\ Len(queue') = Len(queue) + Len(t)
        /\ \A k \in 1..Len(queue) : queue'[k] = queue[k]
        /\ \A k \in 1..Len(t) : queue'[Len(queue) + k] = t[k]
    <2>1. queue \in Seq(Reaction) /\ t \in Seq(Reaction)
      BY <1>4, <1>6
    <2> QED BY <1>3, <2>1, Concatenated
  <1>8. ASSUME NEW p \in Promises, NEW j \in 1..Len(reactions[p]), NEW k \in 1..Len(queue'),
               queue'[k] = [from |-> p, to |-> reactions[p][j]], NEW i \in 1..(j - 1)
        PROVE  Before(p, i, k)'
    <2>0. Len(reactions[p]) \in Nat
      BY DEF TypeOK
    <2>1. CASE k \in 1..Len(queue)
      <3>1. Before(p, i, k)
        BY <1>7, <1>8, <2>1 DEF Ordered
      <3>2. \A l \in 1..(k - 1) : queue'[l] = queue[l]
        BY <1>7, <2>1
      <3> QED BY <1>3, <3>1, <3>2 DEF Before
    <2>2. CASE k \notin 1..Len(queue)
      <3>1. PICK a \in 1..Len(t) : k = Len(queue) + a
        <4>1. k - Len(queue) \in 1..Len(t) /\ k = Len(queue) + (k - Len(queue))
          BY <1>7, <2>2
        <4> QED BY <4>1
      <3>2. t[a] = [from |-> p, to |-> reactions[p][j]]
        BY <1>7, <1>8, <3>1
      <3>3. o = p /\ reactions[p][a] = reactions[p][j]
        <4>1. [from |-> o, to |-> reactions[o][a]] = [from |-> p, to |-> reactions[p][j]]
          BY <1>6, <3>2
        <4> QED BY <4>1
      <3>4. a = j
        BY <1>6, <3>1, <3>3 DEF Ordered, Distinct
      <3>5. i \in 1..Len(t) /\ Len(queue) + i \in 1..(k - 1)
        BY <1>6, <1>7, <2>0, <3>1, <3>3, <3>4
      <3>6. queue'[Len(queue) + i] = [from |-> p, to |-> reactions[p][i]]
        BY <1>6, <1>7, <3>3, <3>5
      <3> QED BY <1>3, <3>5, <3>6 DEF Before
    <2> QED BY <2>1, <2>2
  <1>9. Distinct' /\ ReactionsInOrder'
    BY <1>3 DEF Ordered, Distinct, ReactionsInOrder
  <1> QED BY <1>3, <1>8, <1>9 DEF Ordered

LEMMA OrderedWhenRun ==
  ASSUME TypeOK, Forest, PassingOn, Ordered, PassOn \/ CallHandler
  PROVE  Ordered'
  <1>1. /\ queue # <<>> /\ queue' = Tail(queue)
        /\ reacted' = reacted \cup {Head(queue).to} /\ UNCHANGED reactions
    BY DEF PassOn, CallHandler, CanRun
  <1>2. /\ queue \in Seq(Reaction) /\ Len(queue) \in Nat /\ 1 \in 1..Len(queue)
        /\ Len(queue') = Len(queue) - 1 /\ Head(queue) = queue[1]
        /\ \A k \in 1..Len(queue') : queue'[k] = queue[k + 1] /\ k + 1 \in 1..Len(queue)
    BY <1>1 DEF TypeOK
  <1>3. /\ queue[1] \in Reaction /\ queue[1].from \in Promises
        /\ queue[1].to \in ToSet(reactions[queue[1].from])
    <2>1. queue[1] \in Reaction /\ queue[1] \in ToSet(queue)
      BY <1>1, <1>2, InTail
    <2> QED BY <2>1 DEF PassingOn, Reaction
  <1>4. ASSUME NEW p \in Promises, NEW j \in 1..Len(reactions[p]), reactions[p][j] \in reacted',
               NEW i \in 1..(j - 1)
        PROVE  reactions[p][i] \in reacted'
    <2>1. CASE reactions[p][j] \in reacted
      BY <1>1, <1>4, <2>1 DEF Ordered, ReactionsInOrder
    <2>2. CASE reactions[p][j] = queue[1].to
      <3>1. reactions[p][j] \in ToSet(reactions[p])
        BY InSeq DEF TypeOK
      <3>2. queue[1].from = p
        BY <1>3, <2>2, <3>1 DEF Forest
      <3>3. queue[1] = [from |-> p, to |-> reactions[p][j]]
        BY <1>3, <2>2, <3>2 DEF Reaction
      <3>4. Before(p, i, 1)
        BY <1>2, <3>3 DEF Ordered
      <3> QED BY <1>1, <3>4 DEF Before
    <2> QED BY <1>1, <1>2, <1>4, <2>1, <2>2
  <1>5. ASSUME NEW p \in Promises, NEW j \in 1..Len(reactions[p]), NEW k \in 1..Len(queue'),
               queue'[k] = [from |-> p, to |-> reactions[p][j]], NEW i \in 1..(j - 1)
        PROVE  Before(p, i, k)'
    <2>1. queue[k + 1] = [from |-> p, to |-> reactions[p][j]] /\ k + 1 \in 1..Len(queue)
      BY <1>2, <1>5
    <2>2. Before(p, i, k + 1)
      BY <2>1 DEF Ordered
    <2>3. CASE reactions[p][i] \in reacted
      BY <1>1, <2>3 DEF Before
    <2>4. ASSUME NEW l \in 1..k, queue[l] = [from |-> p, to |-> reactions[p][i]]
          PROVE  Before(p, i, k)'
      <3>1. CASE l = 1
        BY <1>1, <1>2, <2>4, <3>1 DEF Before
      <3>2. CASE l # 1
        <4>1. l - 1 \in 1..(k - 1) /\ l - 1 \in 1..Len(queue') /\ (l - 1) + 1 = l
          BY <1>2, <3>2
        <4>2. queue'[l - 1] = queue[l]
          BY <1>2, <4>1
        <4> QED BY <1>1, <2>4, <4>1, <4>2 DEF Before
      <3> QED BY <3>1, <3>2
    <2>5. k \in Nat /\ (k + 1) - 1 = k
      BY <1>2
    <2> QED BY <2>2, <2>3, <2>4, <2>5 DEF Before
  <1>6. Distinct' /\ ReactionsInOrder'
    BY <1>1, <1>4 DEF Ordered, Distinct, ReactionsInOrder
  <1> QED BY <1>1, <1>5, <1>6 DEF Ordered

(* Reactions first run in the order in which they were attached.             *)
THEOREM ReactionsRunInOrder == Spec => []ReactionsInOrder
  <1>1. Init => Ordered
    BY InEmpty DEF Init, Ordered, Distinct, ReactionsInOrder
  <1>2. IInv /\ PassingOn /\ Ordered /\ [Next]_vars => Ordered'
    <2> SUFFICES ASSUME IInv, PassingOn, Ordered, [Next]_vars PROVE Ordered'
      OBVIOUS
    <2>1. CASE UNCHANGED <<reactions, queue, reacted>>
      BY <2>1 DEF Ordered, Distinct, ReactionsInOrder, Before
    <2>2. CASE Next /\ reactions' # reactions
      BY <2>2, OrderedWhenAttached DEF IInv
    <2>3. CASE EmitReactions
      BY <2>3, OrderedWhenEnqueued DEF IInv
    <2>4. CASE PassOn \/ CallHandler
      BY <2>4, OrderedWhenRun DEF IInv
    <2>5. CASE UNCHANGED vars
      BY <2>1, <2>5 DEF vars
    <2>6. \/ UNCHANGED <<reactions, queue, reacted>> \/ reactions' # reactions
          \/ EmitReactions \/ PassOn \/ CallHandler \/ ~Next
      BY DEF Next, New, Success, Failure, Then, Emit, EmitJoin, HandlerEnds, HandlerReturns, HandlerThrows
    <2> QED BY <2>1, <2>2, <2>3, <2>4, <2>5, <2>6
  <1>3. Ordered => ReactionsInOrder
    BY DEF Ordered
  <1> QED BY <1>1, <1>2, <1>3, Invariant, PassingInvariant, PTL DEF Spec
=============================================================================
