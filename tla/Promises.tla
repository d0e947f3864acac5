------------------------------- MODULE Promises -------------------------------
(***************************************************************************)
(* The promises of the runtime: Promise (tspromise.cpp), the state it      *)
(* shares with its copies (PromisePrivate, SharedPromiseInternalState),    *)
(* the reactions then() attaches (PromiseCallback) and the executor that   *)
(* runs them, a first-in first-out queue (see CallbackQueue).              *)
(*                                                                         *)
(* A promise that is resolved or rejected with a pending promise waits for *)
(* its ReadyEvent; emitting that event settles further promises, inside    *)
(* the same call: emitting is that stack of calls, innermost first, and    *)
(* the program does not run until it is empty.                             *)
(***************************************************************************)
EXTENDS Naturals, Sequences, SequencesExt

CONSTANTS
  Promises,  (* identities of promises                                       *)
  Values,    (* objects that are not promises                                *)
  Unset,     (* the result of a promise that is not ready                    *)
  Pairs,     (* what the program passes to then(), catch() and finally(): a  *)
             (* handler for either outcome                                   *)
  MaxJoins   (* bound: listeners a pending promise collects                  *)

(* No closure, a closure with a parameter, a closure without one.            *)
Handlers == {"absent", "unary", "nullary"}
Outcomes == {"fulfilled", "rejected"}

ASSUME PromisesAssumption ==
  /\ Values \cap Promises = {}
  /\ Unset \notin Values \cup Promises
  /\ Pairs \subseteq [fulfilled : Handlers, rejected : Handlers]
  /\ MaxJoins \in Nat

VARIABLES
  state,     (* PromiseState of every promise, "none" before it is created   *)
  result,    (* SharedPromiseInternalState::_result                          *)
  reactions, (* its ReadyEvent listeners, but for the connector, which is    *)
             (* always the first: the promises that then() returned          *)
  handler,   (* PromiseCallback::_onFulfilled and _onRejected, by the        *)
             (* promise that follows                                         *)
  joined,    (* the ReadyEvent listeners of the Promise object: the promises *)
             (* that wait to take over its result                            *)
  rooted,    (* the promises whose _pseudoRoot is a root of the collector    *)
  emitting,  (* the emissions of ReadyEvent in progress                      *)
  queue,     (* the reactions the executor has still to run                  *)
  current,   (* the reaction whose handler runs, as a sequence of length 1   *)
  reacted,   (* history: the reactions that have run, by their next promise  *)
  resolving  (* history: the promises whose resolve function was called      *)

vars == <<state, result, reactions, handler, joined, rooted, emitting, queue,
          current, reacted, resolving>>

Reaction == [from : Promises, to : Promises]
Emission == [of : Promises, joins : Seq(Promises)]

TypeOK ==
  /\ state \in [Promises -> {"none", "pending"} \cup Outcomes]
  /\ result \in [Promises -> Values \cup {Unset}]
  /\ reactions \in [Promises -> Seq(Promises)]
  /\ handler \in [Promises -> [fulfilled : Handlers, rejected : Handlers]]
  /\ joined \in [Promises -> Seq(Promises)]
  /\ rooted \subseteq Promises
  /\ emitting \in Seq(Emission)
  /\ queue \in Seq(Reaction)
  /\ current \in Seq(Reaction)
  /\ reacted \subseteq Promises
  /\ resolving \subseteq Promises

Ready(p)  == state[p] \in Outcomes
Exists(p) == state[p] # "none"

Init ==
  /\ state = [p \in Promises |-> "none"]
  /\ result = [p \in Promises |-> Unset]
  /\ reactions = [p \in Promises |-> <<>>]
  /\ handler = [p \in Promises |-> [fulfilled |-> "absent", rejected |-> "absent"]]
  /\ joined = [p \in Promises |-> <<>>]
  /\ rooted = {}
  /\ emitting = <<>>
  /\ queue = <<>>
  /\ current = <<>>
  /\ reacted = {}
  /\ resolving = {}

-----------------------------------------------------------------------------
(* Fault: a promise that is ready is settled again.                          *)
SettleAgain(p, outcome, v) ==
  /\ state' = [state EXCEPT ![p] = outcome]
  /\ result' = [result EXCEPT ![p] = v]
  /\ emitting' = <<[of |-> p, joins |-> joined[p]]>> \o emitting

(* SharedPromiseInternalState::resolve and reject: the first one counts.     *)
Settle(p, outcome, v) ==
  IF state[p] = "pending"
  THEN /\ state' = [state EXCEPT ![p] = outcome]
       /\ result' = [result EXCEPT ![p] = v]
       /\ emitting' = <<[of |-> p, joins |-> joined[p]]>> \o emitting
  ELSE UNCHANGED <<state, result, emitting>>

(* Fault: a promise is a result like any other.                              *)
ResolveWithAnything(p, outcome, v) == Settle(p, outcome, v) /\ UNCHANGED joined

(* PromisePrivate::resolve and reject, joinPromise and transferResult: with  *)
(* a promise, either of them takes over what that promise becomes.           *)
ResolveWith(p, outcome, v) ==
  IF v \notin Promises
  THEN Settle(p, outcome, v) /\ UNCHANGED joined
  ELSE IF Ready(v)
       THEN Settle(p, state[v], result[v]) /\ UNCHANGED joined
       ELSE /\ Len(joined[v]) < MaxJoins
            /\ joined' = [joined EXCEPT ![v] = Append(@, p)]
            /\ UNCHANGED <<state, result, emitting>>

(* What the program passes around.                                           *)
Objects == Values \cup {p \in Promises : Exists(p)}

-----------------------------------------------------------------------------
(* The program, in whatever callback it runs.                                *)

Derived(n) == \E p \in Promises : Contains(reactions[p], n)

(* new Promise(executor).  What the executor does are the steps that follow; *)
(* Promise.resolve(v) is New and Success, Promise.reject(v) New and Failure. *)
New(p) ==
  /\ emitting = <<>>
  /\ state[p] = "none"
  /\ state' = [state EXCEPT ![p] = "pending"]
  /\ rooted' = rooted \cup {p}
  /\ UNCHANGED <<result, reactions, handler, joined, emitting, queue, current,
                 reacted, resolving>>

(* The resolve function of p.  It drops the root, settled or not.            *)
Success(p, v) ==
  /\ emitting = <<>>
  /\ Exists(p) /\ ~Derived(p)
  /\ ResolveWith(p, "fulfilled", v)
  /\ rooted' = rooted \ {p}
  /\ resolving' = resolving \cup {p}
  /\ UNCHANGED <<reactions, handler, queue, current, reacted>>

(* The reject function of p.                                                 *)
Failure(p, v) ==
  /\ emitting = <<>>
  /\ Exists(p) /\ ~Derived(p)
  /\ ResolveWith(p, "rejected", v)
  /\ rooted' = rooted \ {p}
  /\ UNCHANGED <<reactions, handler, queue, current, reacted, resolving>>

(* Fault: a promise that is ready does not tell.                             *)
ThenSilent(p, n, h) ==
  /\ emitting = <<>>
  /\ Exists(p)
  /\ state[n] = "none" /\ n # p
  /\ state' = [state EXCEPT ![n] = "pending"]
  /\ rooted' = rooted \cup {n}
  /\ handler' = [handler EXCEPT ![n] = h]
  /\ reactions' = [reactions EXCEPT ![p] = Append(@, n)]
  /\ UNCHANGED <<result, joined, emitting, queue, current, reacted, resolving>>

(* Fault: a promise that is not ready emits the event.                       *)
ThenEmitting(p, n, h) ==
  /\ emitting = <<>>
  /\ Exists(p)
  /\ state[n] = "none" /\ n # p
  /\ state' = [state EXCEPT ![n] = "pending"]
  /\ rooted' = rooted \cup {n}
  /\ handler' = [handler EXCEPT ![n] = h]
  /\ reactions' = [reactions EXCEPT ![p] = Append(@, n)]
  /\ emitting' = <<[of |-> p, joins |-> <<>>]>>
  /\ UNCHANGED <<result, joined, queue, current, reacted, resolving>>

(* p.then(), and catch() and finally() through it, with what the handlers    *)
(* are.  A promise that is ready emits ReadyEvent again, to all listeners.   *)
Then(p, n, h) ==
  /\ emitting = <<>>
  /\ Exists(p)
  /\ state[n] = "none" /\ n # p
  /\ state' = [state EXCEPT ![n] = "pending"]
  /\ rooted' = rooted \cup {n}
  /\ handler' = [handler EXCEPT ![n] = h]
  /\ reactions' = [reactions EXCEPT ![p] = Append(@, n)]
  /\ emitting' = IF Ready(p) THEN <<[of |-> p, joins |-> joined[p]]>> ELSE <<>>
  /\ UNCHANGED <<result, joined, queue, current, reacted, resolving>>

-----------------------------------------------------------------------------
(* Fault: a promise settled by another does not pass the event on.           *)
EmitJoinShallow ==
  /\ emitting # <<>>
  /\ LET e    == Head(emitting)
         rest == <<[e EXCEPT !.joins = Tail(@)]>> \o Tail(emitting)
         p    == Head(e.joins)
     IN /\ e.joins # <<>>
        /\ IF state[p] = "pending"
           THEN /\ state' = [state EXCEPT ![p] = state[e.of]]
                /\ result' = [result EXCEPT ![p] = result[e.of]]
                /\ emitting' = <<[of |-> p, joins |-> <<>>]>> \o rest
           ELSE emitting' = rest /\ UNCHANGED <<state, result>>
  /\ UNCHANGED <<reactions, handler, joined, rooted, queue, current, reacted, resolving>>

(* EmitterBase::emit of ReadyEvent.  The connector comes first: the Promise  *)
(* passes the event on to the promises that wait for it ...                  *)
EmitJoin ==
  /\ emitting # <<>>
  /\ LET e    == Head(emitting)
         rest == <<[e EXCEPT !.joins = Tail(@)]>> \o Tail(emitting)
         p    == Head(e.joins)
     IN /\ e.joins # <<>>
        /\ IF state[p] = "pending"
           THEN /\ state' = [state EXCEPT ![p] = state[e.of]]
                /\ result' = [result EXCEPT ![p] = result[e.of]]
                /\ emitting' = <<[of |-> p, joins |-> joined[p]]>> \o rest
           ELSE emitting' = rest /\ UNCHANGED <<state, result>>
  /\ UNCHANGED <<reactions, handler, joined, rooted, queue, current, reacted, resolving>>

(* Fault: the last reaction attached goes first.                             *)
EmitReversed ==
  /\ emitting # <<>>
  /\ LET e == Head(emitting)
         n == Len(reactions[e.of])
     IN /\ e.joins = <<>>
        /\ rooted' = rooted \ {e.of}
        /\ queue' = queue \o [i \in 1..n |->
                                [from |-> e.of, to |-> reactions[e.of][n - i + 1]]]
  /\ emitting' = Tail(emitting)
  /\ UNCHANGED <<state, result, reactions, handler, joined, current, reacted, resolving>>

(* Fault: the root stays.                                                    *)
EmitKeepingRoot ==
  /\ emitting # <<>>
  /\ LET e == Head(emitting)
     IN /\ e.joins = <<>>
        /\ queue' = queue \o [i \in 1..Len(reactions[e.of]) |->
                                [from |-> e.of, to |-> reactions[e.of][i]]]
  /\ emitting' = Tail(emitting)
  /\ UNCHANGED <<state, result, reactions, handler, joined, rooted, current, reacted, resolving>>

(* ... and drops its root; then every reaction goes to the executor.         *)
EmitReactions ==
  /\ emitting # <<>>
  /\ LET e == Head(emitting)
     IN /\ e.joins = <<>>
        /\ rooted' = rooted \ {e.of}
        /\ queue' = queue \o [i \in 1..Len(reactions[e.of]) |->
                                [from |-> e.of, to |-> reactions[e.of][i]]]
  /\ emitting' = Tail(emitting)
  /\ UNCHANGED <<state, result, reactions, handler, joined, current, reacted, resolving>>

-----------------------------------------------------------------------------
(* The executor.                                                             *)

HandlerOf(r) ==
  IF state[r.from] = "fulfilled" THEN handler[r.to].fulfilled ELSE handler[r.to].rejected

(* Fault: a rejection is passed on as a value.                               *)
TransferAsValue(r) == ResolveWith(r.to, "fulfilled", result[r.from])

(* transferResult: the next promise becomes what this one is.                *)
TransferResult(r) == ResolveWith(r.to, state[r.from], result[r.from])

CanRun == emitting = <<>> /\ current = <<>> /\ queue # <<>>

(* Fault: without a handler nothing happens.                                 *)
PassNothingOn ==
  /\ CanRun
  /\ HandlerOf(Head(queue)) = "absent"
  /\ queue' = Tail(queue)
  /\ reacted' = reacted \cup {Head(queue).to}
  /\ UNCHANGED <<state, result, joined, emitting, reactions, handler, rooted, current, resolving>>

(* No handler for this outcome: it is passed on.                             *)
PassOn ==
  /\ CanRun
  /\ HandlerOf(Head(queue)) = "absent"
  /\ TransferResult(Head(queue))
  /\ queue' = Tail(queue)
  /\ reacted' = reacted \cup {Head(queue).to}
  /\ UNCHANGED <<reactions, handler, rooted, current, resolving>>

CallHandler ==
  /\ CanRun
  /\ HandlerOf(Head(queue)) # "absent"
  /\ current' = <<Head(queue)>>
  /\ queue' = Tail(queue)
  /\ reacted' = reacted \cup {Head(queue).to}
  /\ UNCHANGED <<state, result, reactions, handler, joined, rooted, emitting, resolving>>

(* The handler returns v; without a parameter, what it returns is dropped.   *)
HandlerReturns(v) ==
  /\ emitting = <<>> /\ current # <<>>
  /\ LET r == Head(current)
     IN IF HandlerOf(r) = "unary"
        THEN ResolveWith(r.to, "fulfilled", v)
        ELSE TransferResult(r)
  /\ current' = <<>>
  /\ UNCHANGED <<reactions, handler, rooted, queue, reacted, resolving>>

HandlerThrows(v) ==
  /\ emitting = <<>> /\ current # <<>>
  /\ ResolveWith(Head(current).to, "rejected", v)
  /\ current' = <<>>
  /\ UNCHANGED <<reactions, handler, rooted, queue, reacted, resolving>>

-----------------------------------------------------------------------------
Emit == EmitJoin \/ EmitReactions

HandlerEnds == \E v \in Objects : HandlerReturns(v) \/ HandlerThrows(v)

Next ==
  \/ \E p \in Promises : New(p)
  \/ \E p \in Promises, v \in Objects : Success(p, v) \/ Failure(p, v)
  \/ \E p, n \in Promises, h \in Pairs : Then(p, n, h)
  \/ Emit
  \/ PassOn
  \/ CallHandler
  \/ HandlerEnds

(* The emission loop runs to its end, the event loop runs what is enqueued,  *)
(* handlers return or throw.                                                 *)
Fairness ==
  /\ WF_vars(Emit)
  /\ WF_vars(PassOn \/ CallHandler)
  /\ WF_vars(HandlerEnds)

Spec == Init /\ [][Next]_vars
FairSpec == Spec /\ Fairness
=============================================================================
