-------------------------- MODULE PromisesProperties --------------------------
(***************************************************************************)
(* What programs rely on when they use promises.                           *)
(***************************************************************************)
EXTENDS Promises

Settled == emitting = <<>>

(* A promise is settled once: whatever resolve and reject functions, joined  *)
(* promises and handlers called several times do later, its state and its    *)
(* result stay (checkSettingOneStateAlways, checkImmutableStatePromise).     *)
SettlesOnce ==
  [][\A p \in Promises : Ready(p) => state'[p] = state[p] /\ result'[p] = result[p]]_vars

(* No reaction is lost: as soon as a promise is ready each of its reactions  *)
(* is in the queue of the executor, or has been run, whether it was attached *)
(* before or after and through however many joined promises it was settled.  *)
NoReactionIsLost ==
  Settled => \A p \in Promises : Ready(p) =>
    \A i \in 1..Len(reactions[p]) :
      \/ reactions[p][i] \in reacted
      \/ \E k \in 1..Len(queue) : queue[k] = [from |-> p, to |-> reactions[p][i]]

(* No reaction runs early: who reacts reacts to a promise that is ready.     *)
ReactionsAreDue ==
  \A p \in Promises : ~Ready(p) =>
    \A i \in 1..Len(reactions[p]) :
      /\ reactions[p][i] \notin reacted
      /\ state[reactions[p][i]] = "pending"

(* The reactions to a promise first run in the order in which they were      *)
(* attached, although ReadyEvent is emitted again for each one attached to a *)
(* promise that is ready.                                                    *)
ReactionsInOrder ==
  \A p \in Promises : \A j \in 1..Len(reactions[p]) :
    reactions[p][j] \in reacted => \A i \in 1..(j - 1) : reactions[p][i] \in reacted

(* A promise that waits for another is ready as soon as that one is, through *)
(* any chain of promises, and cycles too.                                    *)
JoinedFollow ==
  Settled => \A q \in Promises : Ready(q) =>
    \A i \in 1..Len(joined[q]) : Ready(joined[q][i])

(* catch() does not disturb a fulfilled promise, then() without a second     *)
(* handler not a rejected one: the next promise becomes the same.            *)
PassedOn ==
  \A p \in Promises : \A i \in 1..Len(reactions[p]) :
    LET n == reactions[p][i]
    IN Ready(n) /\ HandlerOf([from |-> p, to |-> n]) = "absent"
         => state[n] = state[p] /\ result[n] = result[p]

(* The collector may free a promise that is settled and nobody refers to;    *)
(* it may not free one that somebody will settle by a handler: what comes    *)
(* after it in the chain would not run.                                      *)
RootedWhileNeeded ==
  Settled => \A p \in Promises :
    /\ Ready(p) => p \notin rooted
    /\ state[p] = "pending" /\ Derived(p) => p \in rooted

-----------------------------------------------------------------------------
(* Every reaction to a promise that is ready runs in the end.                *)
ReactionRuns ==
  \A p, n \in Promises :
    Ready(p) /\ Contains(reactions[p], n) ~> n \in reacted

(* A chain without handlers for the outcome settles to its end.              *)
ChainSettles ==
  \A p, n \in Promises :
    Ready(p) /\ Contains(reactions[p], n) /\ HandlerOf([from |-> p, to |-> n]) = "absent"
      ~> Ready(n)

(* "Check resolve call and reject call. Reject should be ignored": after the *)
(* resolve function of a promise its reject function has no effect (but for  *)
(* a promise resolved with itself, which nothing else would settle).         *)
RejectIsIgnored ==
  [][\A p \in Promises, v \in Objects :
       p \in resolving /\ ~Contains(joined[p], p) /\ Failure(p, v)
         => state'[p] = state[p]]_vars
=============================================================================
