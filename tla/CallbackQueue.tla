---------------------------- MODULE CallbackQueue -----------------------------
(***************************************************************************)
(* What IEventLoop::enqueue promises its callers (promises, the memory     *)
(* cleaner, native modules): the callbacks run to completion one at a      *)
(* time, each once per enqueue, in the order in which they were enqueued,  *)
(* until the loop is destroyed, which forgets those that have not begun.   *)
(***************************************************************************)
EXTENDS Sequences

CONSTANTS Callbacks, Idle

VARIABLES pending, current

vars == <<pending, current>>

Init == pending = <<>> /\ current = Idle

Enqueue(c) == pending' = Append(pending, c) /\ UNCHANGED current

Begin ==
  /\ current = Idle
  /\ pending # <<>>
  /\ current' = Head(pending)
  /\ pending' = Tail(pending)

End == current # Idle /\ current' = Idle /\ UNCHANGED pending

Forget == current = Idle /\ pending' = <<>> /\ UNCHANGED current

Next == (\E c \in Callbacks : Enqueue(c)) \/ Begin \/ End \/ Forget

Spec == Init /\ [][Next]_vars
=============================================================================
