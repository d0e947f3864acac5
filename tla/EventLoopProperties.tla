------------------------- MODULE EventLoopProperties --------------------------
(***************************************************************************)
(* What the event loop must do for its callers.                            *)
(***************************************************************************)
EXTENDS EventLoop

CONSTANT Idle (* nothing is being called *)

ASSUME IdleAssumption == Idle \notin Callbacks

(* No lost wake-up: as long as a callback is in the queue the idle handle is *)
(* active, so that uv_run neither returns nor sleeps in poll before it has   *)
(* been called.  The handle is started by enqueue and stopped by the idle    *)
(* handler after processQueue; both can run inside one another.              *)
QueueIsArmed == status = "up" /\ queue # <<>> => idle = "active"

(* isRunning() answers true only inside a call of run(), whatever runs of    *)
(* the loop nest in one another and wherever stop() is called.               *)
RunningMeansInsideRun ==
  running => \E i \in 1..Len(frames) : frames[i].kind = "default"

(* Closing the loop does not call back into the program, whose objects are   *)
(* about to be deleted.                                                      *)
NoCallbackWhileClosing ==
  status # "up" => \A i \in 1..Len(frames) : frames[i].kind = "once"

(* ~UVLoopAdapter leaves no handle open: libuv would write into handles of   *)
(* a loop that no longer exists.  The first uv_run of closeLoop does nothing *)
(* but clear the flag stopLoop has set.                                      *)
ClosedAtTheEnd ==
  status = "down" => idle = "closed" /\ \A t \in Timers : timer[t] = "none"

(* A run() that nobody stopped returns only when there is nothing left to    *)
(* do: no callback is in the queue, no timer is active.                      *)
RunDoesAllWork ==
  [][RunReturns /\ Top.kind = "default" /\ ~stopFlag
       => queue = <<>> /\ \A t \in Timers : timer[t] \notin {"waiting", "due"}]_vars

(* The queue behaves as CallbackQueue says: first in first out, one callback *)
(* at a time, each once, although callbacks enqueue, stop and run the loop.  *)
Executor ==
  INSTANCE CallbackQueue WITH
    pending <- IF InReaction THEN Tail(queue) ELSE queue,
    current <- IF InReaction THEN Top.at ELSE Idle

ImplementsQueue == Executor!Spec

-----------------------------------------------------------------------------
Enqueued(c) == status = "up" /\ \E i \in 1..Len(queue) : queue[i] = c

Executing(c) == InReaction /\ Top.at = c

FiringTimers == \E i \in 1..Len(frames) : frames[i].at = "timers"

(* Every callback that is enqueued is called or the loop is destroyed, when  *)
(* the program does not stop the loop for ever and its timers do not restart *)
(* one another with no delay for ever: uv__run_timers ends only when none is *)
(* due.  Callbacks may go on enqueueing callbacks, themselves included.      *)
CallbackIsCalled ==
  <>[]~stopFlag /\ []<>~FiringTimers =>
    \A c \in Callbacks : Enqueued(c) ~> Executing(c) \/ status # "up"

(* A timer that is due fires, is stopped or is dropped, when callbacks do    *)
(* not go on enqueueing callbacks for ever: processQueue ends only when the  *)
(* queue is empty.                                                           *)
TimerFires ==
  <>[]~stopFlag /\ []<>(queue = <<>>) =>
    \A t \in Timers : timer[t] = "due" ~> timer[t] # "due"

(* A program that has stopped enqueueing and has no timer ends: the idle     *)
(* handle does not keep the loop alive.                                      *)
LoopEnds ==
  <>[](queue = <<>> /\ \A t \in Timers : timer[t] \notin {"waiting", "due", "closing"})
    => []<>(frames = <<>>)

(* ~UVLoopAdapter returns.                                                   *)
LoopCloses == status = "closing" ~> status = "down"
=============================================================================
