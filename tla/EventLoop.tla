------------------------------ MODULE EventLoop -------------------------------
(***************************************************************************)
(* UVLoopAdapter, the event loop of the runtime: a queue of callbacks that *)
(* one libuv idle handle drains, libuv timers, and the calls run(),        *)
(* processEvents(), stop(), enqueue() of the program.  The program runs    *)
(* before, between and after the runs of the loop and inside its           *)
(* callbacks, so runs nest: frames is the C++ stack, innermost first.      *)
(* uv_run of libuv 1.43 is external, modelled as the adapter uses it.      *)
(***************************************************************************)
EXTENDS Naturals, Sequences

CONSTANTS
  Callbacks, (* the functions the program enqueues                           *)
  Timers,    (* the addresses of libuv timer handles                         *)
  Periodic,  (* those that setInterval starts                                *)
  Reentrant, (* the functions that enter the loop when the queue calls them  *)
  MaxQueue,  (* bound: the length the queue can reach                        *)
  MaxDepth   (* bound: the depth of the stack at which a run can begin       *)

ASSUME EventLoopAssumption ==
  /\ Periodic \subseteq Timers
  /\ Reentrant \subseteq Callbacks
  /\ MaxQueue \in Nat
  /\ MaxDepth \in Nat

VARIABLES
  queue,    (* UVLoopAdapter::_pendingCallbacks                              *)
  idle,     (* the handle of UVLoopAdapter::_postEventHandler                *)
  running,  (* UVLoopAdapter::_isRunning                                     *)
  stopFlag, (* uv_loop_t::stop_flag                                          *)
  timer,    (* the state of every timer handle                               *)
  frames,   (* runs of the loop and callbacks in progress, innermost first   *)
  status    (* "up", "closing" inside ~UVLoopAdapter, "down" after it        *)

vars == <<queue, idle, running, stopFlag, timer, frames, status>>

RunKinds  == {"default", "nowait", "once"}
RunPhases == {"head", "timers", "idle", "drain", "closing", "end"}

Frame ==
  [kind : RunKinds, at : RunPhases]
    \cup [kind : {"reaction"}, at : Callbacks]
    \cup [kind : {"timer"}, at : Timers]

TypeOK ==
  /\ queue \in Seq(Callbacks)
  /\ idle \in {"stopped", "active", "closing", "closed"}
  /\ running \in BOOLEAN
  /\ stopFlag \in BOOLEAN
  /\ timer \in [Timers -> {"none", "off", "waiting", "due", "closing"}]
  /\ frames \in Seq(Frame)
  /\ status \in {"up", "closing", "down"}

Init ==
  /\ queue = <<>>
  /\ idle = "stopped"
  /\ running = FALSE
  /\ stopFlag = FALSE
  /\ timer = [t \in Timers |-> "none"]
  /\ frames = <<>>
  /\ status = "up"

-----------------------------------------------------------------------------
(* The stack.                                                                *)

Top == Head(frames)

At(phase) == frames # <<>> /\ Top.kind \in RunKinds /\ Top.at = phase

GoTo(phase) == frames' = <<[Top EXCEPT !.at = phase]>> \o Tail(frames)

Enter(kind, at) == frames' = <<[kind |-> kind, at |-> at]>> \o frames

Leave == frames' = Tail(frames)

InReaction == frames # <<>> /\ Top.kind = "reaction"
InTimer    == frames # <<>> /\ Top.kind = "timer"
InProgram  == status = "up" /\ (frames = <<>> \/ InReaction \/ InTimer)

(* uv_loop_alive: a handle is active, or waits for its close callback.       *)
Alive ==
  \/ idle \in {"active", "closing"}
  \/ \E t \in Timers : timer[t] \in {"waiting", "due", "closing"}

Close(h) == IF h \in {"none", "closing"} THEN h ELSE "closing"

-----------------------------------------------------------------------------
(* The program.                                                              *)

(* Fault: a loop that runs is not woken up.                                  *)
EnqueueWhileRunning(c) ==
  /\ InProgram
  /\ Len(queue) < MaxQueue
  /\ queue' = Append(queue, c)
  /\ idle' = IF running THEN idle ELSE "active"
  /\ UNCHANGED <<running, stopFlag, timer, frames, status>>

Enqueue(c) ==
  /\ InProgram
  /\ Len(queue) < MaxQueue
  /\ queue' = Append(queue, c)
  /\ idle' = "active"
  /\ UNCHANGED <<running, stopFlag, timer, frames, status>>

(* uv_timer_start: when is "due" for a delay that is already over, which is  *)
(* every first delay of an interval.                                         *)
StartTimer(t, when) ==
  /\ InProgram
  /\ timer[t] # "closing"
  /\ t \in Periodic => when = "due"
  /\ timer' = [timer EXCEPT ![t] = when]
  /\ UNCHANGED <<queue, idle, running, stopFlag, frames, status>>

StopTimer(t) ==
  /\ InProgram
  /\ timer[t] \in {"waiting", "due"}
  /\ timer' = [timer EXCEPT ![t] = "off"]
  /\ UNCHANGED <<queue, idle, running, stopFlag, frames, status>>

(* ~UVTimerAdapter, when the collector frees the timer object.               *)
DropTimer(t) ==
  /\ InProgram
  /\ timer[t] \notin {"none", "closing"}
  /\ timer' = [timer EXCEPT ![t] = "closing"]
  /\ UNCHANGED <<queue, idle, running, stopFlag, frames, status>>

MayEnter == InProgram /\ (InReaction => Top.at \in Reentrant)

(* run() does nothing when _isRunning.                                       *)
Run ==
  /\ MayEnter
  /\ ~running
  /\ Len(frames) < MaxDepth
  /\ running' = TRUE
  /\ Enter("default", "head")
  /\ UNCHANGED <<queue, idle, stopFlag, timer, status>>

ProcessEvents ==
  /\ MayEnter
  /\ Len(frames) < MaxDepth
  /\ Enter("nowait", "head")
  /\ UNCHANGED <<queue, idle, running, stopFlag, timer, status>>

Stop ==
  /\ InProgram
  /\ stopFlag' = TRUE
  /\ running' = FALSE
  /\ UNCHANGED <<queue, idle, timer, frames, status>>

(* Fault: the callback enqueued last is taken from the queue.                *)
ReturnPoppingBack ==
  /\ InReaction
  /\ queue # <<>>
  /\ queue' = SubSeq(queue, 1, Len(queue) - 1)
  /\ Leave
  /\ UNCHANGED <<idle, running, stopFlag, timer, status>>

(* processQueue, after callback().  When the callback has run the loop that  *)
(* one may have emptied the queue; what pop_front does then is undefined,    *)
(* and the model follows the program no further.                             *)
ReturnFromReaction ==
  /\ InReaction
  /\ queue # <<>>
  /\ queue' = Tail(queue)
  /\ Leave
  /\ UNCHANGED <<idle, running, stopFlag, timer, status>>

(* The handler of setTimeout stops its handle after the call.                *)
ReturnFromTimer ==
  /\ InTimer
  /\ timer' = [t \in Timers |->
       IF t = Top.at /\ t \notin Periodic /\ timer[t] \in {"waiting", "due"}
       THEN "off" ELSE timer[t]]
  /\ Leave
  /\ UNCHANGED <<queue, idle, running, stopFlag, status>>

(* Fault: the idle handle is not among those that are closed.                *)
DestroyWithIdle ==
  /\ status = "up"
  /\ frames = <<>>
  /\ running' = FALSE
  /\ stopFlag' = TRUE
  /\ timer' = [t \in Timers |-> Close(timer[t])]
  /\ status' = "closing"
  /\ Enter("once", "head")
  /\ UNCHANGED <<queue, idle>>

(* ~UVLoopAdapter, called by Runtime::destroy outside every run: stopLoop,   *)
(* then every handle is closed; the idle handle makes uv_loop_close busy.    *)
Destroy ==
  /\ status = "up"
  /\ frames = <<>>
  /\ running' = FALSE
  /\ stopFlag' = TRUE
  /\ idle' = "closing"
  /\ timer' = [t \in Timers |-> Close(timer[t])]
  /\ status' = "closing"
  /\ Enter("once", "head")
  /\ UNCHANGED queue

-----------------------------------------------------------------------------
(* The loop.                                                                 *)

(* uv__update_time: the timers of elapsed are due from now on.               *)
BeginIteration(elapsed) ==
  /\ At("head")
  /\ Alive /\ ~stopFlag
  /\ \A t \in elapsed : timer[t] = "waiting"
  /\ timer' = [t \in Timers |-> IF t \in elapsed THEN "due" ELSE timer[t]]
  /\ GoTo("timers")
  /\ UNCHANGED <<queue, idle, running, stopFlag, status>>

(* uv__run_timers, until none is due.                                        *)
FireTimer(t) ==
  /\ At("timers")
  /\ timer[t] = "due"
  /\ timer' = [timer EXCEPT ![t] = IF t \in Periodic THEN "waiting" ELSE "off"]
  /\ Enter("timer", t)
  /\ UNCHANGED <<queue, idle, running, stopFlag, status>>

TimersDone ==
  /\ At("timers")
  /\ \A t \in Timers : timer[t] # "due"
  /\ GoTo("idle")
  /\ UNCHANGED <<queue, idle, running, stopFlag, timer, status>>

(* Fault: the handle is stopped before the queue is processed.               *)
RunIdleStopping ==
  /\ At("idle")
  /\ idle' = IF idle = "active" THEN "stopped" ELSE idle
  /\ GoTo(IF idle = "active" THEN "drain" ELSE "closing")
  /\ UNCHANGED <<queue, running, stopFlag, timer, status>>

RunIdle ==
  /\ At("idle")
  /\ GoTo(IF idle = "active" THEN "drain" ELSE "closing")
  /\ UNCHANGED <<queue, idle, running, stopFlag, timer, status>>

(* processQueue, the loop test and the call; the callback stays in front.    *)
CallFront ==
  /\ At("drain")
  /\ queue # <<>>
  /\ Enter("reaction", Head(queue))
  /\ UNCHANGED <<queue, idle, running, stopFlag, timer, status>>

(* Fault: the handle is not stopped.                                         *)
QueueDrainedArmed ==
  /\ At("drain")
  /\ queue = <<>>
  /\ GoTo("closing")
  /\ UNCHANGED <<queue, idle, running, stopFlag, timer, status>>

(* The queue is empty: the idle handler stops its handle.                    *)
QueueDrained ==
  /\ At("drain")
  /\ queue = <<>>
  /\ idle' = "stopped"
  /\ GoTo("closing")
  /\ UNCHANGED <<queue, running, stopFlag, timer, status>>

(* Fault: the idle handle is left as a fresh one.                            *)
CloseHandlesToNone ==
  /\ At("closing")
  /\ idle' = IF idle = "closing" THEN "none" ELSE idle
  /\ timer' = [t \in Timers |-> IF timer[t] = "closing" THEN "none" ELSE timer[t]]
  /\ GoTo(IF Top.kind = "default" THEN "head" ELSE "end")
  /\ UNCHANGED <<queue, running, stopFlag, status>>

CloseHandles ==
  /\ At("closing")
  /\ idle' = IF idle = "closing" THEN "closed" ELSE idle
  /\ timer' = [t \in Timers |-> IF timer[t] = "closing" THEN "none" ELSE timer[t]]
  /\ GoTo(IF Top.kind = "default" THEN "head" ELSE "end")
  /\ UNCHANGED <<queue, running, stopFlag, status>>

UvRunEnds == At("end") \/ (At("head") /\ (~Alive \/ stopFlag))

(* Fault: run() leaves _isRunning set.                                       *)
RunReturnsRunning ==
  /\ UvRunEnds
  /\ Top.kind # "once"
  /\ stopFlag' = FALSE
  /\ Leave
  /\ UNCHANGED <<queue, idle, running, timer, status>>

(* uv_run clears the flag as it returns, to run() or processEvents().        *)
RunReturns ==
  /\ UvRunEnds
  /\ Top.kind # "once"
  /\ stopFlag' = FALSE
  /\ running' = IF Top.kind = "default" THEN FALSE ELSE running
  /\ Leave
  /\ UNCHANGED <<queue, idle, timer, status>>

(* Fault: the loop is run once.                                              *)
CloseLoopOnce ==
  /\ UvRunEnds
  /\ Top.kind = "once"
  /\ stopFlag' = FALSE
  /\ Leave /\ queue' = <<>> /\ status' = "down"
  /\ UNCHANGED <<idle, running, timer>>

(* Fault: the loop is stopped before every run.                              *)
CloseLoopStopped ==
  /\ UvRunEnds
  /\ Top.kind = "once"
  /\ IF Alive
     THEN GoTo("head") /\ UNCHANGED <<queue, status>>
     ELSE Leave /\ queue' = <<>> /\ status' = "down"
  /\ UNCHANGED <<idle, running, timer, stopFlag>>

(* closeLoop runs the loop until nothing in it is alive.                     *)
CloseLoop ==
  /\ UvRunEnds
  /\ Top.kind = "once"
  /\ stopFlag' = FALSE
  /\ IF Alive
     THEN GoTo("head") /\ UNCHANGED <<queue, status>>
     ELSE Leave /\ queue' = <<>> /\ status' = "down"
  /\ UNCHANGED <<idle, running, timer>>

-----------------------------------------------------------------------------
LoopStep ==
  \/ \E elapsed \in SUBSET Timers : BeginIteration(elapsed)
  \/ \E t \in Timers : FireTimer(t)
  \/ TimersDone
  \/ RunIdle
  \/ CallFront
  \/ QueueDrained
  \/ CloseHandles
  \/ RunReturns
  \/ CloseLoop

Next ==
  \/ \E c \in Callbacks : Enqueue(c)
  \/ \E t \in Timers, when \in {"due", "waiting"} : StartTimer(t, when)
  \/ \E t \in Timers : StopTimer(t) \/ DropTimer(t)
  \/ Run
  \/ ProcessEvents
  \/ Stop
  \/ ReturnFromReaction
  \/ ReturnFromTimer
  \/ Destroy
  \/ LoopStep

(* A callback is finite: it returns, however often that of a timer calls the *)
(* loop meanwhile.  The thread does not stop inside the loop; the clock      *)
(* advances; libuv takes due timers in the order in which they became due;   *)
(* the generated main function runs the loop.                                *)
Fairness ==
  /\ WF_vars(ReturnFromReaction) /\ SF_vars(ReturnFromTimer)
  /\ WF_vars(LoopStep)
  /\ \A t \in Timers : SF_vars(\E S \in SUBSET Timers : t \in S /\ BeginIteration(S))
  /\ \A t \in Timers : SF_vars(FireTimer(t))
  /\ WF_vars(frames = <<>> /\ Run)

Spec == Init /\ [][Next]_vars
FairSpec == Spec /\ Fairness
=============================================================================
