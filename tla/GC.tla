---------------------------------- MODULE GC ----------------------------------
(***************************************************************************)
(* The mark-sweep collector of the runtime (std/.../memory_management) as  *)
(* the program meets it: callbacks of the event loop that allocate, store, *)
(* root and unroot objects, timers whose storage is a second set of roots, *)
(* and a collection that runs either as a callback of its own, scheduled   *)
(* by an allocation under memory pressure, or inside a callback that calls *)
(* collect(), or from the destructor at exit.  A callback may run the loop *)
(* itself, so that other callbacks and the scheduled collection run while  *)
(* it waits.  Marking, sweeping and unmarking go one object at a time: the *)
(* code runs them without letting the program in, which pc says.           *)
(***************************************************************************)
EXTENDS Integers, Sequences, FiniteSets

CONSTANTS
  Objects,      (* addresses of collected objects; an address can be reused     *)
  TimerObjects, (* those of them that hold a TimerObject                        *)
  Periodic,     (* the timers started by setInterval; the others fire once      *)
  Roots,        (* addresses of pointer variables that can be roots             *)
  Null,         (* the null pointer in such a variable                          *)
  SizeOf,       (* what operator new is asked for, per object                   *)
  Limit,        (* g_DefaultMemoryLimitBytes                                    *)
  MaxReferences,(* bound: references from object to object that stores may make *)
  MaxDepth      (* bound: callbacks that wait in one another for their runs     *)
                (* of the loop                                                  *)

ASSUME GCAssumption ==
  /\ Periodic \subseteq TimerObjects
  /\ TimerObjects \subseteq Objects
  /\ Objects \cap Roots = {}
  /\ Null \notin Objects
  /\ SizeOf \in [Objects -> Nat \ {0}]
  /\ Limit \in Nat \ {0}
  /\ MaxReferences \in Nat
  /\ MaxDepth \in Nat

VARIABLES
  heap,      (* DefaultGC::_heap                                                *)
  children,  (* getChildObjects() of every object                               *)
  slot,      (* what every root variable points to                              *)
  roots,     (* DefaultGC::_roots                                               *)
  timers,    (* Runtime::_timers: the timer storage, holding references         *)
  active,    (* the timers libuv will fire                                      *)
  stack,     (* objects the running callback holds in temporaries, unrooted     *)
  frames,    (* the callbacks that have run the loop and wait for it to return, *)
             (* innermost last: their temporaries, and pop                      *)
  pop,       (* what the queue pops when the running callback returns: itself,  *)
             (* whatever is at the front, or, for a timer, nothing              *)
  table,     (* MemoryDiagnosticsStorage::_allocatedObjectTable, 0 if absent    *)
  bytes,     (* MemoryDiagnosticsStorage::_allocatedManagedMemory               *)
  threshold, (* MemoryManager::_memoryThreshold                                 *)
  scheduled, (* MemoryCleaner::_collectScheduled                                *)
  queued,    (* collections waiting in the queue of the event loop              *)
  missed,    (* whether one was popped from it without having run               *)
  pc,        (* who runs: the loop, a callback, or a phase of collect()         *)
  caller,    (* whom collect() returns to                                       *)
  marked,    (* GCObjectMarker::_marked                                         *)
  grey,      (* calls of utils::visit that have not begun                       *)
  todo       (* what the loop of the current phase has still to go through      *)

held    == <<stack, frames>>
program == <<children, slot, roots, active, held>>
memory  == <<table, bytes, threshold>>
queue   == <<queued, missed, pop>>
vars    == <<heap, children, slot, roots, timers, active, stack, frames, table, bytes,
             threshold, scheduled, queued, missed, pop, pc, caller, marked, grey, todo>>

Phases == {"marktimers", "markroots", "sweep"}
Pops == {"itself", "front", "nothing"}

TypeOK ==
  /\ heap \subseteq Objects
  /\ children \in [Objects -> SUBSET Objects]
  /\ slot \in [Roots -> Objects \cup {Null}]
  /\ roots \subseteq Roots
  /\ timers \subseteq TimerObjects
  /\ active \subseteq TimerObjects
  /\ stack \subseteq Objects
  /\ frames \in Seq([holds : SUBSET Objects, pop : Pops])
  /\ pop \in Pops
  /\ missed \in BOOLEAN
  /\ table \in [Objects -> Nat]
  /\ bytes \in Int
  /\ threshold \in Nat
  /\ scheduled \in BOOLEAN
  /\ queued \in Nat
  /\ pc \in {"loop", "callback", "destroyed"} \cup Phases
  /\ caller \in {"loop", "callback", "destroyed"}
  /\ marked \subseteq Objects
  /\ grey \subseteq Objects
  /\ todo \subseteq Objects \cup Roots

-----------------------------------------------------------------------------
(* Reachability in a graph that maps objects to their children.  What is    *)
(* reachable from S is in every set that holds S and, with an object, all   *)
(* its children.                                                            *)

Closed(graph, T) == \A o \in T : graph[o] \subseteq T

ReachableFrom(graph, S) ==
  {o \in Objects : \A T \in SUBSET (Objects \ {o}) : S \subseteq T => ~Closed(graph, T)}

RootObjects == {slot[r] : r \in roots} \ {Null}

(* What marking starts from: the values of the roots and the live timers.   *)
Origins == RootObjects \cup (timers \cap active)

Reach == ReachableFrom(children, Origins)

(* What the callbacks hold in temporaries, the waiting ones included.       *)
Temporaries == stack \cup UNION {frames[i].holds : i \in DOMAIN frames}

(* What the program can still get at: temporaries count, rooted or not.     *)
Live == ReachableFrom(children, Origins \cup Temporaries)

-----------------------------------------------------------------------------
Init ==
  /\ heap = {}
  /\ children = [o \in Objects |-> {}]
  /\ slot = [r \in Roots |-> Null]
  /\ roots = {}
  /\ timers = {}
  /\ active = {}
  /\ stack = {}
  /\ frames = <<>>
  /\ pop = "nothing"
  /\ missed = FALSE
  /\ table = [o \in Objects |-> 0]
  /\ bytes = 0
  /\ threshold = Limit
  /\ scheduled = FALSE
  /\ queued = 0
  /\ pc = "loop"
  /\ caller = "loop"
  /\ marked = {}
  /\ grey = {}
  /\ todo = {}

(* The load factor of 0.85, in integers.                                     *)
NeedToFreeMemory(b, limit) == 100 * b > 85 * limit

(* Fault: the flag is not tested.                                            *)
AsyncClearAlways(wanted) ==
  IF wanted
  THEN scheduled' = TRUE /\ queued' = queued + 1 /\ UNCHANGED <<missed, pop>>
  ELSE UNCHANGED <<scheduled, queue>>

(* MemoryCleaner::asyncClear: one collection at a time is in the queue.      *)
AsyncClear(wanted) ==
  IF wanted /\ ~scheduled
  THEN scheduled' = TRUE /\ queued' = queued + 1 /\ UNCHANGED <<missed, pop>>
  ELSE UNCHANGED <<scheduled, queue>>

(* MemoryManager::allocateMemoryForObject for the objects of the set new,    *)
(* whose sizes add up to size.  It never collects: it may schedule.          *)
AllocateMemory(new, size) ==
  /\ new \cap heap = {}
  /\ heap' = heap \cup new
  /\ table' = [o \in Objects |-> IF o \in new THEN SizeOf[o] ELSE table[o]]
  /\ bytes' = bytes + size
  /\ AsyncClear(NeedToFreeMemory(bytes + size, threshold))
  /\ UNCHANGED threshold

-----------------------------------------------------------------------------
(* The program, inside a callback.                                           *)

collector == <<pc, caller, marked, grey, todo>>

Allocate(o) ==
  /\ pc = "callback"
  /\ AllocateMemory({o}, SizeOf[o])
  /\ stack' = stack \cup {o}
  /\ UNCHANGED <<children, slot, roots, timers, active, frames, collector>>

(* A field, an element, an environment entry of o starts to point to p.      *)
References == {e \in Objects \X Objects : e[2] \in children[e[1]]}
Store(o, p) ==
  /\ pc = "callback"
  /\ {o, p} \subseteq Live
  /\ Cardinality(References \cup {<<o, p>>}) <= MaxReferences
  /\ children' = [children EXCEPT ![o] = @ \cup {p}]
  /\ UNCHANGED <<heap, slot, roots, timers, active, held, memory, scheduled, queue, collector>>

(* It stops doing so; the callback may keep p in a temporary.                *)
Erase(o, p) ==
  /\ pc = "callback"
  /\ o \in Live
  /\ p \in children[o]
  /\ children' = [children EXCEPT ![o] = @ \ {p}]
  /\ stack' = stack \cup {p}
  /\ UNCHANGED <<heap, slot, roots, timers, active, frames, memory, scheduled, queue, collector>>

(* A variable with the value v enters its scope.                             *)
AddRoot(r, v) ==
  /\ pc = "callback"
  /\ r \notin roots
  /\ v \in Live \cup {Null}
  /\ roots' = roots \cup {r}
  /\ slot' = [slot EXCEPT ![r] = v]
  /\ UNCHANGED <<heap, children, timers, active, held, memory, scheduled, queue, collector>>

Assign(r, v) ==
  /\ pc = "callback"
  /\ r \in roots
  /\ v \in Live \cup {Null}
  /\ slot' = [slot EXCEPT ![r] = v]
  /\ stack' = stack \cup ({slot[r]} \ {Null})
  /\ UNCHANGED <<heap, children, roots, timers, active, frames, memory, scheduled, queue, collector>>

(* The variable leaves its scope; its value may be what is returned.         *)
RemoveRoot(r) ==
  /\ pc = "callback"
  /\ r \in roots
  /\ roots' = roots \ {r}
  /\ slot' = [slot EXCEPT ![r] = Null]
  /\ stack' = stack \cup ({slot[r]} \ {Null})
  /\ UNCHANGED <<heap, children, timers, active, frames, memory, scheduled, queue, collector>>

(* setTimeout and setInterval: the timer t of closure c is created, stored   *)
(* and started; its identifier is returned in a new Number n.                *)
SetTimer(t, c, n) ==
  /\ pc = "callback"
  /\ t \in TimerObjects /\ n # t /\ c \in Live
  /\ AllocateMemory({t, n}, SizeOf[t] + SizeOf[n])
  /\ children' = [children EXCEPT ![t] = {c}]
  /\ timers' = timers \cup {t}
  /\ active' = active \cup {t}
  /\ stack' = stack \cup {n}
  /\ UNCHANGED <<slot, roots, frames, collector>>

(* clearTimeout and clearInterval with the identifier of a stored timer;     *)
(* nothing happens for any other identifier.                                 *)
ClearTimer(t) ==
  /\ pc = "callback"
  /\ t \in timers
  /\ active' = active \ {t}
  /\ timers' = timers \ {t}
  /\ UNCHANGED <<heap, children, slot, roots, held, memory, scheduled, queue, collector>>

(* The callback returns, and the queue pops it.                              *)
EndCallback ==
  /\ pc = "callback"
  /\ pc' = "loop"
  /\ stack' = {}
  /\ pop' = "nothing"
  /\ UNCHANGED <<heap, children, slot, roots, timers, active, frames, memory, scheduled,
                 queued, missed, caller, marked, grey, todo>>

(* A callback of the queue that has run the loop is no longer its front: the *)
(* queue pops another callback in its stead, here a scheduled collection.    *)
PopCollection ==
  /\ pc = "callback"
  /\ pop = "front" /\ queued > 0
  /\ pc' = "loop"
  /\ stack' = {}
  /\ pop' = "nothing"
  /\ queued' = queued - 1
  /\ missed' = TRUE
  /\ UNCHANGED <<heap, children, slot, roots, timers, active, frames, memory, scheduled,
                 caller, marked, grey, todo>>

-----------------------------------------------------------------------------
(* The event loop.                                                           *)

StartCallback ==
  /\ pc = "loop"
  /\ pc' = "callback"
  /\ pop' = "itself"
  /\ UNCHANGED <<heap, program, timers, memory, scheduled, queued, missed,
                 caller, marked, grey, todo>>

(* run() or processEvents() called by the callback, which keeps all that it  *)
(* can get at in temporaries.                                                *)
EnterLoop ==
  /\ pc = "callback" /\ Len(frames) < MaxDepth
  /\ frames' = Append(frames, [holds |-> Live, pop |-> IF pop = "itself" THEN "front" ELSE pop])
  /\ stack' = {}
  /\ pop' = "nothing"
  /\ pc' = "loop"
  /\ UNCHANGED <<heap, children, slot, roots, timers, active, memory, scheduled, queued,
                 missed, caller, marked, grey, todo>>

LeaveLoop ==
  /\ pc = "loop" /\ frames # <<>>
  /\ LET frame == frames[Len(frames)]
     IN /\ stack' = frame.holds
        /\ pop' = frame.pop
  /\ frames' = SubSeq(frames, 1, Len(frames) - 1)
  /\ pc' = "callback"
  /\ UNCHANGED <<heap, children, slot, roots, timers, active, memory, scheduled, queued,
                 missed, caller, marked, grey, todo>>

(* libuv fires t: a one-shot timer is inactive before its callback runs, and *)
(* the frame of the callback holds the timer and the closure it calls.       *)
FireTimer(t) ==
  /\ pc = "loop"
  /\ t \in active
  /\ active' = IF t \in Periodic THEN active ELSE active \ {t}
  /\ stack' = {t} \cup children[t]
  /\ pc' = "callback"
  /\ UNCHANGED <<heap, children, slot, roots, timers, frames, memory, scheduled, queue,
                 caller, marked, grey, todo>>

-----------------------------------------------------------------------------
(* collect(): mark, sweep, unmark.                                           *)

BeginCollect(from) ==
  /\ pc' = "marktimers"
  /\ caller' = from
  /\ todo' = timers
  /\ UNCHANGED <<heap, table, bytes, threshold, scheduled, marked, grey>>

(* Fault: the front of the queue is taken without a test for emptiness.      *)
RunFromEmptyQueue ==
  /\ pc = "loop"
  /\ queued' = queued - 1
  /\ BeginCollect("loop")
  /\ UNCHANGED <<program, timers, missed, pop>>

(* The queue is drained by the innermost run of the loop, whoever waits.     *)
RunScheduledCollect ==
  /\ pc = "loop"
  /\ queued > 0
  /\ queued' = queued - 1
  /\ BeginCollect("loop")
  /\ UNCHANGED <<program, timers, missed, pop>>

(* gc.collect() from a callback.                                             *)
CollectNow ==
  /\ pc = "callback"
  /\ BeginCollect("callback")
  /\ UNCHANGED <<program, timers, queue>>

(* Fault: the destructor of the collector keeps the roots.                   *)
DestroyKeepingRoots ==
  /\ pc = "loop" /\ frames = <<>>
  /\ active' = {}
  /\ queued' = 0
  /\ BeginCollect("destroyed")
  /\ UNCHANGED <<children, slot, roots, held, timers, missed, pop>>

(* Runtime::destroy: closing the loop stops its timers and drops its queue,  *)
(* then the destructor of the collector forgets the roots and collects.      *)
Destroy ==
  /\ pc = "loop" /\ frames = <<>>
  /\ active' = {}
  /\ roots' = {}
  /\ queued' = 0
  /\ BeginCollect("destroyed")
  /\ UNCHANGED <<children, slot, held, timers, missed, pop>>

(* Fault: a timer that will not fire again is skipped but stays stored.      *)
MarkTimerKeepingEntry(t) ==
  /\ pc = "marktimers" /\ grey = {}
  /\ t \in todo
  /\ todo' = todo \ {t}
  /\ grey' = {t} \cap active
  /\ UNCHANGED <<heap, program, timers, memory, scheduled, queue, pc, caller, marked>>

(* markStorage: a timer that will not fire again leaves the storage.         *)
MarkTimer(t) ==
  /\ pc = "marktimers" /\ grey = {}
  /\ t \in todo
  /\ todo' = todo \ {t}
  /\ IF t \in active
     THEN grey' = {t} /\ UNCHANGED timers
     ELSE timers' = timers \ {t} /\ UNCHANGED grey
  /\ UNCHANGED <<heap, program, memory, scheduled, queue, pc, caller, marked>>

MarkRoots ==
  /\ pc = "marktimers" /\ grey = {} /\ todo = {}
  /\ pc' = "markroots"
  /\ todo' = roots
  /\ UNCHANGED <<heap, program, timers, memory, scheduled, queue, caller, marked, grey>>

MarkRoot(r) ==
  /\ pc = "markroots" /\ grey = {}
  /\ r \in todo
  /\ todo' = todo \ {r}
  /\ grey' = {slot[r]} \ {Null}
  /\ UNCHANGED <<heap, program, timers, memory, scheduled, queue, pc, caller, marked>>

(* Fault: children are not visited.                                          *)
VisitShallow(o) ==
  /\ o \in grey
  /\ marked' = marked \cup {o}
  /\ grey' = grey \ {o}
  /\ UNCHANGED <<heap, program, timers, memory, scheduled, queue, pc, caller, todo>>

(* utils::visit, its recursive calls in any order.                           *)
Visit(o) ==
  /\ o \in grey
  /\ IF o \in marked
     THEN grey' = grey \ {o} /\ UNCHANGED marked
     ELSE /\ marked' = marked \cup {o}
          /\ grey' = (grey \ {o}) \cup children[o]
  /\ UNCHANGED <<heap, program, timers, memory, scheduled, queue, pc, caller, todo>>

(* From here on unmarked objects are deleted.  Temporaries are not marked:   *)
(* what nothing else keeps is lost to the callbacks that wait, for collect() *)
(* or for the loop, and to use it would be undefined.                        *)
Sweep ==
  /\ pc = "markroots" /\ grey = {} /\ todo = {}
  /\ pc' = "sweep"
  /\ todo' = heap
  /\ stack' = stack \cap marked
  /\ frames' = [i \in DOMAIN frames |-> [frames[i] EXCEPT !.holds = @ \cap marked]]
  /\ UNCHANGED <<heap, children, slot, roots, active, timers, memory, scheduled, queue,
                 caller, marked, grey>>

(* Fault: the diagnostics are not told.                                      *)
DeleteUnaccounted(o) ==
  /\ heap' = heap \ {o}
  /\ children' = [children EXCEPT ![o] = {}]
  /\ active' = active \ {o}
  /\ UNCHANGED <<bytes, table>>

(* deleteObject: the diagnostics forget o, its destructor runs (a timer's    *)
(* stops it) and the heap forgets it.                                        *)
DeleteObject(o) ==
  /\ heap' = heap \ {o}
  /\ children' = [children EXCEPT ![o] = {}]
  /\ active' = active \ {o}
  /\ bytes' = bytes - table[o]
  /\ table' = [table EXCEPT ![o] = 0]

SweepObject(o) ==
  /\ pc = "sweep"
  /\ o \in todo
  /\ todo' = todo \ {o}
  /\ IF o \in marked
     THEN UNCHANGED <<heap, children, active, bytes, table>>
     ELSE DeleteObject(o)
  /\ UNCHANGED <<slot, roots, timers, held, threshold, scheduled, queue, pc, caller, marked, grey>>

(* Fault: unmark() is missing.                                               *)
EndCollectMarked ==
  /\ pc = "sweep" /\ todo = {}
  /\ pc' = caller
  /\ IF caller = "loop"
     THEN /\ scheduled' = FALSE
          /\ threshold' = IF NeedToFreeMemory(bytes, threshold) THEN 2 * threshold ELSE threshold
     ELSE UNCHANGED <<scheduled, threshold>>
  /\ caller' = "loop"
  /\ UNCHANGED <<heap, program, timers, table, bytes, queue, marked, grey, todo>>

(* Fault: the flag stays set after a scheduled collection.                   *)
EndCollectScheduled ==
  /\ pc = "sweep" /\ todo = {}
  /\ marked' = {}
  /\ pc' = caller
  /\ caller' = "loop"
  /\ UNCHANGED <<heap, program, timers, memory, scheduled, queue, grey, todo>>

(* The end of collect() and, in a scheduled one, the rest of the queued      *)
(* callback: the flag is cleared, then onAfterMemoryClean runs.              *)
EndCollect ==
  /\ pc = "sweep" /\ todo = {}
  /\ marked' = {}
  /\ pc' = caller
  /\ IF caller = "loop"
     THEN /\ scheduled' = FALSE
          /\ threshold' = IF NeedToFreeMemory(bytes, threshold) THEN 2 * threshold ELSE threshold
     ELSE UNCHANGED <<scheduled, threshold>>
  /\ caller' = "loop"
  /\ UNCHANGED <<heap, program, timers, table, bytes, queue, grey, todo>>

-----------------------------------------------------------------------------
Mutator ==
  \/ \E o \in Objects : Allocate(o)
  \/ \E o \in Objects \ TimerObjects, p \in Objects : Store(o, p)
  \/ \E o \in Objects \ TimerObjects, p \in Objects : Erase(o, p)
  \/ \E r \in Roots, v \in Objects \cup {Null} : AddRoot(r, v)
  \/ \E r \in Roots, v \in Objects \cup {Null} : Assign(r, v)
  \/ \E r \in Roots : RemoveRoot(r)
  \/ \E t, c, n \in Objects : SetTimer(t, c, n)
  \/ \E t \in TimerObjects : ClearTimer(t)

Collector ==
  \/ \E t \in TimerObjects : MarkTimer(t)
  \/ MarkRoots
  \/ \E r \in Roots : MarkRoot(r)
  \/ \E o \in Objects : Visit(o)
  \/ Sweep
  \/ \E o \in Objects : SweepObject(o)
  \/ EndCollect

Loop ==
  \/ StartCallback
  \/ \E t \in TimerObjects : FireTimer(t)
  \/ EnterLoop
  \/ LeaveLoop
  \/ Destroy

Next ==
  \/ Mutator \/ CollectNow \/ EndCallback \/ PopCollection
  \/ Loop \/ RunScheduledCollect \/ Collector

(* A callback returns, collect() runs to its end, and the loop drains its    *)
(* queue in every iteration, whatever timers fire in between.                *)
Fairness ==
  /\ WF_vars(EndCallback)
  /\ WF_vars(Collector)
  /\ SF_vars(RunScheduledCollect)

Spec == Init /\ [][Next]_vars /\ Fairness
=============================================================================
