------------------------------- MODULE GCProofs -------------------------------
(***************************************************************************)
(* Theorems about the collector, for any objects, roots, timers and sizes. *)
(***************************************************************************)
EXTENDS GCProperties, FiniteSetTheorems, TLAPS

-----------------------------------------------------------------------------
(* Reachability.                                                             *)

(* A closed set that holds S holds all that is reachable from S.             *)
LEMMA ReachableIsLeast ==
  ASSUME NEW graph, NEW S, NEW T \in SUBSET Objects, S \subseteq T, Closed(graph, T)
  PROVE  ReachableFrom(graph, S) \subseteq T
BY DEF ReachableFrom

(* What S holds is reachable from S.                                         *)
LEMMA ReachableHolds ==
  ASSUME NEW graph, NEW S \in SUBSET Objects
  PROVE  S \subseteq ReachableFrom(graph, S)
BY DEF ReachableFrom

(* The children of a reachable object are reachable.                         *)
LEMMA ReachableIsClosed ==
  ASSUME NEW graph \in [Objects -> SUBSET Objects], NEW S
  PROVE  Closed(graph, ReachableFrom(graph, S))
<1> SUFFICES ASSUME NEW o \in ReachableFrom(graph, S), NEW p \in graph[o],
                    NEW T \in SUBSET (Objects \ {p}), S \subseteq T, Closed(graph, T)
             PROVE  FALSE
  BY DEF ReachableFrom, Closed
<1>1. o \in T
  BY ReachableIsLeast
<1> QED
  BY <1>1 DEF Closed

LEMMA ReachableIsSubset ==
  ASSUME NEW graph, NEW S
  PROVE  ReachableFrom(graph, S) \subseteq Objects
BY DEF ReachableFrom

-----------------------------------------------------------------------------
(* The inductive invariant.                                                  *)

(* Outside collect() nothing is marked, and who is not in a callback has no   *)
(* temporaries of its own.                                                   *)
Idle ==
  /\ pc \notin Phases => marked = {} /\ grey = {}
  /\ pc \in {"loop", "destroyed"} => stack = {}
  /\ pc \in Phases /\ caller # "callback" => stack = {}

(* Deleted objects have no children; the storage refers to the heap.         *)
Stored ==
  /\ \A o \in Objects \ heap : children[o] = {}
  /\ timers \subseteq heap
  /\ active \subseteq timers

(* Except while sweep() deletes, the heap has no dangling pointer and none   *)
(* points to it: garbage included, it is closed.                             *)
HeapIsClosed ==
  pc # "sweep" =>
    /\ Closed(children, heap)
    /\ RootObjects \cup Temporaries \subseteq heap

(* While marking: what is marked or waits to be visited is reachable, the    *)
(* children of what is marked are accounted for, and so is every timer and   *)
(* every root the loop of the phase has passed.                              *)
Marking ==
  pc \in {"marktimers", "markroots"} =>
    /\ marked \cup grey \subseteq Reach
    /\ \A o \in marked : children[o] \subseteq marked \cup grey

MarkingTimers ==
  pc = "marktimers" =>
    /\ todo \subseteq timers
    /\ timers \ todo \subseteq active \cap (marked \cup grey)

MarkingRoots ==
  pc = "markroots" =>
    /\ todo \subseteq roots
    /\ timers \subseteq active \cap (marked \cup grey)
    /\ \A r \in roots \ todo : slot[r] \in marked \cup grey \cup {Null}

(* While sweeping, the marked objects are a closed part of the heap with all *)
(* that roots, timers and temporaries hold; the rest is still to be swept.   *)
Sweeping ==
  pc = "sweep" =>
    /\ grey = {}
    /\ marked \subseteq heap
    /\ heap \ todo \subseteq marked
    /\ Closed(children, marked)
    /\ RootObjects \cup timers \cup Temporaries \subseteq marked

IInv ==
  /\ TypeOK
  /\ Idle
  /\ Stored
  /\ HeapIsClosed
  /\ Marking
  /\ MarkingTimers
  /\ MarkingRoots
  /\ Sweeping

LEMMA InitIInv == Init => IInv
<1> SUFFICES ASSUME Init PROVE IInv
  OBVIOUS
<1>1. TypeOK
  <2>1. /\ children \in [Objects -> SUBSET Objects]
        /\ slot \in [Roots -> Objects \cup {Null}]
        /\ table \in [Objects -> Nat]
    BY DEF Init
  <2>2. bytes \in Int /\ threshold \in Nat /\ queued \in Nat
    BY GCAssumption DEF Init
  <2>3. scheduled \in BOOLEAN /\ missed \in BOOLEAN
    BY DEF Init
  <2>4. frames \in Seq([holds : SUBSET Objects, pop : Pops]) /\ pop \in Pops
    BY DEF Init, Pops
  <2> QED
    BY <2>1, <2>2, <2>3, <2>4 DEF Init, TypeOK
<1>2. Temporaries = {}
  BY DEF Init, Temporaries
<1>3. Idle /\ Stored /\ HeapIsClosed
  BY GCAssumption, <1>2
  DEF Init, Idle, Stored, HeapIsClosed, Closed, RootObjects, Phases
<1>4. Marking /\ MarkingTimers /\ MarkingRoots /\ Sweeping
  BY DEF Init, Marking, MarkingTimers, MarkingRoots, Sweeping
<1> QED
  BY <1>1, <1>3, <1>4 DEF IInv

-----------------------------------------------------------------------------
(* Type correctness.                                                         *)

Frame == [holds : SUBSET Objects, pop : Pops]

LEMMA FramesType ==
  TypeOK => frames \in Seq(Frame) /\ \A i \in DOMAIN frames : frames[i] \in Frame
<1>1. TypeOK => frames \in Seq(Frame)
  BY DEF TypeOK, Frame
<1> QED
  BY <1>1

LEMMA OriginsType == TypeOK => Origins \cup Temporaries \subseteq Objects
<1> SUFFICES ASSUME TypeOK PROVE Origins \cup Temporaries \subseteq Objects
  OBVIOUS
<1>1. Origins \subseteq Objects
  BY GCAssumption DEF TypeOK, Origins, RootObjects
<1>2. \A i \in DOMAIN frames : frames[i].holds \subseteq Objects
  BY FramesType DEF Frame
<1> QED
  BY <1>1, <1>2 DEF TypeOK, Temporaries

(* The frames when a callback enters the loop, when the loop returns to it,  *)
(* and when sweeping begins.                                                 *)
LEMMA EnterTemporaries ==
  ASSUME TypeOK, EnterLoop
  PROVE  /\ frames' \in Seq(Frame)
         /\ Temporaries' \subseteq Temporaries \cup Live
<1> DEFINE f == [holds |-> Live, pop |-> IF pop = "itself" THEN "front" ELSE pop]
<1>1. frames' = Append(frames, f) /\ stack' = {}
  BY DEF EnterLoop
<1>2. f \in Frame /\ f.holds = Live
  BY ReachableIsSubset DEF Live, Frame, Pops, TypeOK
<1> HIDE DEF f
<1>3. frames \in Seq(Frame)
  BY DEF TypeOK, Frame
<1>4. frames' \in Seq(Frame)
  BY <1>1, <1>2, <1>3
<1>5. \A i \in DOMAIN frames' : frames'[i] = f \/ (i \in DOMAIN frames /\ frames'[i] = frames[i])
  BY <1>1, <1>2, <1>3
<1> QED
  BY <1>1, <1>2, <1>4, <1>5 DEF Temporaries

LEMMA LeaveTemporaries ==
  ASSUME TypeOK, LeaveLoop
  PROVE  /\ frames' \in Seq(Frame) /\ stack' \subseteq Objects /\ pop' \in Pops
         /\ Temporaries' \subseteq Temporaries
<1>1. /\ frames # <<>> /\ stack' = frames[Len(frames)].holds
      /\ pop' = frames[Len(frames)].pop
      /\ frames' = SubSeq(frames, 1, Len(frames) - 1)
  BY DEF LeaveLoop
<1>2. frames \in Seq(Frame)
  BY DEF TypeOK, Frame
<1>3. Len(frames) \in DOMAIN frames /\ frames[Len(frames)] \in Frame
  BY <1>1, <1>2
<1>4. frames' \in Seq(Frame)
  BY <1>1, <1>2
<1>5. \A i \in DOMAIN frames' : i \in DOMAIN frames /\ frames'[i] = frames[i]
  BY <1>1, <1>2
<1>6. Temporaries' \subseteq Temporaries
  BY <1>1, <1>3, <1>5 DEF Temporaries
<1> QED
  BY <1>1, <1>3, <1>4, <1>6 DEF Frame

LEMMA SweepTemporaries ==
  ASSUME TypeOK, Sweep
  PROVE  /\ frames' \in Seq(Frame)
         /\ Temporaries' \subseteq Temporaries \cap marked
<1>1. /\ stack' = stack \cap marked
      /\ frames' = [i \in DOMAIN frames |-> [frames[i] EXCEPT !.holds = @ \cap marked]]
  BY DEF Sweep
<1>2. frames \in Seq(Frame) /\ \A i \in DOMAIN frames : frames[i] \in Frame
  BY FramesType
<1> DEFINE cut(f) == [f EXCEPT !.holds = f.holds \cap marked]
<1>3. \A f \in Frame : cut(f) \in Frame /\ cut(f).holds = f.holds \cap marked
  BY DEF Frame
<1>4. \A i \in DOMAIN frames : frames'[i] = cut(frames[i])
  BY <1>1
<1> HIDE DEF cut
<1>5. \A i \in DOMAIN frames : /\ frames'[i] \in Frame
                              /\ frames'[i].holds = frames[i].holds \cap marked
  BY <1>2, <1>3, <1>4
<1>6. DOMAIN frames' = DOMAIN frames /\ DOMAIN frames = 1..Len(frames) /\ Len(frames) \in Nat
  BY <1>1, <1>2
<1>7. frames' = [i \in 1..Len(frames) |-> frames'[i]]
  BY <1>1, <1>6
<1>8. frames' \in Seq(Frame)
  BY <1>5, <1>6, <1>7
<1> QED
  BY <1>1, <1>5, <1>6, <1>8 DEF Temporaries

LEMMA AllocationType ==
  ASSUME TypeOK, NEW new \in SUBSET Objects, NEW size \in Nat, AllocateMemory(new, size)
  PROVE  /\ heap' \subseteq Objects
         /\ table' \in [Objects -> Nat]
         /\ bytes' \in Int
         /\ threshold' \in Nat
         /\ scheduled' \in BOOLEAN
         /\ queued' \in Nat
         /\ UNCHANGED <<missed, pop>>
<1>1. heap' \subseteq Objects /\ bytes' \in Int /\ threshold' \in Nat
  BY DEF TypeOK, AllocateMemory
<1>2. \A o \in Objects : SizeOf[o] \in Nat
  BY GCAssumption
<1>3. table' \in [Objects -> Nat]
  BY <1>2 DEF TypeOK, AllocateMemory
<1>4. \/ scheduled' = TRUE /\ queued' = queued + 1
      \/ UNCHANGED <<scheduled, queued>>
  BY DEF AllocateMemory, AsyncClear, queue
<1>5. scheduled' \in BOOLEAN
  BY <1>4 DEF TypeOK
<1>6. queued' \in Nat
  BY <1>4 DEF TypeOK
<1>7. UNCHANGED <<missed, pop>>
  BY DEF AllocateMemory, AsyncClear, queue
<1> QED
  BY <1>1, <1>3, <1>5, <1>6, <1>7

LEMMA MutatorType ==
  TypeOK /\ (Mutator \/ CollectNow \/ EndCallback \/ PopCollection) => TypeOK'
<1> SUFFICES ASSUME TypeOK, Mutator \/ CollectNow \/ EndCallback \/ PopCollection
             PROVE  TypeOK'
  OBVIOUS
<1> USE GCAssumption DEF TypeOK, program, memory, collector, held, queue, Pops
<1>1. ASSUME NEW o \in Objects, Allocate(o) PROVE TypeOK'
  <2>1. SizeOf[o] \in Nat /\ AllocateMemory({o}, SizeOf[o])
    BY <1>1 DEF Allocate
  <2>2. /\ heap' \subseteq Objects /\ table' \in [Objects -> Nat] /\ bytes' \in Int
        /\ threshold' \in Nat /\ scheduled' \in BOOLEAN /\ queued' \in Nat
        /\ UNCHANGED <<missed, pop>>
    BY <2>1, AllocationType
  <2> QED
    BY <1>1, <2>2 DEF Allocate
<1>2. ASSUME NEW o \in Objects, NEW p \in Objects, Store(o, p) PROVE TypeOK'
  BY <1>2 DEF Store
<1>3. ASSUME NEW o \in Objects, NEW p \in Objects, Erase(o, p) PROVE TypeOK'
  BY <1>3 DEF Erase
<1>4. ASSUME NEW r \in Roots, NEW v \in Objects \cup {Null}, AddRoot(r, v) PROVE TypeOK'
  BY <1>4 DEF AddRoot
<1>5. ASSUME NEW r \in Roots, NEW v \in Objects \cup {Null}, Assign(r, v) PROVE TypeOK'
  BY <1>5 DEF Assign
<1>6. ASSUME NEW r \in Roots, RemoveRoot(r) PROVE TypeOK'
  BY <1>6 DEF RemoveRoot
<1>7. ASSUME NEW t \in Objects, NEW c \in Objects, NEW n \in Objects, SetTimer(t, c, n)
      PROVE  TypeOK'
  <2>1. SizeOf[t] + SizeOf[n] \in Nat /\ AllocateMemory({t, n}, SizeOf[t] + SizeOf[n])
    BY <1>7 DEF SetTimer
  <2>2. /\ heap' \subseteq Objects /\ table' \in [Objects -> Nat] /\ bytes' \in Int
        /\ threshold' \in Nat /\ scheduled' \in BOOLEAN /\ queued' \in Nat
        /\ UNCHANGED <<missed, pop>>
    BY <2>1, AllocationType
  <2> QED
    BY <1>7, <2>2 DEF SetTimer
<1>8. ASSUME NEW t \in TimerObjects, ClearTimer(t) PROVE TypeOK'
  BY <1>8 DEF ClearTimer
<1>9. ASSUME CollectNow PROVE TypeOK'
  BY <1>9 DEF CollectNow, BeginCollect, Phases
<1>10. ASSUME EndCallback PROVE TypeOK'
  BY <1>10 DEF EndCallback
<1>11. ASSUME PopCollection PROVE TypeOK'
  BY <1>11 DEF PopCollection
<1> QED
  BY <1>1, <1>2, <1>3, <1>4, <1>5, <1>6, <1>7, <1>8, <1>9, <1>10, <1>11 DEF Mutator

LEMMA LoopType == TypeOK /\ (Loop \/ RunScheduledCollect) => TypeOK'
<1> SUFFICES ASSUME TypeOK, Loop \/ RunScheduledCollect
             PROVE  TypeOK'
  OBVIOUS
<1> USE GCAssumption DEF TypeOK, program, memory, held, queue, Pops
<1>1. ASSUME StartCallback PROVE TypeOK'
  BY <1>1 DEF StartCallback
<1>2. ASSUME NEW t \in TimerObjects, FireTimer(t) PROVE TypeOK'
  BY <1>2 DEF FireTimer
<1>3. ASSUME Destroy PROVE TypeOK'
  BY <1>3 DEF Destroy, BeginCollect, Phases
<1>4. ASSUME RunScheduledCollect PROVE TypeOK'
  BY <1>4 DEF RunScheduledCollect, BeginCollect, Phases
<1>5. ASSUME EnterLoop PROVE TypeOK'
  BY <1>5, EnterTemporaries DEF EnterLoop, Frame
<1>6. ASSUME LeaveLoop PROVE TypeOK'
  BY <1>6, LeaveTemporaries DEF LeaveLoop, Frame
<1> QED
  BY <1>1, <1>2, <1>3, <1>4, <1>5, <1>6 DEF Loop

LEMMA CollectorType == TypeOK /\ Collector => TypeOK'
<1> SUFFICES ASSUME TypeOK, Collector
             PROVE  TypeOK'
  OBVIOUS
<1> USE GCAssumption DEF TypeOK, program, memory, held, queue
<1>1. ASSUME NEW t \in TimerObjects, MarkTimer(t) PROVE TypeOK'
  BY <1>1 DEF MarkTimer
<1>2. ASSUME MarkRoots PROVE TypeOK'
  BY <1>2 DEF MarkRoots, Phases
<1>3. ASSUME NEW r \in Roots, MarkRoot(r) PROVE TypeOK'
  BY <1>3 DEF MarkRoot
<1>4. ASSUME NEW o \in Objects, Visit(o) PROVE TypeOK'
  BY <1>4 DEF Visit
<1>5. ASSUME Sweep PROVE TypeOK'
  BY <1>5, SweepTemporaries DEF Sweep, Phases, Frame
<1>6. ASSUME NEW o \in Objects, SweepObject(o) PROVE TypeOK'
  <2>1. \/ UNCHANGED <<heap, children, active, bytes, table>>
        \/ /\ heap' = heap \ {o} /\ active' = active \ {o}
           /\ children' = [children EXCEPT ![o] = {}]
           /\ bytes' = bytes - table[o] /\ table' = [table EXCEPT ![o] = 0]
    BY <1>6 DEF SweepObject, DeleteObject
  <2>2. /\ heap' \subseteq Objects /\ active' \subseteq TimerObjects
        /\ children' \in [Objects -> SUBSET Objects]
    BY <2>1
  <2>3. bytes' \in Int /\ table' \in [Objects -> Nat]
    BY <2>1
  <2> QED
    BY <1>6, <2>2, <2>3 DEF SweepObject
<1>7. ASSUME EndCollect PROVE TypeOK'
  <2>1. threshold' \in Nat /\ scheduled' \in BOOLEAN
    <3>1. CASE caller = "loop"
      <4>1. scheduled' = FALSE /\ (threshold' = 2 * threshold \/ threshold' = threshold)
        BY <1>7, <3>1 DEF EndCollect
      <4>2. scheduled' \in BOOLEAN
        BY <4>1
      <4>3. threshold' \in Nat
        BY <4>1
      <4> QED
        BY <4>2, <4>3
    <3>2. CASE caller # "loop"
      BY <1>7, <3>2 DEF EndCollect
    <3> QED
      BY <3>1, <3>2
  <2> QED
    BY <1>7, <2>1 DEF EndCollect
<1> QED
  BY <1>1, <1>2, <1>3, <1>4, <1>5, <1>6, <1>7 DEF Collector

LEMMA TypeStep == TypeOK /\ [Next]_vars => TypeOK'
<1>1. TypeOK /\ UNCHANGED vars => TypeOK'
  BY DEF TypeOK, vars
<1> QED
  BY <1>1, MutatorType, LoopType, CollectorType DEF Next

(* Every variable of the collector keeps its type in every behaviour.        *)
THEOREM TypeCorrect == Spec => []TypeOK
<1>1. Init => TypeOK
  BY InitIInv DEF IInv
<1> QED
  BY <1>1, TypeStep, PTL DEF Spec

-----------------------------------------------------------------------------
(* Safety.                                                                   *)

LEMMA ReachFacts ==
  ASSUME TypeOK
  PROVE  /\ Origins \subseteq Reach
         /\ Closed(children, Reach)
         /\ Origins \cup Temporaries \subseteq Live
         /\ Closed(children, Live)
         /\ Reach \subseteq Live
<1>1. Origins \subseteq Objects /\ Origins \cup Temporaries \subseteq Objects
  BY OriginsType
<1>2. children \in [Objects -> SUBSET Objects]
  BY DEF TypeOK
<1>3. Origins \subseteq Reach /\ Origins \cup Temporaries \subseteq Live
  BY <1>1, ReachableHolds DEF Reach, Live
<1>4. Closed(children, Reach) /\ Closed(children, Live)
  BY <1>2, ReachableIsClosed DEF Reach, Live
<1>5. Live \subseteq Objects
  BY ReachableIsSubset DEF Live
<1>6. Reach \subseteq Live
  BY <1>3, <1>4, <1>5, ReachableIsLeast DEF Reach
<1> QED
  BY <1>3, <1>4, <1>6

(* While the heap is closed, all the program can get at is in it.            *)
LEMMA LiveInClosedHeap ==
  ASSUME TypeOK, Stored, HeapIsClosed, pc # "sweep"
  PROVE  Live \subseteq heap
<1>1. Origins \cup Temporaries \subseteq heap
  BY DEF Stored, HeapIsClosed, Origins
<1>2. heap \in SUBSET Objects /\ Closed(children, heap)
  BY DEF TypeOK, HeapIsClosed
<1> QED
  BY <1>1, <1>2, ReachableIsLeast DEF Live

(* While sweeping, all the program can get at is marked.                     *)
LEMMA LiveIsMarked ==
  ASSUME TypeOK, Stored, Sweeping, pc = "sweep"
  PROVE  Live \subseteq marked
<1>1. Origins \cup Temporaries \subseteq marked
  BY DEF Stored, Sweeping, Origins
<1>2. marked \in SUBSET Objects /\ Closed(children, marked)
  BY DEF TypeOK, Sweeping
<1> QED
  BY <1>1, <1>2, ReachableIsLeast DEF Live

(* What a callback does leaves the collector idle.                           *)
LEMMA IdleInCallback ==
  ASSUME IInv, pc = "callback", UNCHANGED collector
  PROVE  Idle' /\ Marking' /\ MarkingTimers' /\ MarkingRoots' /\ Sweeping'
BY DEF IInv, Idle, Marking, MarkingTimers, MarkingRoots, Sweeping, collector, Phases

LEMMA MutatorSafe ==
  ASSUME IInv, Mutator
  PROVE  Stored' /\ HeapIsClosed'
<1> USE DEF memory, collector, held, queue
<1>1. TypeOK /\ Stored /\ HeapIsClosed
  BY DEF IInv
<1>2. pc = "callback"
  BY DEF Mutator, Allocate, Store, Erase, AddRoot, Assign, RemoveRoot, SetTimer, ClearTimer
<1>3. Live \subseteq heap /\ heap \subseteq Objects
  BY <1>1, <1>2, LiveInClosedHeap DEF TypeOK
<1>4. /\ Closed(children, heap)
      /\ RootObjects \subseteq heap
      /\ Temporaries \subseteq heap
  BY <1>1, <1>2 DEF HeapIsClosed
<1>5. ASSUME NEW o \in Objects, Allocate(o) PROVE Stored' /\ HeapIsClosed'
  <2>1. heap' = heap \cup {o} /\ o \notin heap
    BY <1>5 DEF Allocate, AllocateMemory
  <2>2. Stored'
    BY <1>1, <1>5, <2>1 DEF Allocate, Stored
  <2>3. Closed(children, heap)'
    BY <1>1, <1>4, <1>5, <2>1 DEF Allocate, Stored, Closed
  <2>4. (RootObjects \cup Temporaries \subseteq heap)'
    BY <1>4, <1>5, <2>1 DEF Allocate, RootObjects, Temporaries
  <2> QED
    BY <2>2, <2>3, <2>4 DEF HeapIsClosed
<1>6. ASSUME NEW o \in Objects, NEW p \in Objects, Store(o, p) PROVE Stored' /\ HeapIsClosed'
  <2>1. o \in heap /\ p \in heap
    BY <1>3, <1>6 DEF Store
  <2>2. \A x \in Objects : children'[x] = IF x = o THEN children[o] \cup {p} ELSE children[x]
    BY <1>1, <1>6 DEF Store, TypeOK
  <2>3. Stored'
    BY <1>1, <1>6, <2>1, <2>2 DEF Store, Stored
  <2>4. Closed(children, heap)'
    BY <1>3, <1>4, <1>6, <2>1, <2>2 DEF Store, Closed
  <2>5. (RootObjects \cup Temporaries \subseteq heap)'
    BY <1>4, <1>6 DEF Store, RootObjects, Temporaries
  <2> QED
    BY <2>3, <2>4, <2>5 DEF HeapIsClosed
<1>7. ASSUME NEW o \in Objects, NEW p \in Objects, Erase(o, p) PROVE Stored' /\ HeapIsClosed'
  <2>1. o \in heap /\ p \in heap
    BY <1>3, <1>4, <1>7 DEF Erase, Closed
  <2>2. \A x \in Objects : children'[x] = IF x = o THEN children[o] \ {p} ELSE children[x]
    BY <1>1, <1>7 DEF Erase, TypeOK
  <2>3. Stored'
    BY <1>1, <1>7, <2>1, <2>2 DEF Erase, Stored
  <2>4. Closed(children, heap)'
    BY <1>3, <1>4, <1>7, <2>1, <2>2 DEF Erase, Closed
  <2>5. (RootObjects \cup Temporaries \subseteq heap)'
    BY <1>4, <1>7, <2>1 DEF Erase, RootObjects, Temporaries
  <2> QED
    BY <2>3, <2>4, <2>5 DEF HeapIsClosed
<1>8. ASSUME NEW r \in Roots, NEW v \in Objects \cup {Null}, AddRoot(r, v)
      PROVE  Stored' /\ HeapIsClosed'
  <2>1. v \in heap \cup {Null}
    BY <1>3, <1>8 DEF AddRoot
  <2>2. \A x \in Roots : slot'[x] = IF x = r THEN v ELSE slot[x]
    BY <1>1, <1>8 DEF AddRoot, TypeOK
  <2>3. Stored'
    BY <1>1, <1>8 DEF AddRoot, Stored
  <2>4. Closed(children, heap)'
    BY <1>4, <1>8 DEF AddRoot, Closed
  <2>5. (RootObjects \cup Temporaries \subseteq heap)'
    BY <1>1, <1>4, <1>8, <2>1, <2>2 DEF AddRoot, RootObjects, Temporaries, TypeOK
  <2> QED
    BY <2>3, <2>4, <2>5 DEF HeapIsClosed
<1>9. ASSUME NEW r \in Roots, NEW v \in Objects \cup {Null}, Assign(r, v)
      PROVE  Stored' /\ HeapIsClosed'
  <2>1. v \in heap \cup {Null} /\ slot[r] \in heap \cup {Null}
    BY <1>3, <1>4, <1>9 DEF Assign, RootObjects
  <2>2. \A x \in Roots : slot'[x] = IF x = r THEN v ELSE slot[x]
    BY <1>1, <1>9 DEF Assign, TypeOK
  <2>3. Stored'
    BY <1>1, <1>9 DEF Assign, Stored
  <2>4. Closed(children, heap)'
    BY <1>4, <1>9 DEF Assign, Closed
  <2>5. (RootObjects \cup Temporaries \subseteq heap)'
    BY <1>1, <1>4, <1>9, <2>1, <2>2 DEF Assign, RootObjects, Temporaries, TypeOK
  <2> QED
    BY <2>3, <2>4, <2>5 DEF HeapIsClosed
<1>10. ASSUME NEW r \in Roots, RemoveRoot(r) PROVE Stored' /\ HeapIsClosed'
  <2>1. slot[r] \in heap \cup {Null}
    BY <1>4, <1>10 DEF RemoveRoot, RootObjects
  <2>2. \A x \in Roots : slot'[x] = IF x = r THEN Null ELSE slot[x]
    BY <1>1, <1>10 DEF RemoveRoot, TypeOK
  <2>3. Stored'
    BY <1>1, <1>10 DEF RemoveRoot, Stored
  <2>4. Closed(children, heap)'
    BY <1>4, <1>10 DEF RemoveRoot, Closed
  <2>5. (RootObjects \cup Temporaries \subseteq heap)'
    BY <1>1, <1>4, <1>10, <2>1, <2>2 DEF RemoveRoot, RootObjects, Temporaries, TypeOK
  <2> QED
    BY <2>3, <2>4, <2>5 DEF HeapIsClosed
<1>11. ASSUME NEW t \in Objects, NEW c \in Objects, NEW n \in Objects, SetTimer(t, c, n)
       PROVE  Stored' /\ HeapIsClosed'
  <2>1. /\ heap' = heap \cup {t, n} /\ t \notin heap /\ n \notin heap /\ n # t
        /\ c \in heap /\ t \in TimerObjects
    BY <1>3, <1>11 DEF SetTimer, AllocateMemory
  <2>2. \A x \in Objects : children'[x] = IF x = t THEN {c} ELSE children[x]
    BY <1>1, <1>11 DEF SetTimer, TypeOK
  <2>3. Stored'
    BY <1>1, <1>11, <2>1, <2>2 DEF SetTimer, Stored
  <2>4. children[n] = {}
    BY <1>1, <2>1 DEF Stored
  <2>5. Closed(children, heap)'
    BY <1>3, <1>4, <2>1, <2>2, <2>4 DEF Closed
  <2>6. (RootObjects \cup Temporaries \subseteq heap)'
    BY <1>4, <1>11, <2>1 DEF SetTimer, RootObjects, Temporaries
  <2> QED
    BY <2>3, <2>5, <2>6 DEF HeapIsClosed
<1>12. ASSUME NEW t \in TimerObjects, ClearTimer(t) PROVE Stored' /\ HeapIsClosed'
  BY <1>1, <1>4, <1>12 DEF ClearTimer, Stored, HeapIsClosed, Closed, RootObjects, Temporaries
<1> QED
  BY <1>5, <1>6, <1>7, <1>8, <1>9, <1>10, <1>11, <1>12 DEF Mutator

(* The steps that give control to a callback, take it back or begin a        *)
(* collection.                                                               *)
LEMMA LoopSafe ==
  ASSUME IInv, Loop \/ EndCallback \/ PopCollection \/ CollectNow \/ RunScheduledCollect
  PROVE  IInv'
<1> USE DEF memory, program, collector, held, queue
<1>1. TypeOK /\ Idle /\ Stored /\ HeapIsClosed
  BY DEF IInv
<1>2. TypeOK'
  BY <1>1, LoopType, MutatorType
<1>3. pc \in {"loop", "callback"} /\ pc \notin Phases /\ marked = {} /\ grey = {}
  BY <1>1 DEF Loop, EndCallback, PopCollection, CollectNow, RunScheduledCollect, StartCallback,
              FireTimer, EnterLoop, LeaveLoop, Destroy, Idle, Phases
<1>4. Closed(children, heap) /\ RootObjects \subseteq heap /\ Temporaries \subseteq heap
  BY <1>1, <1>3 DEF HeapIsClosed, Phases
<1>5. Live \subseteq heap
  BY <1>1, <1>3, LiveInClosedHeap DEF Phases
<1>6. /\ UNCHANGED <<heap, children, slot, timers, marked, grey>>
      /\ roots' \subseteq roots /\ active' \subseteq active
  BY DEF Loop, EndCallback, PopCollection, CollectNow, RunScheduledCollect, StartCallback,
         FireTimer, EnterLoop, LeaveLoop, Destroy, BeginCollect
<1>7. Stored'
  BY <1>1, <1>6 DEF Stored
<1>8. (Closed(children, heap) /\ RootObjects \subseteq heap)'
  BY <1>4, <1>6 DEF Closed, RootObjects
<1>9. CASE \/ StartCallback \/ EndCallback \/ PopCollection \/ EnterLoop \/ LeaveLoop
           \/ (\E t \in TimerObjects : FireTimer(t))
  <2>1. pc' \notin Phases /\ (pc' = "loop" => stack' = {}) /\ pc' # "destroyed"
    BY <1>9 DEF StartCallback, EndCallback, PopCollection, EnterLoop, LeaveLoop, FireTimer, Phases
  <2>2. Temporaries' \subseteq heap
    <3>1. CASE StartCallback \/ EndCallback \/ PopCollection
      BY <1>4, <3>1 DEF StartCallback, EndCallback, PopCollection, Temporaries
    <3>2. ASSUME NEW t \in TimerObjects, FireTimer(t) PROVE Temporaries' \subseteq heap
      <4>1. stack' \subseteq heap
        BY <1>1, <1>4, <3>2 DEF FireTimer, Stored, Closed
      <4> QED
        BY <1>4, <3>2, <4>1 DEF FireTimer, Temporaries
    <3>3. CASE EnterLoop
      BY <1>1, <1>4, <1>5, <3>3, EnterTemporaries
    <3>4. CASE LeaveLoop
      BY <1>1, <1>4, <3>4, LeaveTemporaries
    <3> QED
      BY <1>9, <3>1, <3>2, <3>3, <3>4
  <2>3. Idle'
    BY <1>3, <1>6, <2>1 DEF Idle
  <2>4. HeapIsClosed'
    BY <1>6, <1>8, <2>2 DEF HeapIsClosed
  <2>5. (Marking /\ MarkingTimers /\ MarkingRoots /\ Sweeping)'
    BY <2>1 DEF Marking, MarkingTimers, MarkingRoots, Sweeping, Phases
  <2> QED
    BY <1>2, <1>7, <2>3, <2>4, <2>5 DEF IInv
<1>10. CASE Destroy \/ CollectNow \/ RunScheduledCollect
  <2>1. pc' = "marktimers" /\ todo' = timers /\ stack' = stack /\ frames' = frames
    BY <1>10 DEF Destroy, CollectNow, RunScheduledCollect, BeginCollect
  <2>2. caller' # "callback" => stack = {}
    BY <1>1, <1>10 DEF Destroy, RunScheduledCollect, CollectNow, BeginCollect, Idle
  <2>3. Idle'
    BY <2>1, <2>2 DEF Idle, Phases
  <2>4. HeapIsClosed'
    BY <1>4, <1>6, <1>8, <2>1 DEF HeapIsClosed, Temporaries
  <2>5. Marking'
    BY <1>3, <1>6, <2>1 DEF Marking
  <2>6. (MarkingTimers /\ MarkingRoots /\ Sweeping)'
    BY <1>6, <2>1 DEF MarkingTimers, MarkingRoots, Sweeping
  <2> QED
    BY <1>2, <1>7, <2>3, <2>4, <2>5, <2>6 DEF IInv
<1> QED
  BY <1>9, <1>10 DEF Loop

(* Marking: the origins do not change, so neither does what is reachable.    *)
LEMMA MarkSafe ==
  ASSUME IInv,
         MarkRoots \/ (\E t \in TimerObjects : MarkTimer(t)) \/ (\E r \in Roots : MarkRoot(r))
  PROVE  IInv'
<1> USE DEF memory, program, held, queue
<1>1. TypeOK /\ Idle /\ Stored /\ HeapIsClosed /\ Marking /\ MarkingTimers /\ MarkingRoots
  BY DEF IInv
<1>2. TypeOK'
  BY <1>1, CollectorType DEF Collector
<1>3. /\ UNCHANGED <<heap, children, slot, roots, active, held, marked, caller>>
      /\ pc \in {"marktimers", "markroots"} /\ pc' \in {"marktimers", "markroots"}
      /\ timers' \subseteq timers /\ timers' \cap active = timers \cap active
  BY DEF MarkRoots, MarkTimer, MarkRoot
<1>4. Origins' = Origins /\ RootObjects' = RootObjects /\ Reach' = Reach
  BY <1>3 DEF Origins, RootObjects, Reach
<1>5. Idle' /\ Stored' /\ HeapIsClosed'
  BY <1>1, <1>3, <1>4 DEF Idle, Stored, HeapIsClosed, Closed, Temporaries, Phases
<1>6. Sweeping'
  BY <1>3 DEF Sweeping
<1>7. /\ marked \cup grey \subseteq Reach
      /\ \A o \in marked : children[o] \subseteq marked \cup grey
  BY <1>1, <1>3 DEF Marking
<1>8. Origins \subseteq Reach
  BY <1>1, ReachFacts
<1>9. ASSUME NEW t \in TimerObjects, MarkTimer(t) PROVE IInv'
  <2>1. /\ pc = "marktimers" /\ pc' = "marktimers" /\ grey = {}
        /\ t \in todo /\ todo' = todo \ {t}
    BY <1>9 DEF MarkTimer
  <2>2. \/ t \in active /\ grey' = {t} /\ timers' = timers
        \/ t \notin active /\ grey' = grey /\ timers' = timers \ {t}
    BY <1>9 DEF MarkTimer
  <2>3. todo \subseteq timers /\ timers \ todo \subseteq active \cap (marked \cup grey)
    BY <1>1, <2>1 DEF MarkingTimers
  <2>4. Marking'
    BY <1>3, <1>4, <1>7, <1>8, <2>1, <2>2, <2>3 DEF Marking, Origins
  <2>5. MarkingTimers'
    BY <1>3, <2>1, <2>2, <2>3 DEF MarkingTimers
  <2>6. MarkingRoots'
    BY <2>1 DEF MarkingRoots
  <2> QED
    BY <1>2, <1>5, <1>6, <2>4, <2>5, <2>6 DEF IInv
<1>10. ASSUME MarkRoots PROVE IInv'
  <2>1. /\ pc = "marktimers" /\ pc' = "markroots" /\ todo = {} /\ todo' = roots
        /\ timers' = timers /\ grey' = grey
    BY <1>10 DEF MarkRoots
  <2>2. timers \subseteq active \cap (marked \cup grey)
    BY <1>1, <2>1 DEF MarkingTimers
  <2>3. Marking' /\ MarkingTimers' /\ MarkingRoots'
    BY <1>3, <1>4, <1>7, <2>1, <2>2 DEF Marking, MarkingTimers, MarkingRoots
  <2> QED
    BY <1>2, <1>5, <1>6, <2>3 DEF IInv
<1>11. ASSUME NEW r \in Roots, MarkRoot(r) PROVE IInv'
  <2>1. /\ pc = "markroots" /\ pc' = "markroots" /\ grey = {}
        /\ r \in todo /\ todo' = todo \ {r} /\ timers' = timers
        /\ grey' = {slot[r]} \ {Null}
    BY <1>11 DEF MarkRoot
  <2>2. /\ todo \subseteq roots /\ timers \subseteq active \cap (marked \cup grey)
        /\ \A x \in roots \ todo : slot[x] \in marked \cup grey \cup {Null}
    BY <1>1, <2>1 DEF MarkingRoots
  <2>3. grey' \subseteq Reach
    BY <1>8, <2>1, <2>2 DEF Origins, RootObjects
  <2>4. Marking'
    BY <1>3, <1>4, <1>7, <2>1, <2>3 DEF Marking
  <2>5. MarkingRoots'
    BY <1>3, <2>1, <2>2 DEF MarkingRoots
  <2>6. MarkingTimers'
    BY <2>1 DEF MarkingTimers
  <2> QED
    BY <1>2, <1>5, <1>6, <2>4, <2>5, <2>6 DEF IInv
<1> QED
  BY <1>9, <1>10, <1>11

LEMMA VisitSafe ==
  ASSUME IInv, NEW o \in Objects, Visit(o)
  PROVE  IInv'
<1> USE DEF memory, program, held, queue
<1>1. TypeOK /\ Idle /\ Stored /\ HeapIsClosed /\ Marking /\ MarkingTimers /\ MarkingRoots
      /\ Sweeping
  BY DEF IInv
<1>2. TypeOK'
  BY <1>1, CollectorType DEF Collector
<1>3. /\ UNCHANGED <<heap, children, slot, roots, timers, active, held, caller, pc, todo>>
      /\ o \in grey
      /\ marked' \cup grey' = marked \cup grey \cup (IF o \in marked THEN {} ELSE children[o])
      /\ marked' = marked \cup {o}
      /\ grey \subseteq grey' \cup marked'
  BY DEF Visit
<1>4. pc \in {"marktimers", "markroots"}
  BY <1>1, <1>3 DEF Idle, Sweeping, Phases
<1>5. Reach' = Reach /\ RootObjects' = RootObjects
  BY <1>3 DEF Reach, Origins, RootObjects
<1>6. Idle' /\ Stored' /\ HeapIsClosed' /\ Sweeping'
  BY <1>1, <1>3, <1>4, <1>5 DEF Idle, Stored, HeapIsClosed, Closed, Sweeping, Temporaries, Phases
<1>7. /\ marked \cup grey \subseteq Reach
      /\ \A x \in marked : children[x] \subseteq marked \cup grey
  BY <1>1, <1>4 DEF Marking
<1>8. children[o] \subseteq Reach
  BY <1>1, <1>3, <1>7, ReachFacts DEF Closed
<1>9. marked' \cup grey' \subseteq Reach
  BY <1>3, <1>7, <1>8
<1>10. \A x \in marked' : children[x] \subseteq marked' \cup grey'
  BY <1>3, <1>7
<1>11. Marking'
  BY <1>3, <1>5, <1>7, <1>9, <1>10 DEF Marking
<1>12. MarkingTimers' /\ MarkingRoots'
  BY <1>1, <1>3 DEF MarkingTimers, MarkingRoots
<1> QED
  BY <1>2, <1>6, <1>11, <1>12 DEF IInv

(* When marking is over, exactly the reachable objects are marked.           *)
LEMMA MarkedIsReach ==
  ASSUME IInv, pc = "markroots", grey = {}, todo = {}
  PROVE  marked = Reach /\ marked \subseteq heap
<1>1. TypeOK /\ Stored /\ HeapIsClosed /\ Marking /\ MarkingRoots
  BY DEF IInv
<1>2. marked \in SUBSET Objects /\ Closed(children, marked)
  BY <1>1 DEF TypeOK, Marking, Closed
<1>3. Origins \subseteq marked
  BY <1>1 DEF MarkingRoots, Origins, RootObjects
<1>4. Reach \subseteq marked
  BY <1>2, <1>3, ReachableIsLeast DEF Reach
<1>5. marked \subseteq Reach
  BY <1>1 DEF Marking
<1>6. Reach \subseteq Live /\ Live \subseteq heap
  BY <1>1, ReachFacts, LiveInClosedHeap
<1> QED
  BY <1>4, <1>5, <1>6

LEMMA SweepSafe ==
  ASSUME IInv, Sweep \/ (\E o \in Objects : SweepObject(o)) \/ EndCollect
  PROVE  IInv'
<1> USE DEF memory, program, held, queue
<1>1. TypeOK /\ Idle /\ Stored /\ HeapIsClosed /\ Marking /\ MarkingRoots /\ Sweeping
  BY DEF IInv
<1>2. TypeOK'
  BY <1>1, CollectorType DEF Collector
<1>3. ASSUME Sweep PROVE IInv'
  <2>1. /\ pc = "markroots" /\ pc' = "sweep" /\ grey = {} /\ todo = {} /\ todo' = heap
        /\ stack' \subseteq stack
        /\ UNCHANGED <<heap, children, slot, roots, timers, active, caller, marked, grey>>
    BY <1>3 DEF Sweep
  <2>2. marked = Reach /\ marked \subseteq heap
    BY <2>1, MarkedIsReach
  <2>3. Origins \subseteq marked /\ Closed(children, marked) /\ Temporaries' \subseteq marked
    BY <1>1, <1>3, <2>2, ReachFacts, SweepTemporaries
  <2>4. timers \subseteq marked
    BY <1>1, <2>1 DEF MarkingRoots
  <2>5. Sweeping'
    BY <2>1, <2>2, <2>3, <2>4 DEF Sweeping, Origins, Closed, RootObjects
  <2>6. Idle' /\ Stored' /\ HeapIsClosed' /\ Marking' /\ MarkingTimers' /\ MarkingRoots'
    BY <1>1, <2>1 DEF Idle, Stored, HeapIsClosed, Marking, MarkingTimers, MarkingRoots, Phases
  <2> QED
    BY <1>2, <2>5, <2>6 DEF IInv
<1>4. ASSUME NEW o \in Objects, SweepObject(o) PROVE IInv'
  <2>1. /\ pc = "sweep" /\ pc' = "sweep" /\ o \in todo /\ todo' = todo \ {o}
        /\ UNCHANGED <<slot, roots, timers, held, caller, marked, grey>>
    BY <1>4 DEF SweepObject
  <2>2. /\ grey = {} /\ marked \subseteq heap /\ heap \ todo \subseteq marked
        /\ Closed(children, marked) /\ RootObjects \cup timers \cup Temporaries \subseteq marked
    BY <1>1, <2>1 DEF Sweeping
  <2>3. \/ o \in marked /\ UNCHANGED <<heap, children, active>>
        \/ /\ o \notin marked /\ heap' = heap \ {o} /\ active' = active \ {o}
           /\ children' = [children EXCEPT ![o] = {}]
    BY <1>4 DEF SweepObject, DeleteObject
  <2>4. /\ \A x \in Objects : children'[x] \subseteq children[x]
        /\ \A x \in Objects \ heap' : x \notin heap \/ children'[x] = {}
    BY <1>1, <2>2, <2>3 DEF TypeOK
  <2>5. Stored'
    BY <1>1, <2>1, <2>2, <2>3, <2>4 DEF Stored, TypeOK
  <2>6. Sweeping'
    BY <1>1, <2>1, <2>2, <2>3, <2>4 DEF Sweeping, Closed, RootObjects, Temporaries, TypeOK
  <2>7. Idle' /\ HeapIsClosed' /\ Marking' /\ MarkingTimers' /\ MarkingRoots'
    BY <1>1, <2>1 DEF Idle, HeapIsClosed, Marking, MarkingTimers, MarkingRoots, Phases
  <2> QED
    BY <1>2, <2>5, <2>6, <2>7 DEF IInv
<1>5. ASSUME EndCollect PROVE IInv'
  <2>1. /\ pc = "sweep" /\ pc' = caller /\ todo = {} /\ marked' = {}
        /\ UNCHANGED <<heap, children, slot, roots, timers, active, held, grey>>
    BY <1>5 DEF EndCollect
  <2>2. pc' \in {"loop", "callback", "destroyed"} /\ pc' \notin Phases
    BY <1>1, <2>1 DEF TypeOK, Phases
  <2>3. /\ grey = {} /\ heap = marked
        /\ Closed(children, marked) /\ RootObjects \cup timers \cup Temporaries \subseteq marked
    BY <1>1, <2>1 DEF Sweeping
  <2>4. Idle'
    BY <1>1, <2>1, <2>2, <2>3 DEF Idle, Phases
  <2>5. Stored' /\ HeapIsClosed'
    BY <1>1, <2>1, <2>3 DEF Stored, HeapIsClosed, Closed, RootObjects, Temporaries
  <2>6. (Marking /\ MarkingTimers /\ MarkingRoots /\ Sweeping)'
    BY <2>2 DEF Marking, MarkingTimers, MarkingRoots, Sweeping, Phases
  <2> QED
    BY <1>2, <2>4, <2>5, <2>6 DEF IInv
<1> QED
  BY <1>3, <1>4, <1>5

LEMMA StepIInv == IInv /\ [Next]_vars => IInv'
<1> SUFFICES ASSUME IInv, [Next]_vars
             PROVE  IInv'
  OBVIOUS
<1>1. CASE Mutator
  <2>1. pc = "callback" /\ UNCHANGED collector
    BY <1>1 DEF Mutator, Allocate, Store, Erase, AddRoot, Assign, RemoveRoot, SetTimer,
                ClearTimer
  <2>2. TypeOK'
    BY <1>1, MutatorType DEF IInv
  <2> QED
    BY <1>1, <2>1, <2>2, MutatorSafe, IdleInCallback DEF IInv
<1>2. CASE Loop \/ EndCallback \/ PopCollection \/ CollectNow \/ RunScheduledCollect
  BY <1>2, LoopSafe
<1>3. CASE Collector
  BY <1>3, MarkSafe, VisitSafe, SweepSafe DEF Collector
<1>4. CASE UNCHANGED vars
  <2>1. Temporaries' = Temporaries /\ RootObjects' = RootObjects /\ Reach' = Reach
    BY <1>4 DEF vars, Temporaries, RootObjects, Reach, Origins
  <2>2. TypeOK'
    BY <1>4, TypeStep DEF IInv
  <2>3. (Idle /\ Stored /\ HeapIsClosed)'
    BY <1>4, <2>1 DEF vars, IInv, Idle, Stored, HeapIsClosed, Closed
  <2>4. (Marking /\ MarkingTimers /\ MarkingRoots /\ Sweeping)'
    BY <1>4, <2>1 DEF vars, IInv, Marking, MarkingTimers, MarkingRoots, Sweeping, Closed
  <2> QED
    BY <2>2, <2>3, <2>4 DEF IInv
<1> QED
  BY <1>1, <1>2, <1>3, <1>4 DEF Next

(* No collection frees an object the program can get at.                     *)
THEOREM Safety == Spec => []NoUseAfterFree
<1>1. IInv => NoUseAfterFree
  <2> SUFFICES ASSUME IInv PROVE Live \subseteq heap
    BY DEF NoUseAfterFree
  <2>1. CASE pc # "sweep"
    BY <2>1, LiveInClosedHeap DEF IInv
  <2>2. CASE pc = "sweep"
    BY <2>2, LiveIsMarked DEF IInv, Sweeping
  <2> QED
    BY <2>1, <2>2
<1> QED
  BY <1>1, InitIInv, StepIInv, PTL DEF Spec

(* The timer storage refers to living timers, and all that can fire are in.  *)
THEOREM TimersStayAlive == Spec => []TimersAreAlive
<1>1. IInv => TimersAreAlive
  BY DEF IInv, Stored, TimersAreAlive
<1> QED
  BY <1>1, InitIInv, StepIInv, PTL DEF Spec

-----------------------------------------------------------------------------
(* Scheduling.                                                               *)

(* Outside collect(), caller says that no collection runs.  The flag was set *)
(* when a collection was popped, and nothing clears it from then on.         *)
Scheduling ==
  /\ OneCollectionAtATime
  /\ missed => scheduled
  /\ pc \notin Phases => caller = "loop"

LEMMA SchedulingInCallback ==
  ASSUME TypeOK, Scheduling, pc = "callback", UNCHANGED <<pc, caller>>,
         \/ UNCHANGED <<scheduled, queued, missed>>
         \/ ~scheduled /\ scheduled' = TRUE /\ queued' = queued + 1 /\ missed' = missed
  PROVE  Scheduling'
<1>1. pc \notin Phases /\ caller = "loop"
  BY DEF Scheduling, Phases
<1>2. CASE UNCHANGED <<scheduled, queued, missed>>
  BY <1>1, <1>2 DEF Scheduling, OneCollectionAtATime
<1>3. CASE ~scheduled /\ scheduled' = TRUE /\ queued' = queued + 1 /\ missed' = missed
  BY <1>1, <1>3 DEF Scheduling, OneCollectionAtATime, TypeOK
<1> QED
  BY <1>2, <1>3

LEMMA MutatorSchedules ==
  ASSUME TypeOK, Scheduling, Mutator
  PROVE  Scheduling'
<1>1. pc = "callback" /\ UNCHANGED <<pc, caller>>
  BY DEF Mutator, Allocate, Store, Erase, AddRoot, Assign, RemoveRoot, SetTimer, ClearTimer, collector
<1>2. \/ UNCHANGED <<scheduled, queued, missed>>
      \/ ~scheduled /\ scheduled' = TRUE /\ queued' = queued + 1 /\ missed' = missed
  <2>1. ASSUME NEW new, NEW size, AllocateMemory(new, size)
        PROVE  \/ UNCHANGED <<scheduled, queued, missed>>
               \/ ~scheduled /\ scheduled' = TRUE /\ queued' = queued + 1 /\ missed' = missed
    BY <2>1 DEF AllocateMemory, AsyncClear, queue
  <2>2. ASSUME NEW o \in Objects, Allocate(o)
        PROVE  \E new, size : AllocateMemory(new, size)
    BY <2>2 DEF Allocate
  <2>3. ASSUME NEW t \in Objects, NEW c \in Objects, NEW n \in Objects, SetTimer(t, c, n)
        PROVE  \E new, size : AllocateMemory(new, size)
    BY <2>3 DEF SetTimer
  <2> QED
    BY <2>1, <2>2, <2>3 DEF Mutator, Store, Erase, AddRoot, Assign, RemoveRoot, ClearTimer,
                              queue
<1> QED
  BY <1>1, <1>2, SchedulingInCallback

LEMMA CollectorSchedules ==
  ASSUME IInv, Scheduling, Collector
  PROVE  Scheduling'
<1>1. CASE EndCollect
  <2>1. pc = "sweep" /\ pc' = caller /\ caller' = "loop" /\ queued' = queued
        /\ missed' = missed
    BY <1>1 DEF EndCollect, queue
  <2>2. CASE caller = "loop"
    <3>1. scheduled' = FALSE
      BY <1>1, <2>2 DEF EndCollect
    <3> QED
      BY <2>1, <2>2, <3>1 DEF Scheduling, OneCollectionAtATime, TypeOK, IInv, Phases
  <2>3. CASE caller # "loop"
    <3>1. scheduled' = scheduled
      BY <1>1, <2>3 DEF EndCollect
    <3> QED
      BY <2>1, <2>3, <3>1 DEF Scheduling, OneCollectionAtATime, TypeOK, IInv, Phases
  <2> QED
    BY <2>2, <2>3
<1>2. CASE ~EndCollect
  <2>1. pc \in Phases /\ pc' \in Phases /\ UNCHANGED <<caller, scheduled, queued, missed>>
    <3>1. ASSUME NEW o \in Objects, Visit(o)
          PROVE  pc \in Phases /\ UNCHANGED <<pc, caller, scheduled, queued, missed>>
      BY <3>1 DEF Visit, IInv, Idle, queue
    <3> QED
      BY <1>2, <3>1 DEF Collector, MarkTimer, MarkRoots, MarkRoot, Sweep, SweepObject, Phases,
                              queue
  <2> QED
    BY <2>1 DEF Scheduling, OneCollectionAtATime, Phases
<1> QED
  BY <1>1, <1>2

LEMMA LoopSchedules ==
  ASSUME TypeOK, Scheduling,
         Loop \/ EndCallback \/ PopCollection \/ CollectNow \/ RunScheduledCollect
  PROVE  Scheduling'
<1> USE DEF Scheduling, OneCollectionAtATime, TypeOK, Phases, queue
<1>1. CASE StartCallback
  BY <1>1 DEF StartCallback
<1>2. ASSUME NEW t \in TimerObjects, FireTimer(t) PROVE Scheduling'
  BY <1>2 DEF FireTimer
<1>3. CASE Destroy
  BY <1>3 DEF Destroy, BeginCollect
<1>4. CASE EndCallback
  BY <1>4 DEF EndCallback
<1>5. CASE CollectNow
  BY <1>5 DEF CollectNow, BeginCollect
<1>6. CASE RunScheduledCollect
  <2>1. /\ pc = "loop" /\ caller = "loop" /\ queued > 0
        /\ queued' = queued - 1 /\ pc' = "marktimers" /\ caller' = "loop"
        /\ scheduled' = scheduled /\ missed' = missed
    BY <1>6 DEF RunScheduledCollect, BeginCollect
  <2> QED
    BY <2>1
<1>7. CASE EnterLoop \/ LeaveLoop
  BY <1>7 DEF EnterLoop, LeaveLoop
<1>8. CASE PopCollection
  BY <1>8 DEF PopCollection
<1> QED
  BY <1>1, <1>2, <1>3, <1>4, <1>5, <1>6, <1>7, <1>8 DEF Loop

LEMMA SchedulingInvariant == Spec => []Scheduling
<1>1. Init => Scheduling
  BY DEF Init, Scheduling, OneCollectionAtATime, Phases
<1>2. IInv /\ Scheduling /\ [Next]_vars => Scheduling'
  <2>1. ASSUME IInv, Scheduling, Next PROVE Scheduling'
    BY <2>1, MutatorSchedules, CollectorSchedules, LoopSchedules DEF Next, IInv
  <2>2. ASSUME Scheduling, UNCHANGED vars PROVE Scheduling'
    BY <2>2 DEF Scheduling, OneCollectionAtATime, vars
  <2> QED
    BY <2>1, <2>2
<1> QED
  BY <1>1, <1>2, InitIInv, StepIInv, PTL DEF Spec

(* One collection at most is scheduled or runs from the queue.               *)
THEOREM CollectionsTakeTurns == Spec => []OneCollectionAtATime
<1>1. Scheduling => OneCollectionAtATime
  BY DEF Scheduling
<1> QED
  BY <1>1, SchedulingInvariant, PTL

-----------------------------------------------------------------------------
(* Accounting.                                                               *)

LEMMA BytesOfMore ==
  ASSUME NEW S \in SUBSET Objects, IsFiniteSet(BytesOf(S)), NEW o \in Objects \ S
  PROVE  /\ IsFiniteSet(BytesOf(S \cup {o}))
         /\ Cardinality(BytesOf(S \cup {o})) = Cardinality(BytesOf(S)) + SizeOf[o]
<1> DEFINE T == {o} \X (1..SizeOf[o])
<1>1. SizeOf[o] \in Nat \ {0}
  BY GCAssumption
<1>2. IsFiniteSet(T) /\ Cardinality(T) = SizeOf[o]
  <2>1. IsFiniteSet({o}) /\ Cardinality({o}) = 1
    BY FS_Singleton
  <2>2. IsFiniteSet(1..SizeOf[o]) /\ Cardinality(1..SizeOf[o]) = SizeOf[o]
    <3>1. 1 \in Int /\ SizeOf[o] \in Int /\ ~(1 > SizeOf[o]) /\ SizeOf[o] - 1 + 1 = SizeOf[o]
      BY <1>1
    <3> QED
      BY <3>1, FS_Interval, SMTT(30)
  <2>3. IsFiniteSet(T) /\ Cardinality(T) = Cardinality({o}) * Cardinality(1..SizeOf[o])
    BY <2>1, <2>2, FS_Product, Zenon
  <2> QED
    BY <1>1, <2>1, <2>2, <2>3
<1>3. BytesOf(S \cup {o}) = BytesOf(S) \cup T
  BY DEF BytesOf
<1>4. BytesOf(S) \cap T = {}
  BY DEF BytesOf
<1>5. Cardinality(BytesOf(S) \cap T) = 0
  BY <1>4, FS_EmptySet
<1>6. Cardinality(BytesOf(S)) \in Nat
  BY FS_CardinalityType
<1> HIDE DEF T
<1>7. /\ IsFiniteSet(BytesOf(S) \cup T)
      /\ Cardinality(BytesOf(S) \cup T)
           = Cardinality(BytesOf(S)) + Cardinality(T) - Cardinality(BytesOf(S) \cap T)
  BY <1>2, FS_Union, Zenon
<1>8. /\ IsFiniteSet(BytesOf(S \cup {o}))
      /\ Cardinality(BytesOf(S \cup {o})) = Cardinality(BytesOf(S)) + SizeOf[o] - 0
  BY <1>2, <1>3, <1>5, <1>7, Zenon
<1> QED
  BY <1>1, <1>6, <1>8

LEMMA BytesOfFewer ==
  ASSUME NEW S \in SUBSET Objects, IsFiniteSet(BytesOf(S)), NEW o \in S
  PROVE  /\ IsFiniteSet(BytesOf(S \ {o}))
         /\ Cardinality(BytesOf(S \ {o})) = Cardinality(BytesOf(S)) - SizeOf[o]
<1>1. IsFiniteSet(BytesOf(S \ {o}))
  <2>1. BytesOf(S \ {o}) \subseteq BytesOf(S)
    BY DEF BytesOf
  <2> QED
    BY <2>1, FS_Subset
<1>2. (S \ {o}) \cup {o} = S /\ o \in Objects \ (S \ {o}) /\ S \ {o} \in SUBSET Objects
  OBVIOUS
<1>3. Cardinality(BytesOf(S)) = Cardinality(BytesOf(S \ {o})) + SizeOf[o]
  BY <1>1, <1>2, BytesOfMore
<1>4. Cardinality(BytesOf(S \ {o})) \in Nat /\ SizeOf[o] \in Nat
  BY <1>1, FS_CardinalityType, GCAssumption
<1> QED
  BY <1>1, <1>3, <1>4

(* The table holds the size of every object; their sum has been counted.     *)
Accounts ==
  /\ IsFiniteSet(BytesOf(heap))
  /\ \A o \in Objects : table[o] = IF o \in heap THEN SizeOf[o] ELSE 0
  /\ bytes = Cardinality(BytesOf(heap))

LEMMA AccountsForNew ==
  ASSUME TypeOK, Accounts, Next, UNCHANGED <<heap, table, bytes>> \/ Mutator
  PROVE  Accounts'
<1>1. CASE UNCHANGED <<heap, table, bytes>>
  BY <1>1 DEF Accounts
<1>2. ASSUME NEW o \in Objects, Allocate(o) PROVE Accounts'
  <2>1. /\ o \notin heap /\ heap' = heap \cup {o} /\ bytes' = bytes + SizeOf[o]
        /\ table' = [x \in Objects |-> IF x = o THEN SizeOf[x] ELSE table[x]]
    BY <1>2 DEF Allocate, AllocateMemory
  <2>2. /\ IsFiniteSet(BytesOf(heap'))
        /\ Cardinality(BytesOf(heap')) = Cardinality(BytesOf(heap)) + SizeOf[o]
    BY <2>1, BytesOfMore DEF Accounts, TypeOK
  <2> QED
    BY <2>1, <2>2 DEF Accounts
<1>3. ASSUME NEW t \in Objects, NEW c \in Objects, NEW n \in Objects, SetTimer(t, c, n)
      PROVE  Accounts'
  <2>1. /\ t \notin heap /\ n \notin heap \cup {t} /\ heap' = (heap \cup {t}) \cup {n}
        /\ bytes' = bytes + (SizeOf[t] + SizeOf[n])
        /\ table' = [x \in Objects |-> IF x \in {t, n} THEN SizeOf[x] ELSE table[x]]
    BY <1>3 DEF SetTimer, AllocateMemory
  <2>2. /\ IsFiniteSet(BytesOf(heap \cup {t})) /\ heap \cup {t} \in SUBSET Objects
        /\ Cardinality(BytesOf(heap \cup {t})) = Cardinality(BytesOf(heap)) + SizeOf[t]
    BY <2>1, BytesOfMore DEF Accounts, TypeOK
  <2>3. /\ IsFiniteSet(BytesOf(heap'))
        /\ Cardinality(BytesOf(heap')) = Cardinality(BytesOf(heap \cup {t})) + SizeOf[n]
    BY <2>1, <2>2, BytesOfMore
  <2>4. SizeOf[t] \in Nat /\ SizeOf[n] \in Nat /\ Cardinality(BytesOf(heap)) \in Nat
    BY GCAssumption, FS_CardinalityType DEF Accounts
  <2>5. bytes' = Cardinality(BytesOf(heap'))
    BY <2>1, <2>2, <2>3, <2>4 DEF Accounts
  <2> QED
    BY <2>1, <2>3, <2>5 DEF Accounts
<1>4. Mutator => \/ UNCHANGED <<heap, table, bytes>>
                 \/ \E o \in Objects : Allocate(o)
                 \/ \E t, c, n \in Objects : SetTimer(t, c, n)
  BY DEF Mutator, Store, Erase, AddRoot, Assign, RemoveRoot, ClearTimer, memory
<1> QED
  BY <1>1, <1>2, <1>3, <1>4

LEMMA AccountsForSwept ==
  ASSUME TypeOK, Accounts, NEW o \in Objects, SweepObject(o)
  PROVE  Accounts'
<1>1. CASE UNCHANGED <<heap, table, bytes>>
  BY <1>1 DEF Accounts
<1>2. CASE DeleteObject(o)
  <2>1. /\ heap' = heap \ {o} /\ bytes' = bytes - table[o]
        /\ \A x \in Objects : table'[x] = IF x = o THEN 0 ELSE table[x]
    BY <1>2 DEF DeleteObject, TypeOK
  <2>2. CASE o \in heap
    <3>1. /\ IsFiniteSet(BytesOf(heap'))
          /\ Cardinality(BytesOf(heap')) = Cardinality(BytesOf(heap)) - SizeOf[o]
      BY <2>1, <2>2, BytesOfFewer DEF Accounts, TypeOK
    <3> QED
      BY <2>1, <2>2, <3>1 DEF Accounts
  <2>3. CASE o \notin heap
    <3>1. heap' = heap /\ table[o] = 0 /\ bytes \in Int
      BY <2>1, <2>3 DEF Accounts, TypeOK
    <3>2. bytes' = bytes
      BY <2>1, <3>1
    <3>3. \A x \in Objects : table'[x] = table[x]
      BY <2>1, <3>1
    <3> QED
      BY <3>1, <3>2, <3>3 DEF Accounts
  <2> QED
    BY <2>2, <2>3
<1> QED
  BY <1>1, <1>2 DEF SweepObject

LEMMA AccountsInvariant == Spec => []Accounts
<1>1. Init => Accounts
  BY FS_EmptySet DEF Init, Accounts, BytesOf
<1>2. IInv /\ Accounts /\ [Next]_vars => Accounts'
  <2>1. ASSUME IInv, Accounts, Next PROVE Accounts'
    <3>1. \/ UNCHANGED <<heap, table, bytes>> \/ Mutator
          \/ \E o \in Objects : SweepObject(o)
      BY <2>1
      DEF Next, Loop, StartCallback, FireTimer, EnterLoop, LeaveLoop, Destroy, BeginCollect,
          CollectNow, EndCallback, PopCollection, RunScheduledCollect, Collector, MarkTimer, MarkRoots, MarkRoot, Visit, Sweep, EndCollect,
          memory
    <3> QED
      BY <2>1, <3>1, AccountsForNew, AccountsForSwept DEF IInv
  <2>2. ASSUME Accounts, UNCHANGED vars PROVE Accounts'
    BY <2>2 DEF Accounts, vars
  <2> QED
    BY <2>1, <2>2
<1> QED
  BY <1>1, <1>2, InitIInv, StepIInv, PTL DEF Spec

(* What the diagnostics count is what the heap holds.                        *)
THEOREM AccountsAgree == Spec => []AccountingIsExact
<1>1. IInv /\ Accounts => AccountingIsExact
  BY GCAssumption DEF IInv, TypeOK, Accounts, AccountingIsExact
<1> QED
  BY <1>1, InitIInv, StepIInv, AccountsInvariant, PTL DEF Spec

-----------------------------------------------------------------------------
(* The end.                                                                  *)

(* The last collection starts from nothing, so that it marks nothing, drops  *)
(* every timer from the storage and sweeps all of the heap.                  *)
Ending ==
  /\ caller = "destroyed" =>
       /\ roots = {} /\ active = {} /\ marked = {} /\ grey = {}
       /\ pc # "marktimers" => timers = {}
  /\ pc = "destroyed" => heap = {} /\ timers = {} /\ active = {}

LEMMA EndingStep ==
  ASSUME IInv, Scheduling, Ending, Next
  PROVE  Ending'
<1>1. /\ pc \notin Phases => caller = "loop" /\ marked = {} /\ grey = {}
      /\ pc \in {"loop", "callback", "destroyed"} \cup Phases
      /\ caller \in {"loop", "callback", "destroyed"}
  BY DEF IInv, TypeOK, Idle, Scheduling
<1>2. CASE Mutator
  <2>1. pc = "callback" /\ UNCHANGED <<pc, caller>>
    BY <1>2 DEF Mutator, Allocate, Store, Erase, AddRoot, Assign, RemoveRoot, SetTimer,
                ClearTimer, collector
  <2> QED
    BY <1>1, <2>1 DEF Ending, Phases
<1>3. CASE CollectNow \/ EndCallback \/ PopCollection \/ RunScheduledCollect
  BY <1>1, <1>3 DEF CollectNow, EndCallback, PopCollection, RunScheduledCollect, BeginCollect, Ending, Phases
<1>4. CASE Loop
  <2>1. CASE StartCallback \/ EnterLoop \/ LeaveLoop \/ \E t \in TimerObjects : FireTimer(t)
    BY <1>1, <2>1 DEF StartCallback, EnterLoop, LeaveLoop, FireTimer, Ending, Phases
  <2>2. CASE Destroy
    BY <1>1, <2>2 DEF Destroy, BeginCollect, Ending, Phases
  <2> QED
    BY <1>4, <2>1, <2>2 DEF Loop
<1>5. ASSUME NEW t \in TimerObjects, MarkTimer(t) PROVE Ending'
  BY <1>5 DEF MarkTimer, Ending, program
<1>6. CASE MarkRoots
  <2>1. caller = "destroyed" => timers = {}
    BY <1>6 DEF MarkRoots, Ending, IInv, MarkingTimers
  <2> QED
    BY <1>6, <2>1 DEF MarkRoots, Ending, program
<1>7. ASSUME NEW r \in Roots, MarkRoot(r) PROVE Ending'
  <2>1. caller # "destroyed"
    BY <1>7 DEF MarkRoot, Ending, IInv, MarkingRoots
  <2> QED
    BY <1>7, <2>1 DEF MarkRoot, Ending, program
<1>8. ASSUME NEW o \in Objects, Visit(o) PROVE Ending'
  <2>1. caller # "destroyed" /\ pc \in Phases
    BY <1>1, <1>8 DEF Visit, Ending
  <2> QED
    BY <1>8, <2>1 DEF Visit, Ending, Phases
<1>9. CASE Sweep
  BY <1>9 DEF Sweep, Ending, program
<1>10. ASSUME NEW o \in Objects, SweepObject(o) PROVE Ending'
  <2>1. active' \subseteq active
    BY <1>10 DEF SweepObject, DeleteObject
  <2> QED
    BY <1>10, <2>1 DEF SweepObject, Ending
<1>11. CASE EndCollect
  <2>1. pc' = "destroyed" => heap = {} /\ timers = {} /\ active = {}
    BY <1>1, <1>11 DEF EndCollect, Ending, IInv, Sweeping
  <2> QED
    BY <1>11, <2>1 DEF EndCollect, Ending, program
<1> QED
  BY <1>2, <1>3, <1>4, <1>5, <1>6, <1>7, <1>8, <1>9, <1>10, <1>11 DEF Next, Collector

(* Runtime::destroy frees everything.                                        *)
THEOREM EverythingIsFreed == Spec => []NothingIsLeft
<1>1. Init => Ending
  BY DEF Init, Ending
<1>2. IInv /\ Scheduling /\ Ending /\ [Next]_vars => Ending'
  <2>1. ASSUME Ending, UNCHANGED vars PROVE Ending'
    BY <2>1 DEF Ending, vars
  <2> QED
    BY <2>1, EndingStep
<1>3. Ending /\ Accounts => NothingIsLeft
  <2>1. BytesOf({}) = {}
    BY DEF BytesOf
  <2> QED
    BY <2>1, FS_EmptySet DEF Ending, Accounts, NothingIsLeft
<1> QED
  BY <1>1, <1>2, <1>3, InitIInv, StepIInv, SchedulingInvariant, AccountsInvariant, PTL DEF Spec

-----------------------------------------------------------------------------
(* The collector implements the abstract memory.                             *)

LEMMA LiveIn ==
  ASSUME NEW T \in SUBSET Objects, (Origins \cup Temporaries)' \subseteq T, Closed(children', T)
  PROVE  Live' \subseteq T
BY ReachableIsLeast DEF Live

(* Storing, rooting and dropping give the program nothing it could not get   *)
(* at before; allocating gives it the new objects.                           *)
LEMMA MutatorSteps ==
  ASSUME IInv, Mutator
  PROVE  Memory!Next
<1> USE DEF memory, collector, held, queue
<1>1. TypeOK /\ Stored /\ HeapIsClosed /\ pc = "callback"
  BY DEF IInv, Mutator, Allocate, Store, Erase, AddRoot, Assign, RemoveRoot, SetTimer, ClearTimer
<1>2. pc' = pc /\ HeapView = heap /\ HeapView' = heap'
  BY <1>1 DEF Mutator, Allocate, Store, Erase, AddRoot, Assign, RemoveRoot, SetTimer, ClearTimer,
              HeapView
<1>3. /\ Origins \subseteq Live /\ Temporaries \subseteq Live
      /\ Closed(children, Live) /\ Live \in SUBSET Objects
  BY <1>1, ReachFacts, ReachableIsSubset DEF Live
<1>4. RootObjects \subseteq Live /\ timers \cap active \subseteq Live
  BY <1>3 DEF Origins, Temporaries
<1>5. ASSUME NEW o \in Objects, Allocate(o) PROVE Memory!Run
  <2>1. o \notin heap /\ heap' = heap \cup {o} /\ stack' = stack \cup {o}
        /\ UNCHANGED <<children, slot, roots, timers, active, frames>>
    BY <1>5 DEF Allocate, AllocateMemory
  <2>2. (Origins \cup Temporaries)' \subseteq Live \cup {o}
    BY <1>3, <2>1 DEF Origins, RootObjects, Temporaries
  <2>3. Closed(children', Live \cup {o})
    BY <1>1, <1>3, <2>1 DEF Closed, Stored
  <2>4. Live' \subseteq Live \cup {o}
    BY <1>3, <2>2, <2>3, LiveIn
  <2> QED
    BY <1>2, <2>1, <2>4 DEF Memory!Run
<1>6. ASSUME NEW t \in Objects, NEW c \in Objects, NEW n \in Objects, SetTimer(t, c, n)
      PROVE  Memory!Run
  <2>1. /\ t \notin heap /\ n \notin heap /\ n # t /\ c \in Live /\ heap' = heap \cup {t, n}
        /\ stack' = stack \cup {n} /\ children' = [children EXCEPT ![t] = {c}]
        /\ timers' = timers \cup {t} /\ active' = active \cup {t}
        /\ UNCHANGED <<slot, roots, frames>>
    BY <1>6 DEF SetTimer, AllocateMemory
  <2>2. \A x \in Objects : children'[x] = IF x = t THEN {c} ELSE children[x]
    BY <1>1, <2>1 DEF TypeOK
  <2>3. (Origins \cup Temporaries)' \subseteq Live \cup {t, n}
    BY <1>1, <1>3, <1>4, <2>1 DEF Origins, RootObjects, Stored, Temporaries
  <2>4. Closed(children', Live \cup {t, n})
    BY <1>1, <1>3, <2>1, <2>2 DEF Closed, Stored
  <2>5. Live' \subseteq Live \cup {t, n}
    BY <1>3, <2>3, <2>4, LiveIn
  <2> QED
    BY <1>2, <2>1, <2>5 DEF Memory!Run
<1>7. ASSUME UNCHANGED heap, (Origins \cup Temporaries)' \subseteq Live, Closed(children', Live)
      PROVE  Memory!Run
  <2>1. Live' \subseteq Live
    BY <1>3, <1>7, LiveIn
  <2> QED
    BY <1>2, <1>7, <2>1 DEF Memory!Run
<1>8. ASSUME NEW o \in Objects, NEW p \in Objects, Store(o, p) PROVE Memory!Run
  <2>1. \A x \in Objects : children'[x] = IF x = o THEN children[o] \cup {p} ELSE children[x]
    BY <1>1, <1>8 DEF Store, TypeOK
  <2>2. Closed(children', Live)
    BY <1>3, <1>8, <2>1 DEF Store, Closed
  <2> QED
    BY <1>3, <1>7, <1>8, <2>2 DEF Store, Origins, RootObjects, Temporaries
<1>9. ASSUME NEW o \in Objects, NEW p \in Objects, Erase(o, p) PROVE Memory!Run
  <2>1. \A x \in Objects : children'[x] = IF x = o THEN children[o] \ {p} ELSE children[x]
    BY <1>1, <1>9 DEF Erase, TypeOK
  <2>2. Closed(children', Live) /\ p \in Live
    BY <1>3, <1>9, <2>1 DEF Erase, Closed
  <2> QED
    BY <1>3, <1>7, <1>9, <2>2 DEF Erase, Origins, RootObjects, Temporaries
<1>10. ASSUME NEW r \in Roots, NEW v \in Objects \cup {Null}, AddRoot(r, v) \/ Assign(r, v)
       PROVE  Memory!Run
  <2>1. \A x \in Roots : slot'[x] = IF x = r THEN v ELSE slot[x]
    BY <1>1, <1>10 DEF AddRoot, Assign, TypeOK
  <2>2. /\ v \in Live \cup {Null} /\ roots' = roots \cup {r} /\ roots \subseteq Roots
        /\ stack' \subseteq stack \cup RootObjects
        /\ UNCHANGED <<heap, children, timers, active, frames>>
    BY <1>1, <1>10 DEF AddRoot, Assign, RootObjects, TypeOK
  <2>3. RootObjects' \subseteq Live
    BY <1>4, <2>1, <2>2 DEF RootObjects
  <2> QED
    BY <1>3, <1>4, <1>7, <2>2, <2>3 DEF Origins, Temporaries
<1>11. ASSUME NEW r \in Roots, RemoveRoot(r) PROVE Memory!Run
  <2>1. \A x \in Roots : x # r => slot'[x] = slot[x]
    BY <1>1, <1>11 DEF RemoveRoot, TypeOK
  <2>2. /\ roots' = roots \ {r} /\ roots \subseteq Roots
        /\ stack' \subseteq stack \cup RootObjects
        /\ UNCHANGED <<heap, children, timers, active, frames>>
    BY <1>1, <1>11 DEF RemoveRoot, RootObjects, TypeOK
  <2>3. RootObjects' \subseteq RootObjects
    BY <2>1, <2>2 DEF RootObjects
  <2> QED
    BY <1>3, <1>4, <1>7, <2>2, <2>3 DEF Origins, Temporaries
<1>12. ASSUME NEW t \in TimerObjects, ClearTimer(t) PROVE Memory!Run
  BY <1>3, <1>4, <1>7, <1>12 DEF ClearTimer, Origins, RootObjects, Temporaries
<1> QED
  BY <1>5, <1>6, <1>8, <1>9, <1>10, <1>11, <1>12 DEF Mutator, Memory!Next

(* Up to the end of marking the heap stays as it is and nothing comes back.  *)
LEMMA QuietSteps ==
  ASSUME IInv,
         \/ Loop \/ EndCallback \/ PopCollection \/ CollectNow \/ RunScheduledCollect
         \/ MarkRoots \/ (\E t \in TimerObjects : MarkTimer(t))
         \/ (\E r \in Roots : MarkRoot(r)) \/ (\E o \in Objects : Visit(o))
  PROVE  Memory!Next
<1> USE DEF memory, collector, program, held, queue
<1>1. TypeOK /\ Sweeping
  BY DEF IInv
<1>2. pc # "sweep" /\ pc' # "sweep" /\ UNCHANGED <<heap, children, slot>>
  BY <1>1 DEF Sweeping, Loop, EndCallback, PopCollection, CollectNow, RunScheduledCollect,
              StartCallback, FireTimer, EnterLoop, LeaveLoop, Destroy, BeginCollect, MarkRoots,
              MarkTimer, MarkRoot, Visit
<1>3. HeapView' = HeapView
  BY <1>2 DEF HeapView
<1>4. /\ Origins \subseteq Live /\ Temporaries \subseteq Live
      /\ Closed(children, Live) /\ Live \in SUBSET Objects
  BY <1>1, ReachFacts, ReachableIsSubset DEF Live
<1>5. /\ roots' \subseteq roots /\ timers' \cap active' \subseteq timers \cap active
  BY DEF Loop, EndCallback, PopCollection, CollectNow, RunScheduledCollect, StartCallback,
         FireTimer, EnterLoop, LeaveLoop, Destroy, BeginCollect, MarkRoots, MarkTimer, MarkRoot,
         Visit
<1>6. Temporaries' \subseteq Live
  <2>1. ASSUME NEW t \in TimerObjects, FireTimer(t) PROVE Temporaries' \subseteq Live
    <3>1. t \in Live
      BY <1>4, <2>1 DEF FireTimer, Origins, IInv, Stored
    <3>2. stack' \subseteq Live
      BY <1>4, <2>1, <3>1 DEF FireTimer, Closed
    <3> QED
      BY <1>4, <2>1, <3>2 DEF FireTimer, Temporaries
  <2>2. CASE EnterLoop
    BY <1>1, <1>4, <2>2, EnterTemporaries
  <2>3. CASE LeaveLoop
    BY <1>1, <1>4, <2>3, LeaveTemporaries
  <2>4. CASE ~ (EnterLoop \/ LeaveLoop \/ \E t \in TimerObjects : FireTimer(t))
    <3>1. stack' \subseteq stack /\ frames' = frames
      BY <2>4 DEF Loop, EndCallback, PopCollection, CollectNow, RunScheduledCollect,
                  StartCallback, Destroy, BeginCollect, MarkRoots, MarkTimer, MarkRoot, Visit
    <3> QED
      BY <1>4, <3>1 DEF Temporaries
  <2> QED
    BY <2>1, <2>2, <2>3, <2>4
<1>7. Origins' \subseteq Live
  BY <1>2, <1>4, <1>5 DEF Origins, RootObjects
<1>8. Live' \subseteq Live
  BY <1>2, <1>4, <1>6, <1>7, LiveIn
<1> QED
  BY <1>3, <1>8 DEF Memory!Next, Memory!Run

(* While a collection runs that no callback waits for there is no callback:  *)
(* roots and timers are all the program has.                                 *)
LEMMA NobodyHolds ==
  ASSUME IInv, pc \in Phases, ~Waiting
  PROVE  Live = Reach
<1>1. frames = <<>> /\ stack = {}
  BY DEF Waiting, IInv, Idle
<1>2. Temporaries = {}
  BY <1>1 DEF Temporaries
<1> QED
  BY <1>2 DEF Live, Reach

(* Marking over, the abstract heap becomes what roots and timers keep; the   *)
(* rest of the collection, which deletes the other objects, does not change  *)
(* it.                                                                       *)
LEMMA SweepSteps ==
  ASSUME IInv, Sweep \/ (\E o \in Objects : SweepObject(o)) \/ EndCollect
  PROVE  Memory!Next
<1> USE DEF memory, program, held, queue
<1>1. TypeOK /\ Sweeping
  BY DEF IInv
<1>2. /\ Origins \subseteq Live /\ Temporaries \subseteq Live /\ Reach \subseteq Live
      /\ Closed(children, Live) /\ Live \in SUBSET Objects
  BY <1>1, ReachFacts, ReachableIsSubset DEF Live
<1>3. ASSUME Sweep PROVE Memory!Collect
  <2>1. /\ pc = "markroots" /\ grey = {} /\ todo = {} /\ pc' = "sweep"
        /\ UNCHANGED <<heap, marked, children, slot, roots, timers, active>>
    BY <1>3 DEF Sweep
  <2>2. marked = Reach /\ marked \subseteq heap
    BY <2>1, MarkedIsReach
  <2>3. HeapView' = Reach
    BY <2>1, <2>2 DEF HeapView
  <2>4. Reach' = Reach /\ Origins' = Origins
    BY <2>1 DEF Reach, Origins, RootObjects
  <2>5. Origins \subseteq Reach /\ Closed(children, Reach) /\ Reach \in SUBSET Objects
    BY <1>1, ReachFacts, ReachableIsSubset DEF Reach
  <2>6. Temporaries' \subseteq Reach
    BY <1>1, <1>3, <2>2, SweepTemporaries
  <2>7. Live' \subseteq Reach
    BY <2>1, <2>4, <2>5, <2>6, LiveIn
  <2>8. TypeOK'
    BY <1>1, <1>3, CollectorType DEF Collector
  <2>9. Reach' \subseteq Live'
    <3>1. TypeOK' => (Reach \subseteq Live)'
      BY ReachFacts, PTL
    <3> QED
      BY <2>8, <3>1
  <2>10. Waiting \/ Live = Reach
    BY <2>1, NobodyHolds DEF Phases
  <2> QED
    BY <1>2, <2>3, <2>4, <2>7, <2>9, <2>10 DEF Memory!Collect
<1>4. ASSUME NEW o \in Objects, SweepObject(o) PROVE Memory!Run
  <2>1. /\ pc = "sweep" /\ pc' = "sweep"
        /\ UNCHANGED <<slot, roots, timers, held, marked>>
    BY <1>4 DEF SweepObject
  <2>2. \/ o \in marked /\ UNCHANGED <<heap, children, active>>
        \/ /\ o \notin marked /\ heap' = heap \ {o} /\ active' = active \ {o}
           /\ children' = [children EXCEPT ![o] = {}]
    BY <1>4 DEF SweepObject, DeleteObject
  <2>3. HeapView' = HeapView
    BY <2>1, <2>2 DEF HeapView
  <2>4. \A x \in Objects : children'[x] \subseteq children[x]
    BY <1>1, <2>2 DEF TypeOK
  <2>5. (Origins \cup Temporaries)' \subseteq Live
    BY <1>2, <2>1, <2>2 DEF Origins, RootObjects, Temporaries
  <2>6. Closed(children', Live)
    BY <1>2, <2>4 DEF Closed
  <2> QED
    BY <1>2, <2>3, <2>5, <2>6, LiveIn DEF Memory!Run
<1>5. ASSUME EndCollect PROVE Memory!Run
  <2>1. /\ pc = "sweep" /\ pc' = caller /\ todo = {}
        /\ UNCHANGED <<heap, children, slot, roots, timers, active, held>>
    BY <1>5 DEF EndCollect
  <2>2. pc' # "sweep"
    BY <1>1, <2>1 DEF TypeOK
  <2>3. HeapView' = HeapView
    BY <1>1, <2>1, <2>2 DEF Sweeping, HeapView
  <2>4. Live' = Live
    BY <2>1 DEF Live, Origins, RootObjects, Temporaries
  <2> QED
    BY <2>3, <2>4 DEF Memory!Run
<1> QED
  BY <1>3, <1>4, <1>5 DEF Memory!Next

(* The collector implements the abstract memory, for every instance.         *)
THEOREM Refinement == Spec => ImplementsMemory
<1>1. Init => Memory!Init
  <2> SUFFICES ASSUME Init PROVE HeapView = {} /\ Live = {} /\ Reach = {} /\ Waiting = FALSE
    BY DEF Memory!Init
  <2>1. HeapView = {} /\ Waiting = FALSE
    BY DEF Init, HeapView, Waiting, Phases
  <2>2. TypeOK /\ Stored /\ HeapIsClosed /\ pc # "sweep" /\ heap = {}
    BY InitIInv DEF Init, IInv
  <2>3. Live \subseteq heap /\ Reach \subseteq Live
    BY <2>2, LiveInClosedHeap, ReachFacts
  <2> QED
    BY <2>1, <2>2, <2>3
<1>2. IInv /\ [Next]_vars => [Memory!Next]_(Memory!vars)
  <2> SUFFICES ASSUME IInv, [Next]_vars
               PROVE  Memory!Next \/ UNCHANGED Memory!vars
    OBVIOUS
  <2>1. CASE UNCHANGED vars
    BY <2>1 DEF vars, Memory!vars, HeapView, Live, Reach, Origins, RootObjects, Temporaries,
                Waiting
  <2>2. CASE Next
    BY <2>2, MutatorSteps, QuietSteps, SweepSteps DEF Next, Collector
  <2> QED
    BY <2>1, <2>2
<1> QED
  BY <1>1, <1>2, InitIInv, StepIInv, PTL DEF Spec, ImplementsMemory, Memory!Spec
===============================================================================
