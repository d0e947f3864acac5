----------------------------- MODULE GCProperties -----------------------------
(***************************************************************************)
(* What has to be true of the collector.                                   *)
(***************************************************************************)
EXTENDS GC

(* No object the program can get at, through roots, timers or temporaries,   *)
(* is ever freed: sweep() deletes garbage only, whatever ran before it.      *)
(* Temporaries that nothing keeps count until a collection begins to sweep   *)
(* while their callback waits; that no other collection can touch them is    *)
(* part of ImplementsMemory.                                                 *)
NoUseAfterFree == Live \subseteq heap

(* Every reference in the timer storage is to an object of the heap, and     *)
(* every timer libuv may fire is in the storage, which keeps it alive: the   *)
(* callback of a timer never runs on a freed TimerObject.                    *)
TimersAreAlive ==
  /\ timers \subseteq heap
  /\ active \subseteq timers

(* One element for every byte of the objects of S.                           *)
BytesOf(S) == UNION {{o} \X (1..SizeOf[o]) : o \in S}

(* The diagnostics agree with the heap: getCurrentAllocatedBytes(), which    *)
(* decides about collections, is the sum of the sizes of the heap's objects. *)
AccountingIsExact ==
  /\ {o \in Objects : table[o] # 0} = heap
  /\ bytes = Cardinality(BytesOf(heap))

(* As long as the loop lives, _collectScheduled tells whether one collection *)
(* waits in the queue or is running from it: there are never two of them,    *)
(* and the flag stays set with no collection to come only after a callback   *)
(* of the queue that had run the loop made the queue pop it.                 *)
OneCollectionAtATime ==
  caller # "destroyed" /\ pc # "destroyed" =>
    queued + (IF pc \in Phases /\ caller = "loop" THEN 1 ELSE 0)
      = (IF scheduled /\ ~missed THEN 1 ELSE 0)

(* When Runtime::destroy returns, every object and every timer is gone.      *)
NothingIsLeft ==
  pc = "destroyed" => heap = {} /\ timers = {} /\ active = {} /\ bytes = 0

(* A collection takes effect when sweeping begins: from then on the unmarked *)
(* objects are gone.                                                         *)
HeapView == IF pc = "sweep" THEN heap \cap marked ELSE heap

(* A callback waits for collect() or for the loop.                           *)
Waiting == frames # <<>> \/ (pc \in Phases /\ caller = "callback")

Memory == INSTANCE ManagedMemory
            WITH heap <- HeapView, live <- Live, kept <- Reach, waiting <- Waiting

(* The collector implements the abstract memory: the program loses no object *)
(* it can get at, but for the temporaries of callbacks that wait, gets back  *)
(* no object it lost, and a collection leaves exactly the objects that roots *)
(* and timers keep.                                                          *)
ImplementsMemory == Memory!Spec

(* Garbage is freed: an object lost while a collection is scheduled leaves   *)
(* the heap, because the collection runs in the end, unless the queue popped *)
(* it: then none is ever scheduled again.                                    *)
GarbageIsFreed ==
  \A o \in Objects : scheduled /\ o \in heap \ Live ~> o \notin heap \/ missed
===============================================================================
