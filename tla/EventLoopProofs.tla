--------------------------- MODULE EventLoopProofs ----------------------------
(***************************************************************************)
(* Proofs about the event loop, for any callbacks, timers and depth.       *)
(*                                                                         *)
(* The arguments are about the C++ stack: a step enters a frame, leaves    *)
(* the innermost one or moves it on, and lemmas say what that does to      *)
(* frames.  The first part holds whatever the callbacks do; that the queue *)
(* implements CallbackQueue needs that none of them runs the loop.         *)
(***************************************************************************)
EXTENDS EventLoopProperties, TLAPS

(* ---------------------------- the stack -------------------------------- *)

(* Pushing an element in front of a sequence.                                *)
LEMMA PushFacts ==
  ASSUME NEW S, NEW s \in Seq(S), NEW f \in S
  PROVE  LET r == <<f>> \o s
         IN /\ r \in Seq(S) /\ r # <<>>
            /\ Len(r) = Len(s) + 1
            /\ Head(r) = f /\ r[1] = f
            /\ \A i \in 1..Len(s) : r[i + 1] = s[i]
  OBVIOUS

(* Popping the first element.                                                *)
LEMMA PopFacts ==
  ASSUME NEW S, NEW s \in Seq(S), s # <<>>
  PROVE  /\ Tail(s) \in Seq(S)
         /\ Len(s) \in Nat \ {0} /\ Len(Tail(s)) = Len(s) - 1
         /\ Head(s) = s[1] /\ s[1] \in S
         /\ \A i \in 1..Len(Tail(s)) : Tail(s)[i] = s[i + 1]
  OBVIOUS

(* Which frames there are.                                                   *)
LEMMA FrameFacts ==
  /\ \A k \in RunKinds, p \in RunPhases : [kind |-> k, at |-> p] \in Frame
  /\ \A c \in Callbacks : [kind |-> "reaction", at |-> c] \in Frame
  /\ \A t \in Timers : [kind |-> "timer", at |-> t] \in Frame
  /\ \A f \in Frame :
       /\ f.kind \in RunKinds => f.at \in RunPhases
       /\ f.kind = "reaction" => f.at \in Callbacks
       /\ f.kind = "timer" => f.at \in Timers
  BY DEF Frame, RunKinds, RunPhases

LEMMA MovedFrame ==
  ASSUME NEW f \in Frame, f.kind \in RunKinds, NEW p \in RunPhases
  PROVE  /\ [f EXCEPT !.at = p] \in Frame
         /\ [f EXCEPT !.at = p].kind = f.kind
         /\ [f EXCEPT !.at = p].at = p
  BY DEF Frame, RunKinds, RunPhases

(* A frame is entered.                                                       *)
LEMMA EnterStack ==
  ASSUME frames \in Seq(Frame), NEW k, NEW a, [kind |-> k, at |-> a] \in Frame,
         Enter(k, a)
  PROVE  /\ frames' \in Seq(Frame) /\ frames' # <<>>
         /\ Len(frames) \in Nat /\ Len(frames') = Len(frames) + 1
         /\ frames'[1].kind = k /\ frames'[1].at = a
         /\ Top' = frames'[1]
         /\ \A i \in 1..Len(frames) : frames'[i + 1] = frames[i]
  <1>1. frames' = <<[kind |-> k, at |-> a]>> \o frames
    BY DEF Enter
  <1>2. [kind |-> k, at |-> a].kind = k /\ [kind |-> k, at |-> a].at = a
    OBVIOUS
  <1>3. Len(frames) \in Nat
    OBVIOUS
  <1> QED BY <1>1, <1>2, <1>3, PushFacts DEF Top

(* The innermost frame is left.                                              *)
LEMMA LeaveStack ==
  ASSUME frames \in Seq(Frame), frames # <<>>, Leave
  PROVE  /\ frames' \in Seq(Frame)
         /\ Len(frames) \in Nat \ {0} /\ Len(frames') = Len(frames) - 1
         /\ Top = frames[1] /\ Top \in Frame
         /\ frames' # <<>> => Top' = frames'[1] /\ Len(frames') \in Nat \ {0}
         /\ \A i \in 1..Len(frames') : frames'[i] = frames[i + 1]
  <1>1. frames' = Tail(frames)
    BY DEF Leave
  <1>2. frames' \in Seq(Frame)
    BY <1>1, PopFacts
  <1>3. frames' # <<>> => Top' = frames'[1] /\ Len(frames') \in Nat \ {0}
    BY <1>2, PopFacts DEF Top
  <1> QED BY <1>1, <1>2, <1>3, PopFacts DEF Top

(* The innermost run goes on to another phase.                               *)
LEMMA GoToStack ==
  ASSUME frames \in Seq(Frame), frames # <<>>, Top.kind \in RunKinds,
         NEW p \in RunPhases, GoTo(p)
  PROVE  /\ frames' \in Seq(Frame) /\ frames' # <<>>
         /\ Len(frames) \in Nat \ {0} /\ Len(frames') = Len(frames)
         /\ Top = frames[1] /\ Top' = frames'[1]
         /\ frames'[1].kind = frames[1].kind /\ frames'[1].at = p
         /\ \A i \in 2..Len(frames) : frames'[i] = frames[i]
  <1> DEFINE f == [Top EXCEPT !.at = p]
             rest == Tail(frames)
  <1>1. frames' = <<f>> \o rest
    BY DEF GoTo
  <1>2. Top = frames[1] /\ Top \in Frame
    BY PopFacts DEF Top
  <1>3. f \in Frame /\ f.kind = Top.kind /\ f.at = p
    BY <1>2, MovedFrame
  <1>4. /\ rest \in Seq(Frame) /\ Len(frames) \in Nat \ {0}
        /\ Len(rest) = Len(frames) - 1
        /\ \A i \in 1..Len(rest) : rest[i] = frames[i + 1]
    BY PopFacts
  <1> HIDE DEF f, rest
  <1>5. /\ frames' \in Seq(Frame) /\ frames' # <<>>
        /\ Len(frames') = Len(rest) + 1
        /\ Head(frames') = f /\ frames'[1] = f
        /\ \A i \in 1..Len(rest) : frames'[i + 1] = rest[i]
    BY <1>1, <1>3, <1>4, PushFacts
  <1>6. \A i \in 2..Len(frames) : frames'[i] = frames[i]
    <2>1. SUFFICES ASSUME NEW i \in 2..Len(frames) PROVE frames'[i] = frames[i]
      OBVIOUS
    <2>2. i - 1 \in 1..Len(rest) /\ (i - 1) + 1 = i
      BY <1>4
    <2> QED BY <2>2, <1>4, <1>5
  <1> QED BY <1>2, <1>3, <1>4, <1>5, <1>6 DEF Top

LEMMA RunTop ==
  ASSUME NEW p, At(p)
  PROVE  frames # <<>> /\ Top.kind \in RunKinds /\ Top.at = p
  BY DEF At

(* The loop is run again, or is down.                                        *)
LEMMA CloseLoopCases ==
  ASSUME CloseLoop
  PROVE  \/ Alive /\ GoTo("head") /\ UNCHANGED <<queue, status>>
         \/ ~Alive /\ Leave /\ queue' = <<>> /\ status' = "down"
  <1>1. CASE Alive
    BY <1>1, Zenon DEF CloseLoop
  <1>2. CASE ~Alive
    BY <1>2, Zenon DEF CloseLoop
  <1> QED BY <1>1, <1>2

(* ------------------------------- types --------------------------------- *)

(* A step of the program.                                                    *)
ProgramStep ==
  \/ \E c \in Callbacks : Enqueue(c)
  \/ \E t \in Timers, when \in {"due", "waiting"} : StartTimer(t, when)
  \/ \E t \in Timers : StopTimer(t) \/ DropTimer(t)
  \/ Stop

(* The steps that leave the stack alone, enter a frame, leave one, go on.    *)
EnterStep ==
  \/ Run \/ ProcessEvents \/ Destroy \/ CallFront
  \/ \E t \in Timers : FireTimer(t)

LeaveStep == ReturnFromReaction \/ ReturnFromTimer \/ RunReturns

GoToStep ==
  \/ \E elapsed \in SUBSET Timers : BeginIteration(elapsed)
  \/ TimersDone \/ RunIdle \/ QueueDrained \/ CloseHandles

LEMMA StepKinds == Next <=> ProgramStep \/ EnterStep \/ LeaveStep \/ GoToStep \/ CloseLoop
  BY DEF Next, LoopStep, ProgramStep, EnterStep, LeaveStep, GoToStep

(* What EnterStep enters, and which phase GoToStep goes on to.               *)
LEMMA EnterStepEnters ==
  ASSUME TypeOK, EnterStep
  PROVE  \E k, a : /\ [kind |-> k, at |-> a] \in Frame /\ Enter(k, a)
                   /\ k = "default" => a = "head"
                   /\ k = "once" => Destroy
                   /\ k = "reaction" => CallFront
  <1> DEFINE Enters(k, a) == /\ [kind |-> k, at |-> a] \in Frame /\ Enter(k, a)
                             /\ k = "default" => a = "head"
                             /\ k = "once" => Destroy
                             /\ k = "reaction" => CallFront
  <1>1. ASSUME CallFront PROVE \E k, a : Enters(k, a)
    <2>1. Head(queue) \in Callbacks
      BY <1>1 DEF CallFront, TypeOK
    <2>2. Enters("reaction", Head(queue))
      BY <1>1, <2>1, FrameFacts DEF CallFront
    <2> QED BY <2>2
  <1>2. ASSUME Run PROVE \E k, a : Enters(k, a)
    <2>1. Enters("default", "head")
      BY <1>2, FrameFacts DEF Run, RunKinds, RunPhases
    <2> QED BY <2>1
  <1>3. ASSUME ProcessEvents PROVE \E k, a : Enters(k, a)
    <2>1. Enters("nowait", "head")
      BY <1>3, FrameFacts DEF ProcessEvents, RunKinds, RunPhases
    <2> QED BY <2>1
  <1>4. ASSUME Destroy PROVE \E k, a : Enters(k, a)
    <2>1. Enters("once", "head")
      BY <1>4, FrameFacts DEF Destroy, RunKinds, RunPhases
    <2> QED BY <2>1
  <1>5. ASSUME NEW t \in Timers, FireTimer(t) PROVE \E k, a : Enters(k, a)
    <2>1. Enters("timer", t)
      BY <1>5, FrameFacts DEF FireTimer
    <2> QED BY <2>1
  <1> HIDE DEF Enters
  <1>6. \E k, a : Enters(k, a)
    BY <1>1, <1>2, <1>3, <1>4, <1>5 DEF EnterStep
  <1> QED BY <1>6 DEF Enters

LEMMA GoToStepMoves ==
  ASSUME GoToStep
  PROVE  /\ frames # <<>> /\ Top.kind \in RunKinds
         /\ \E p \in RunPhases :
              GoTo(p) /\ (p = "drain" => RunIdle /\ idle = "active")
  <1>1. frames # <<>> /\ Top.kind \in RunKinds
    BY RunTop DEF GoToStep, BeginIteration, TimersDone, RunIdle, QueueDrained, CloseHandles
  <1>2. CASE RunIdle
    BY <1>1, <1>2 DEF RunIdle, RunPhases
  <1>3. CASE ~RunIdle
    BY <1>1, <1>3 DEF GoToStep, BeginIteration, TimersDone, QueueDrained, CloseHandles,
                      RunPhases
  <1> QED BY <1>2, <1>3

(* Every frame that a step enters is a frame, and the stack stays one.       *)
LEMMA StackType ==
  ASSUME TypeOK, Next
  PROVE  frames' \in Seq(Frame)
  <1>0. frames \in Seq(Frame)
    BY DEF TypeOK
  <1>1. CASE ProgramStep
    BY <1>0, <1>1 DEF ProgramStep, Enqueue, StartTimer, StopTimer, DropTimer, Stop
  <1>2. CASE EnterStep
    BY <1>0, <1>2, EnterStepEnters, EnterStack
  <1>3. CASE LeaveStep
    BY <1>0, <1>3, LeaveStack, RunTop
    DEF LeaveStep, ReturnFromReaction, ReturnFromTimer, RunReturns, InReaction,
        InTimer, UvRunEnds
  <1>4. CASE GoToStep
    BY <1>0, <1>4, GoToStepMoves, GoToStack
  <1>5. CASE CloseLoop
    <2>1. frames # <<>> /\ Top.kind \in RunKinds
      BY <1>5, RunTop DEF CloseLoop, UvRunEnds
    <2>2. Leave \/ GoTo("head")
      BY <1>5 DEF CloseLoop
    <2> QED BY <1>0, <2>1, <2>2, GoToStack, LeaveStack DEF RunPhases
  <1> QED BY <1>1, <1>2, <1>3, <1>4, <1>5, StepKinds

LEMMA TypeStep ==
  ASSUME TypeOK, [Next]_vars
  PROVE  TypeOK'
  <1>1. CASE UNCHANGED vars
    BY <1>1 DEF TypeOK, vars
  <1>2. CASE Next
    <2>1. frames' \in Seq(Frame)
      BY <1>2, StackType
    <2>2. CASE ProgramStep
      <3>1. ASSUME NEW c \in Callbacks, Enqueue(c) PROVE TypeOK'
        BY <2>1, <3>1 DEF TypeOK, Enqueue
      <3>2. ASSUME NEW t \in Timers, NEW when \in {"due", "waiting"}, StartTimer(t, when)
            PROVE  TypeOK'
        BY <2>1, <3>2 DEF TypeOK, StartTimer
      <3>3. ASSUME NEW t \in Timers, StopTimer(t) \/ DropTimer(t) PROVE TypeOK'
        BY <2>1, <3>3 DEF TypeOK, StopTimer, DropTimer
      <3>4. CASE Stop
        BY <2>1, <3>4 DEF TypeOK, Stop
      <3> QED BY <2>2, <3>1, <3>2, <3>3, <3>4 DEF ProgramStep
    <2>3. CASE EnterStep
      BY <2>1, <2>3 DEF TypeOK, EnterStep, Run, ProcessEvents, Destroy, CallFront,
                        FireTimer, Close
    <2>4. CASE LeaveStep
      <3>1. CASE ReturnFromReaction
        BY <2>1, <3>1 DEF TypeOK, ReturnFromReaction
      <3>2. CASE ReturnFromTimer
        BY <2>1, <3>2 DEF TypeOK, ReturnFromTimer
      <3>3. CASE RunReturns
        BY <2>1, <3>3 DEF TypeOK, RunReturns
      <3> QED BY <2>4, <3>1, <3>2, <3>3 DEF LeaveStep
    <2>5. CASE GoToStep
      BY <2>1, <2>5 DEF TypeOK, GoToStep, BeginIteration, TimersDone, RunIdle,
                        QueueDrained, CloseHandles
    <2>6. CASE CloseLoop
      <3>1. UNCHANGED <<idle, running, timer>> /\ stopFlag' = FALSE
        BY <2>6 DEF CloseLoop
      <3>2. UNCHANGED <<queue, status>> \/ (queue' = <<>> /\ status' = "down")
        BY <2>6, CloseLoopCases
      <3>3. queue' \in Seq(Callbacks) /\ status' \in {"up", "closing", "down"}
        <4>1. <<>> \in Seq(Callbacks)
          OBVIOUS
        <4> QED BY <3>2, <4>1 DEF TypeOK
      <3> QED BY <2>1, <3>1, <3>3 DEF TypeOK
    <2> QED BY <1>2, <2>2, <2>3, <2>4, <2>5, <2>6, StepKinds
  <1> QED BY <1>1, <1>2

(* Type correctness.                                                         *)
THEOREM TypeCorrect == Spec => []TypeOK
  <1>1. Init => TypeOK
    <2>1. <<>> \in Seq(Callbacks) /\ <<>> \in Seq(Frame)
      OBVIOUS
    <2> QED BY <2>1 DEF Init, TypeOK
  <1>2. TypeOK /\ [Next]_vars => TypeOK'
    BY TypeStep
  <1> QED BY <1>1, <1>2, PTL DEF Spec

(* ---------------------------- the queue -------------------------------- *)

LEMMA ArmedStep ==
  ASSUME TypeOK, QueueIsArmed, [Next]_vars
  PROVE  QueueIsArmed'
  <1>1. CASE UNCHANGED vars
    BY <1>1 DEF QueueIsArmed, vars
  <1>2. CASE ProgramStep
    BY <1>2 DEF QueueIsArmed, ProgramStep, Enqueue, StartTimer, StopTimer, DropTimer, Stop
  <1>3. CASE EnterStep
    <2>1. CASE Destroy
      BY <2>1 DEF QueueIsArmed, Destroy
    <2>2. UNCHANGED <<queue, idle, status>> \/ Destroy
      BY <1>3 DEF EnterStep, Run, ProcessEvents, CallFront, FireTimer
    <2> QED BY <2>1, <2>2 DEF QueueIsArmed
  <1>4. CASE LeaveStep
    <2>1. UNCHANGED <<idle, status>>
      BY <1>4 DEF LeaveStep, ReturnFromReaction, ReturnFromTimer, RunReturns
    <2>2. queue' # <<>> => queue # <<>>
      BY <1>4 DEF LeaveStep, ReturnFromReaction, ReturnFromTimer, RunReturns
    <2> QED BY <2>1, <2>2 DEF QueueIsArmed
  <1>5. CASE GoToStep
    <2>1. UNCHANGED <<queue, status>>
      BY <1>5 DEF GoToStep, BeginIteration, TimersDone, RunIdle, QueueDrained, CloseHandles
    <2>2. queue # <<>> /\ idle = "active" => idle' = "active"
      BY <1>5 DEF GoToStep, BeginIteration, TimersDone, RunIdle, QueueDrained, CloseHandles
    <2> QED BY <2>1, <2>2 DEF QueueIsArmed
  <1>6. CASE CloseLoop
    <2>1. idle' = idle
      BY <1>6 DEF CloseLoop
    <2> QED BY <1>6, <2>1, CloseLoopCases DEF QueueIsArmed
  <1> QED BY <1>1, <1>2, <1>3, <1>4, <1>5, <1>6, StepKinds

(* No wake-up is lost: whatever nests in whatever, a callback in the queue   *)
(* finds the idle handle active.                                             *)
THEOREM NoLostWakeUp == Spec => []QueueIsArmed
  <1>1. Init => QueueIsArmed
    BY DEF Init, QueueIsArmed
  <1>2. TypeOK /\ QueueIsArmed /\ [Next]_vars => QueueIsArmed'
    BY ArmedStep
  <1> QED BY <1>1, <1>2, TypeCorrect, PTL DEF Spec

(* ----------------------------- nesting --------------------------------- *)

LEMMA RunningStep ==
  ASSUME TypeOK, RunningMeansInsideRun, [Next]_vars
  PROVE  RunningMeansInsideRun'
  <1>0. frames \in Seq(Frame)
    BY DEF TypeOK
  <1>1. CASE UNCHANGED vars
    BY <1>1 DEF RunningMeansInsideRun, vars
  <1>2. CASE ProgramStep
    <2>1. frames' = frames /\ (running' => running)
      BY <1>2 DEF ProgramStep, Enqueue, StartTimer, StopTimer, DropTimer, Stop
    <2> QED BY <2>1 DEF RunningMeansInsideRun
  <1>3. CASE EnterStep
    <2>1. CASE Run
      <3>1. /\ Len(frames) \in Nat /\ Len(frames') = Len(frames) + 1
            /\ frames'[1].kind = "default"
        BY <1>0, <2>1, FrameFacts, EnterStack DEF Run, RunKinds, RunPhases
      <3>2. 1 \in 1..Len(frames')
        BY <3>1
      <3> QED BY <3>1, <3>2 DEF RunningMeansInsideRun
    <2>2. CASE ~Run
      <3>1. running' => running
        BY <1>3, <2>2 DEF EnterStep, ProcessEvents, Destroy, CallFront, FireTimer
      <3>2. PICK k, a : [kind |-> k, at |-> a] \in Frame /\ Enter(k, a)
        BY <1>3, EnterStepEnters
      <3>3. /\ Len(frames) \in Nat /\ Len(frames') = Len(frames) + 1
            /\ \A i \in 1..Len(frames) : frames'[i + 1] = frames[i]
        BY <1>0, <3>2, EnterStack
      <3>4. ASSUME running'
            PROVE  \E i \in 1..Len(frames') : frames'[i].kind = "default"
        <4>1. PICK i \in 1..Len(frames) : frames[i].kind = "default"
          BY <3>1, <3>4 DEF RunningMeansInsideRun
        <4>2. i + 1 \in 1..Len(frames') /\ frames'[i + 1].kind = "default"
          BY <3>3, <4>1
        <4> QED BY <4>2
      <3> QED BY <3>4 DEF RunningMeansInsideRun
    <2> QED BY <2>1, <2>2
  <1>4. ASSUME Leave, frames # <<>>, running' => running, running' => Top.kind # "default"
        PROVE  RunningMeansInsideRun'
    <2>1. /\ Len(frames) \in Nat \ {0} /\ Len(frames') = Len(frames) - 1
          /\ Top = frames[1]
          /\ \A i \in 1..Len(frames') : frames'[i] = frames[i + 1]
      BY <1>0, <1>4, LeaveStack
    <2>2. ASSUME running'
          PROVE  \E i \in 1..Len(frames') : frames'[i].kind = "default"
      <3>1. PICK i \in 1..Len(frames) : frames[i].kind = "default"
        BY <1>4, <2>2 DEF RunningMeansInsideRun
      <3>2. i # 1
        BY <1>4, <2>1, <2>2, <3>1
      <3>3. i - 1 \in 1..Len(frames') /\ (i - 1) + 1 = i
        BY <2>1, <3>1, <3>2
      <3> QED BY <2>1, <3>1, <3>3
    <2> QED BY <2>2 DEF RunningMeansInsideRun
  <1>5. CASE LeaveStep
    <2>1. CASE RunReturns
      <3>1. Leave /\ frames # <<>>
        BY <2>1, RunTop DEF RunReturns, UvRunEnds
      <3>2. (running' => running) /\ (running' => Top.kind # "default")
        BY <2>1, Zenon DEF RunReturns
      <3> QED BY <1>4, <3>1, <3>2
    <2>2. CASE ReturnFromReaction \/ ReturnFromTimer
      BY <1>4, <2>2 DEF ReturnFromReaction, ReturnFromTimer, InReaction, InTimer
    <2> QED BY <1>5, <2>1, <2>2 DEF LeaveStep
  <1>6. ASSUME frames # <<>>, Top.kind \in RunKinds, NEW p \in RunPhases, GoTo(p),
               running' = running
        PROVE  RunningMeansInsideRun'
    <2>1. /\ Len(frames) \in Nat \ {0} /\ Len(frames') = Len(frames)
          /\ frames'[1].kind = frames[1].kind
          /\ \A i \in 2..Len(frames) : frames'[i] = frames[i]
      BY <1>0, <1>6, GoToStack
    <2>2. \A i \in 1..Len(frames) : frames'[i].kind = frames[i].kind
      BY <2>1
    <2> QED BY <1>6, <2>1, <2>2 DEF RunningMeansInsideRun
  <1>7. CASE GoToStep
    <2>1. running' = running
      BY <1>7 DEF GoToStep, BeginIteration, TimersDone, RunIdle, QueueDrained, CloseHandles
    <2> QED BY <1>6, <1>7, <2>1, GoToStepMoves
  <1>8. CASE CloseLoop
    <2>1. frames # <<>> /\ Top.kind \in RunKinds
      BY <1>8, RunTop DEF CloseLoop, UvRunEnds
    <2>2. Top.kind # "default" /\ running' = running
      BY <1>8 DEF CloseLoop
    <2>3. CASE Leave
      BY <1>4, <2>1, <2>2, <2>3
    <2>4. CASE GoTo("head")
      BY <1>6, <2>1, <2>2, <2>4 DEF RunPhases
    <2> QED BY <1>8, <2>3, <2>4, CloseLoopCases
  <1> QED BY <1>1, <1>2, <1>3, <1>5, <1>7, <1>8, StepKinds

(* isRunning() answers true only inside a call of run().                     *)
THEOREM RunningIsTrue == Spec => []RunningMeansInsideRun
  <1>1. Init => RunningMeansInsideRun
    BY DEF Init, RunningMeansInsideRun
  <1>2. TypeOK /\ RunningMeansInsideRun /\ [Next]_vars => RunningMeansInsideRun'
    BY RunningStep
  <1> QED BY <1>1, <1>2, TypeCorrect, PTL DEF Spec

(* ----------------------------- closing --------------------------------- *)

(* While the loop closes there are only the runs of closeLoop; they find no  *)
(* timer to fire and no active idle handle, so they never drain the queue.   *)
(* Before, there is none of them.                                            *)
Closing ==
  /\ status = "up" => \A i \in 1..Len(frames) : frames[i].kind # "once"
  /\ status # "up" =>
       /\ idle \in {"closing", "closed"}
       /\ \A t \in Timers : timer[t] \in {"none", "closing"}
       /\ \A i \in 1..Len(frames) : frames[i].kind = "once" /\ frames[i].at # "drain"

(* What they say of the innermost frame.                                     *)
LEMMA ClosingTop ==
  ASSUME TypeOK, Closing, frames # <<>>
  PROVE  /\ status = "up" => Top.kind # "once"
         /\ status # "up" => Top.kind = "once" /\ Top.at # "drain"
  <1>1. Len(frames) \in Nat \ {0} /\ Top = frames[1]
    BY PopFacts DEF Top, TypeOK
  <1> QED BY <1>1 DEF Closing

(* Up, a step keeps the loop up or is the destructor.                        *)
LEMMA UpStep ==
  ASSUME TypeOK, Closing, Next, status = "up", ~Destroy
  PROVE  status' = "up" /\ \A i \in 1..Len(frames') : frames'[i].kind # "once"
  <1>0. frames \in Seq(Frame) /\ \A i \in 1..Len(frames) : frames[i].kind # "once"
    BY DEF TypeOK, Closing
  <1>1. ~CloseLoop
    BY ClosingTop, RunTop DEF CloseLoop, UvRunEnds
  <1>2. CASE ProgramStep
    BY <1>0, <1>2 DEF ProgramStep, Enqueue, StartTimer, StopTimer, DropTimer, Stop
  <1>3. CASE EnterStep
    <2>1. status' = "up"
      BY <1>3 DEF EnterStep, Run, ProcessEvents, CallFront, FireTimer
    <2>2. PICK k, a : [kind |-> k, at |-> a] \in Frame /\ Enter(k, a) /\ k # "once"
      BY <1>3, EnterStepEnters
    <2>3. /\ Len(frames) \in Nat /\ Len(frames') = Len(frames) + 1
          /\ frames'[1].kind = k
          /\ \A i \in 1..Len(frames) : frames'[i + 1] = frames[i]
      BY <1>0, <2>2, EnterStack
    <2>4. ASSUME NEW i \in 1..Len(frames') PROVE frames'[i].kind # "once"
      <3>1. CASE i = 1
        BY <2>2, <2>3, <3>1
      <3>2. CASE i # 1
        <4>1. i - 1 \in 1..Len(frames) /\ (i - 1) + 1 = i
          BY <2>3, <3>2
        <4> QED BY <1>0, <2>3, <4>1
      <3> QED BY <3>1, <3>2
    <2> QED BY <2>1, <2>4
  <1>4. CASE LeaveStep
    <2>1. status' = "up" /\ Leave /\ frames # <<>>
      BY <1>4, RunTop DEF LeaveStep, ReturnFromReaction, ReturnFromTimer, RunReturns,
                          InReaction, InTimer, UvRunEnds
    <2>2. /\ Len(frames) \in Nat \ {0} /\ Len(frames') = Len(frames) - 1
          /\ \A i \in 1..Len(frames') : frames'[i] = frames[i + 1]
      BY <1>0, <2>1, LeaveStack
    <2> QED BY <1>0, <2>1, <2>2
  <1>5. CASE GoToStep
    <2>1. status' = "up"
      BY <1>5 DEF GoToStep, BeginIteration, TimersDone, RunIdle, QueueDrained, CloseHandles
    <2>2. /\ Len(frames) \in Nat \ {0} /\ Len(frames') = Len(frames)
          /\ frames'[1].kind = frames[1].kind
          /\ \A i \in 2..Len(frames) : frames'[i] = frames[i]
      BY <1>0, <1>5, GoToStepMoves, GoToStack
    <2> QED BY <1>0, <2>1, <2>2
  <1> QED BY <1>1, <1>2, <1>3, <1>4, <1>5, StepKinds

(* Not up, a step goes on inside closeLoop.                                  *)
LEMMA ClosingSteps ==
  ASSUME TypeOK, Closing, Next, status # "up"
  PROVE  CloseLoop \/ (GoToStep /\ ~QueueDrained)
  <1>1. ~ProgramStep
    BY DEF ProgramStep, Enqueue, StartTimer, StopTimer, DropTimer, Stop, InProgram
  <1>2. ~EnterStep
    BY ClosingTop DEF EnterStep, Run, ProcessEvents, Destroy, CallFront, FireTimer,
                      MayEnter, InProgram, At, Closing
  <1>3. ~LeaveStep
    BY ClosingTop, RunTop DEF LeaveStep, ReturnFromReaction, ReturnFromTimer, RunReturns,
                              InReaction, InTimer, UvRunEnds
  <1>4. ~QueueDrained
    BY ClosingTop DEF QueueDrained, At
  <1> QED BY <1>1, <1>2, <1>3, <1>4, StepKinds

LEMMA ClosingStep ==
  ASSUME TypeOK, Closing, [Next]_vars
  PROVE  Closing'
  <1>0. frames \in Seq(Frame)
    BY DEF TypeOK
  <1>1. CASE UNCHANGED vars
    BY <1>1 DEF Closing, vars
  <1>2. CASE Next /\ status = "up" /\ ~Destroy
    BY <1>2, UpStep DEF Closing
  <1>3. CASE Destroy
    <2>1. /\ Len(frames) \in Nat /\ Len(frames') = Len(frames) + 1
          /\ frames'[1].kind = "once" /\ frames'[1].at = "head"
      BY <1>0, <1>3, FrameFacts, EnterStack DEF Destroy, RunKinds, RunPhases
    <2>2. Len(frames) = 0
      BY <1>3 DEF Destroy
    <2>3. \A i \in 1..Len(frames') : frames'[i].kind = "once" /\ frames'[i].at # "drain"
      BY <2>1, <2>2
    <2>4. \A t \in Timers : timer'[t] \in {"none", "closing"}
      BY <1>3 DEF Destroy, Close
    <2> QED BY <1>3, <2>3, <2>4 DEF Destroy, Closing
  <1>4. CASE Next /\ status # "up"
    <2>1. /\ idle \in {"closing", "closed"}
          /\ \A t \in Timers : timer[t] \in {"none", "closing"}
          /\ \A i \in 1..Len(frames) : frames[i].kind = "once" /\ frames[i].at # "drain"
      BY <1>4 DEF Closing
    <2>2. CASE GoToStep /\ ~QueueDrained
      <3>1. PICK p \in RunPhases : GoTo(p) /\ p # "drain"
        BY <2>1, <2>2, GoToStepMoves
      <3>2. /\ Len(frames) \in Nat \ {0} /\ Len(frames') = Len(frames)
            /\ frames'[1].kind = frames[1].kind /\ frames'[1].at = p
            /\ \A i \in 2..Len(frames) : frames'[i] = frames[i]
        BY <1>0, <2>2, <3>1, GoToStepMoves, GoToStack
      <3>3. \A i \in 1..Len(frames') : frames'[i].kind = "once" /\ frames'[i].at # "drain"
        BY <2>1, <3>1, <3>2
      <3>4. status' = status /\ idle' \in {"closing", "closed"}
        BY <2>1, <2>2 DEF GoToStep, BeginIteration, TimersDone, RunIdle, CloseHandles
      <3>5. \A t \in Timers : timer'[t] \in {"none", "closing"}
        BY <2>1, <2>2 DEF GoToStep, BeginIteration, TimersDone, RunIdle, CloseHandles
      <3> QED BY <1>4, <3>3, <3>4, <3>5 DEF Closing
    <2>3. CASE CloseLoop
      <3>1. UNCHANGED <<idle, timer>>
        BY <2>3 DEF CloseLoop
      <3>2. frames # <<>> /\ Top.kind \in RunKinds
        BY <2>3, RunTop DEF CloseLoop, UvRunEnds
      <3>3. status' # "up"
        BY <1>4, <2>3, CloseLoopCases
      <3>4. \A i \in 1..Len(frames') : frames'[i].kind = "once" /\ frames'[i].at # "drain"
        <4>1. CASE Leave
          <5>1. /\ Len(frames) \in Nat \ {0} /\ Len(frames') = Len(frames) - 1
                /\ \A i \in 1..Len(frames') : frames'[i] = frames[i + 1]
            BY <1>0, <3>2, <4>1, LeaveStack
          <5> QED BY <2>1, <5>1
        <4>2. CASE GoTo("head")
          <5>1. /\ Len(frames) \in Nat \ {0} /\ Len(frames') = Len(frames)
                /\ frames'[1].kind = frames[1].kind /\ frames'[1].at = "head"
                /\ \A i \in 2..Len(frames) : frames'[i] = frames[i]
            BY <1>0, <3>2, <4>2, GoToStack DEF RunPhases
          <5> QED BY <2>1, <5>1
        <4> QED BY <2>3, <4>1, <4>2, CloseLoopCases
      <3> QED BY <2>1, <3>1, <3>3, <3>4 DEF Closing
    <2> QED BY <1>4, <2>2, <2>3, ClosingSteps
  <1> QED BY <1>1, <1>2, <1>3, <1>4

LEMMA ClosingInvariant == Spec => []Closing
  <1>1. Init => Closing
    BY DEF Init, Closing
  <1>2. TypeOK /\ Closing /\ [Next]_vars => Closing'
    BY ClosingStep
  <1> QED BY <1>1, <1>2, TypeCorrect, PTL DEF Spec

(* Closing the loop does not call back into the program.                     *)
THEOREM ClosingIsQuiet == Spec => []NoCallbackWhileClosing
  <1>1. Closing => NoCallbackWhileClosing
    BY DEF Closing, NoCallbackWhileClosing
  <1> QED BY <1>1, ClosingInvariant, PTL

LEMMA ClosedStep ==
  ASSUME TypeOK, Closing, ClosedAtTheEnd, [Next]_vars
  PROVE  ClosedAtTheEnd'
  <1>1. CASE UNCHANGED vars
    BY <1>1 DEF ClosedAtTheEnd, vars
  <1>2. CASE Next /\ status = "up"
    <2>1. CASE Destroy
      BY <2>1 DEF Destroy, ClosedAtTheEnd
    <2>2. CASE ~Destroy
      BY <1>2, <2>2, UpStep DEF ClosedAtTheEnd
    <2> QED BY <2>1, <2>2
  <1>3. CASE CloseLoop /\ status # "up"
    <2>1. UNCHANGED <<idle, timer>>
      BY <1>3 DEF CloseLoop
    <2>2. ~Alive => idle = "closed" /\ \A t \in Timers : timer[t] = "none"
      BY <1>3 DEF Alive, Closing
    <2> QED BY <1>3, <2>1, <2>2, CloseLoopCases DEF ClosedAtTheEnd
  <1>4. CASE GoToStep /\ ~QueueDrained
    <2>1. status' = status /\ (idle = "closed" => idle' = "closed")
      BY <1>4 DEF GoToStep, BeginIteration, TimersDone, RunIdle, CloseHandles
    <2>2. \A t \in Timers : timer[t] = "none" => timer'[t] = "none"
      BY <1>4 DEF GoToStep, BeginIteration, TimersDone, RunIdle, CloseHandles
    <2> QED BY <2>1, <2>2 DEF ClosedAtTheEnd
  <1> QED BY <1>1, <1>2, <1>3, <1>4, ClosingSteps

(* The destructor leaves no handle open.                                     *)
THEOREM NothingStaysOpen == Spec => []ClosedAtTheEnd
  <1>1. Init => ClosedAtTheEnd
    BY DEF Init, ClosedAtTheEnd
  <1>2. TypeOK /\ Closing /\ ClosedAtTheEnd /\ [Next]_vars => ClosedAtTheEnd'
    BY ClosedStep
  <1> QED BY <1>1, <1>2, TypeCorrect, ClosingInvariant, PTL DEF Spec

(* ------------------------- what run() has done ------------------------- *)

(* A run of the default kind returns at the loop test, never in between.     *)
DefaultRunsOn ==
  \A i \in 1..Len(frames) : frames[i].kind = "default" => frames[i].at # "end"

LEMMA DefaultStep ==
  ASSUME TypeOK, DefaultRunsOn, [Next]_vars
  PROVE  DefaultRunsOn'
  <1>0. frames \in Seq(Frame)
    BY DEF TypeOK
  <1>1. CASE UNCHANGED vars
    BY <1>1 DEF DefaultRunsOn, vars
  <1>2. CASE ProgramStep
    BY <1>2 DEF ProgramStep, Enqueue, StartTimer, StopTimer, DropTimer, Stop, DefaultRunsOn
  <1>3. ASSUME NEW k, NEW a, [kind |-> k, at |-> a] \in Frame, Enter(k, a),
               k = "default" => a # "end"
        PROVE  DefaultRunsOn'
    <2>1. /\ Len(frames) \in Nat /\ Len(frames') = Len(frames) + 1
          /\ frames'[1].kind = k /\ frames'[1].at = a
          /\ \A i \in 1..Len(frames) : frames'[i + 1] = frames[i]
      BY <1>0, <1>3, EnterStack
    <2>2. ASSUME NEW i \in 1..Len(frames'), frames'[i].kind = "default"
          PROVE  frames'[i].at # "end"
      <3>1. CASE i = 1
        BY <1>3, <2>1, <2>2, <3>1
      <3>2. CASE i # 1
        <4>1. i - 1 \in 1..Len(frames) /\ (i - 1) + 1 = i
          BY <2>1, <3>2
        <4> QED BY <2>1, <2>2, <4>1 DEF DefaultRunsOn
      <3> QED BY <3>1, <3>2
    <2> QED BY <2>2 DEF DefaultRunsOn
  <1>4. CASE EnterStep
    BY <1>3, <1>4, EnterStepEnters
  <1>5. ASSUME Leave, frames # <<>> PROVE DefaultRunsOn'
    <2>1. /\ Len(frames) \in Nat \ {0} /\ Len(frames') = Len(frames) - 1
          /\ \A i \in 1..Len(frames') : frames'[i] = frames[i + 1]
      BY <1>0, <1>5, LeaveStack
    <2> QED BY <2>1 DEF DefaultRunsOn
  <1>6. CASE LeaveStep
    BY <1>5, <1>6, RunTop DEF LeaveStep, ReturnFromReaction, ReturnFromTimer, RunReturns,
                              InReaction, InTimer, UvRunEnds
  <1>7. ASSUME NEW p \in RunPhases, GoTo(p), frames # <<>>, Top.kind \in RunKinds,
               Top.kind = "default" => p # "end"
        PROVE  DefaultRunsOn'
    <2>1. /\ Len(frames) \in Nat \ {0} /\ Len(frames') = Len(frames)
          /\ Top = frames[1]
          /\ frames'[1].kind = frames[1].kind /\ frames'[1].at = p
          /\ \A i \in 2..Len(frames) : frames'[i] = frames[i]
      BY <1>0, <1>7, GoToStack
    <2> QED BY <1>7, <2>1 DEF DefaultRunsOn
  <1>8. CASE GoToStep
    <2>1. CASE CloseHandles
      BY <1>7, <2>1, RunTop DEF CloseHandles, RunPhases
    <2>2. CASE ~CloseHandles
      <3>1. \E p \in RunPhases : GoTo(p) /\ p # "end"
        BY <1>8, <2>2 DEF GoToStep, BeginIteration, TimersDone, RunIdle, QueueDrained,
                          RunPhases
      <3> QED BY <1>7, <1>8, <3>1, GoToStepMoves
    <2> QED BY <2>1, <2>2
  <1>9. CASE CloseLoop
    <2>1. frames # <<>> /\ Top.kind \in RunKinds
      BY <1>9, RunTop DEF CloseLoop, UvRunEnds
    <2> QED BY <1>5, <1>7, <1>9, <2>1, CloseLoopCases DEF RunPhases
  <1> QED BY <1>1, <1>2, <1>4, <1>6, <1>8, <1>9, StepKinds

(* A run() that nobody stopped returns only when there is nothing to do.     *)
THEOREM RunIsComplete == Spec => RunDoesAllWork
  <1>1. Init => DefaultRunsOn
    BY DEF Init, DefaultRunsOn
  <1>2. TypeOK /\ DefaultRunsOn /\ [Next]_vars => DefaultRunsOn'
    BY DefaultStep
  <1>3. ASSUME TypeOK, DefaultRunsOn, QueueIsArmed, Closing,
               RunReturns, Top.kind = "default", ~stopFlag
        PROVE  queue = <<>> /\ \A t \in Timers : timer[t] \notin {"waiting", "due"}
    <2>1. frames # <<>> /\ Len(frames) \in Nat \ {0} /\ Top = frames[1]
      BY <1>3, RunTop, PopFacts DEF RunReturns, UvRunEnds, Top, TypeOK
    <2>2. ~At("end")
      BY <1>3, <2>1 DEF DefaultRunsOn, At
    <2>3. ~Alive
      BY <1>3, <2>2 DEF RunReturns, UvRunEnds
    <2>4. status = "up"
      BY <1>3, <2>1, ClosingTop
    <2> QED BY <1>3, <2>3, <2>4 DEF Alive, QueueIsArmed
  <1>4. TypeOK /\ DefaultRunsOn /\ QueueIsArmed /\ Closing /\ [Next]_vars
          => [RunReturns /\ Top.kind = "default" /\ ~stopFlag
                => queue = <<>> /\ \A t \in Timers : timer[t] \notin {"waiting", "due"}]_vars
    BY <1>3
  <1> QED BY <1>1, <1>2, <1>4, TypeCorrect, NoLostWakeUp, ClosingInvariant, PTL
          DEF Spec, RunDoesAllWork

(* ---------------------------- refinement ------------------------------- *)

(* When no callback of the queue runs the loop, a callback in progress is    *)
(* the innermost frame and the front of the queue.                           *)
FrontIsCalled ==
  /\ \A i \in 2..Len(frames) : frames[i].kind # "reaction"
  /\ InReaction => queue # <<>> /\ Head(queue) = Top.at

LEMMA Queue ==
  ASSUME NEW q \in Seq(Callbacks), q # <<>>, NEW c \in Callbacks
  PROVE  /\ Append(q, c) # <<>> /\ Head(Append(q, c)) = Head(q)
         /\ Tail(Append(q, c)) = Append(Tail(q), c)
  OBVIOUS

(* After a step that leaves a frame no callback is in progress.              *)
LEMMA LeaveReaction ==
  ASSUME TypeOK, FrontIsCalled, frames # <<>>, Leave
  PROVE  ~InReaction' /\ FrontIsCalled'
  <1>1. /\ Len(frames) \in Nat \ {0} /\ Len(frames') = Len(frames) - 1
        /\ frames' # <<>> => Top' = frames'[1] /\ Len(frames') \in Nat \ {0}
        /\ \A i \in 1..Len(frames') : frames'[i] = frames[i + 1]
    BY LeaveStack DEF TypeOK
  <1>2. \A i \in 1..Len(frames') : frames'[i].kind # "reaction"
    BY <1>1 DEF FrontIsCalled
  <1>3. ~InReaction'
    BY <1>1, <1>2 DEF InReaction
  <1> QED BY <1>2, <1>3 DEF FrontIsCalled

LEMMA EnterReaction ==
  ASSUME TypeOK, FrontIsCalled, ~InReaction, NEW k, NEW a,
         [kind |-> k, at |-> a] \in Frame, Enter(k, a)
  PROVE  /\ InReaction' <=> k = "reaction"
         /\ Top'.at = a
         /\ \A i \in 2..Len(frames') : frames'[i].kind # "reaction"
  <1>1. /\ frames' # <<>> /\ Top' = frames'[1]
        /\ Len(frames) \in Nat /\ Len(frames') = Len(frames) + 1
        /\ frames'[1].kind = k /\ frames'[1].at = a
        /\ \A i \in 1..Len(frames) : frames'[i + 1] = frames[i]
    BY EnterStack DEF TypeOK
  <1>2. \A i \in 1..Len(frames) : frames[i].kind # "reaction"
    <2>1. frames # <<>> => Top = frames[1]
      BY PopFacts DEF Top, TypeOK
    <2>2. CASE frames = <<>>
      BY <2>2
    <2>3. CASE frames # <<>>
      BY <2>1, <2>3 DEF InReaction, FrontIsCalled
    <2> QED BY <2>2, <2>3
  <1>3. ASSUME NEW i \in 2..Len(frames') PROVE frames'[i].kind # "reaction"
    <2>1. i - 1 \in 1..Len(frames) /\ (i - 1) + 1 = i
      BY <1>1
    <2> QED BY <1>1, <1>2, <2>1
  <1> QED BY <1>1, <1>3 DEF InReaction

LEMMA GoToReaction ==
  ASSUME TypeOK, FrontIsCalled, frames # <<>>, Top.kind \in RunKinds,
         NEW p \in RunPhases, GoTo(p)
  PROVE  ~InReaction /\ ~InReaction' /\ FrontIsCalled'
  <1>1. /\ frames' # <<>> /\ Len(frames) \in Nat \ {0} /\ Len(frames') = Len(frames)
        /\ Top = frames[1] /\ Top' = frames'[1]
        /\ frames'[1].kind = frames[1].kind
        /\ \A i \in 2..Len(frames) : frames'[i] = frames[i]
    BY GoToStack DEF TypeOK
  <1>2. ~InReaction /\ ~InReaction'
    BY <1>1 DEF InReaction, RunKinds
  <1> QED BY <1>1, <1>2 DEF FrontIsCalled

(* Every step is one of CallbackQueue, or none.                              *)
LEMMA QueueStep ==
  ASSUME Reentrant = {}, TypeOK, FrontIsCalled, [Next]_vars
  PROVE  FrontIsCalled' /\ [Executor!Next]_(Executor!vars)
  <1> DEFINE pending == IF InReaction THEN Tail(queue) ELSE queue
             current == IF InReaction THEN Top.at ELSE Idle
  <1>0. frames # <<>> => Top = frames[1] /\ Top \in Frame
    BY PopFacts DEF Top, TypeOK
  <1>1. InReaction => Top.at \in Callbacks /\ Top.at # Idle
    BY <1>0, FrameFacts, IdleAssumption DEF InReaction
  <1>2. ASSUME frames' = frames, queue' = queue
        PROVE  FrontIsCalled' /\ UNCHANGED <<pending, current>>
    <2>1. (InReaction' <=> InReaction) /\ Top' = Top
      BY <1>2 DEF InReaction, Top
    <2> QED BY <1>2, <2>1 DEF FrontIsCalled
  <1>3. ASSUME ~InReaction, ~InReaction', queue' = queue
        PROVE  UNCHANGED <<pending, current>>
    BY <1>3
  <1>4. SUFFICES FrontIsCalled' /\ (Executor!Next \/ UNCHANGED <<pending, current>>)
    BY DEF Executor!vars
  <1>5. CASE UNCHANGED vars
    BY <1>2, <1>5 DEF vars
  <1>6. CASE ProgramStep
    <2>1. ASSUME NEW c \in Callbacks, Enqueue(c)
          PROVE  FrontIsCalled' /\ Executor!Enqueue(c)
      <3>1. queue' = Append(queue, c) /\ frames' = frames
        BY <2>1 DEF Enqueue
      <3>2. (InReaction' <=> InReaction) /\ Top' = Top
        BY <3>1 DEF InReaction, Top
      <3>3. CASE InReaction
        <4>1. /\ queue \in Seq(Callbacks) /\ queue # <<>> /\ Head(queue) = Top.at
          BY <3>3 DEF FrontIsCalled, TypeOK
        <4>2. /\ queue' # <<>> /\ Head(queue') = Head(queue)
              /\ Tail(queue') = Append(Tail(queue), c)
          BY <3>1, <4>1, Queue
        <4>3. FrontIsCalled'
          BY <3>1, <3>2, <4>1, <4>2 DEF FrontIsCalled
        <4> QED BY <3>2, <3>3, <4>2, <4>3 DEF Executor!Enqueue
      <3>4. CASE ~InReaction
        BY <3>1, <3>2, <3>4 DEF FrontIsCalled, Executor!Enqueue
      <3> QED BY <3>3, <3>4
    <2>2. (\E c \in Callbacks : Enqueue(c)) \/ UNCHANGED <<queue, frames>>
      BY <1>6 DEF ProgramStep, StartTimer, StopTimer, DropTimer, Stop
    <2> QED BY <1>2, <2>1, <2>2 DEF Executor!Next
  <1>7. CASE EnterStep
    <2>1. ~InReaction /\ UNCHANGED queue
      BY <1>7 DEF EnterStep, Run, ProcessEvents, Destroy, CallFront, FireTimer, MayEnter,
                  InReaction, At, RunKinds
    <2>2. CASE CallFront
      <3>1. /\ queue \in Seq(Callbacks) /\ queue # <<>> /\ Head(queue) \in Callbacks
            /\ Enter("reaction", Head(queue))
        BY <2>2 DEF CallFront, TypeOK
      <3>2. InReaction' /\ Top'.at = Head(queue)
        BY <2>1, <3>1, FrameFacts, EnterReaction
      <3>3. \A i \in 2..Len(frames') : frames'[i].kind # "reaction"
        BY <2>1, <3>1, FrameFacts, EnterReaction
      <3>4. FrontIsCalled'
        BY <2>1, <3>1, <3>2, <3>3 DEF FrontIsCalled
      <3>5. Executor!Begin
        BY <2>1, <3>1, <3>2 DEF Executor!Begin
      <3> QED BY <3>4, <3>5 DEF Executor!Next
    <2>3. CASE ~CallFront
      <3>1. PICK k, a : /\ [kind |-> k, at |-> a] \in Frame /\ Enter(k, a)
                        /\ k # "reaction"
        BY <1>7, <2>3, EnterStepEnters
      <3>2. ~InReaction' /\ \A i \in 2..Len(frames') : frames'[i].kind # "reaction"
        BY <2>1, <3>1, EnterReaction
      <3> QED BY <1>3, <2>1, <3>2 DEF FrontIsCalled
    <2> QED BY <2>2, <2>3
  <1>8. CASE LeaveStep
    <2>1. frames # <<>> /\ Leave
      BY <1>8, RunTop DEF LeaveStep, ReturnFromReaction, ReturnFromTimer, RunReturns,
                          InReaction, InTimer, UvRunEnds
    <2>2. FrontIsCalled' /\ ~InReaction'
      BY <2>1, LeaveReaction
    <2>3. CASE ReturnFromReaction
      <3>1. InReaction /\ queue' = Tail(queue)
        BY <2>3 DEF ReturnFromReaction
      <3>2. Executor!End
        BY <1>1, <2>2, <3>1 DEF Executor!End
      <3> QED BY <2>2, <3>2 DEF Executor!Next
    <2>4. CASE ReturnFromTimer \/ RunReturns
      <3>1. ~InReaction /\ queue' = queue
        BY <2>4, RunTop DEF ReturnFromTimer, RunReturns, InReaction, InTimer, UvRunEnds,
                            RunKinds
      <3> QED BY <1>3, <2>2, <3>1
    <2> QED BY <1>8, <2>3, <2>4 DEF LeaveStep
  <1>9. CASE GoToStep
    <2>1. queue' = queue
      BY <1>9 DEF GoToStep, BeginIteration, TimersDone, RunIdle, QueueDrained, CloseHandles
    <2>2. ~InReaction /\ ~InReaction' /\ FrontIsCalled'
      BY <1>9, GoToStepMoves, GoToReaction
    <2> QED BY <1>3, <2>1, <2>2
  <1>10. CASE CloseLoop
    <2>1. frames # <<>> /\ Top.kind \in RunKinds
      BY <1>10, RunTop DEF CloseLoop, UvRunEnds
    <2>2. ~InReaction
      BY <2>1 DEF InReaction, RunKinds
    <2>3. CASE GoTo("head") /\ queue' = queue
      BY <1>3, <2>1, <2>3, GoToReaction DEF RunPhases
    <2>4. CASE Leave /\ queue' = <<>>
      <3>1. FrontIsCalled' /\ ~InReaction'
        BY <2>1, <2>4, LeaveReaction
      <3>2. Executor!Forget
        BY <2>2, <2>4, <3>1 DEF Executor!Forget
      <3> QED BY <3>1, <3>2 DEF Executor!Next
    <2> QED BY <1>10, <2>3, <2>4, CloseLoopCases
  <1> QED BY <1>5, <1>6, <1>7, <1>8, <1>9, <1>10, StepKinds

(* Unless a callback of the queue runs the loop, the loop is a first-in      *)
(* first-out executor that calls every callback once per enqueue.            *)
THEOREM Refinement == ASSUME Reentrant = {} PROVE Spec => ImplementsQueue
  <1>1. Init => Executor!Init /\ FrontIsCalled
    BY DEF Init, Executor!Init, FrontIsCalled, InReaction
  <1>2. TypeOK /\ FrontIsCalled /\ [Next]_vars
          => FrontIsCalled' /\ [Executor!Next]_(Executor!vars)
    BY QueueStep
  <1> QED BY <1>1, <1>2, TypeCorrect, PTL DEF Spec, ImplementsQueue, Executor!Spec
=============================================================================
