----------------------------- MODULE ControlFlow ------------------------------
(***************************************************************************)
(* How the compiler turns the statements of one function into basic        *)
(* blocks.  The program is any tree of the statements of one family: an    *)
(* action of this module is what a handler of src/compiler/src/handlers    *)
(* does before it hands its child to the generator, between two children,  *)
(* or after the last one, and `frames' is the stack of the handlers in     *)
(* progress.  Of the emitted instructions the module keeps the evaluation  *)
(* of the program's own expressions, the branches, and the calls that      *)
(* acquire and release a resource: a root of the collector or an exception *)
(* that is being handled.                                                  *)
(***************************************************************************)
EXTENDS Naturals, Sequences, FiniteSets

CONSTANT Families    \* a sequence of families of programs: the statements they
                     \* are made of, the number of their nodes (bound), and
                     \* whether they are run

LoopKinds == {"while", "do", "for", "forof", "forin"}
JumpKinds == {"break", "continue", "return", "throw"}
LeafKinds == {"expr", "call", "logic", "ternary", "closure"} \cup JumpKinds
Kinds == LoopKinds \cup LeafKinds \cup {"function", "block", "if", "switch", "try"}

(* kind, whether it declares a variable, which optional parts it has, and  *)
(* the clauses of a switch in the order of the source.  "effect": the      *)
(* evaluation of the discriminant of a switch can be observed.  "outer":   *)
(* the function is an expression in the body of a for loop of another      *)
(* function that declares its counters.  "named": a case whose text        *)
(* contains the word default.                                              *)
Clauses == {"case", "named", "default"}
Shape == [kind : Kinds, decl : BOOLEAN, opts : SUBSET {"cond", "inc", "tuple",
            "else", "catch", "var", "finally", "known", "effect", "outer"},
          clauses : Seq(Clauses)]

ASSUME FamiliesAssumption ==
  \A i \in DOMAIN Families :
    /\ \A s \in Families[i].shapes :
         /\ s \in Shape
         /\ s.kind = "switch" => s.clauses # <<>>
         /\ \A j, k \in DOMAIN s.clauses :
              s.clauses[j] = "default" /\ s.clauses[k] = "default" => j = k
    /\ Families[i].nodes \in Nat \ {0} /\ Families[i].run \in BOOLEAN

VARIABLES
  family,     \* the place in Families of the family of this program
  tree,       \* the program read so far: nodes with their parent and slot
  frames,     \* handlers in progress, innermost last
  code,       \* basic block -> instructions
  at,         \* Builder.getInsertBlock()
  latches,    \* the body.latch blocks of the function, in its block order
  exiting,    \* ExitingBlocks.blocks, above what was there before the function
  bodyExit,   \* LoopHelper.onBodyExitHandlers of the function, by the loop of each
  pads,       \* Builder.landingPadStack, above what was there before
  scopes,     \* SymbolTable.scopes of the function
  phase       \* "compiling", "accepted" or "rejected"

Shapes == Families[family].shapes
MaxNodes == Families[family].nodes

vars == <<family, tree, frames, code, at, latches, exiting, bodyExit, pads, scopes, phase>>

-----------------------------------------------------------------------------
(* Blocks, instructions, stacks *)

Blk(n, part) == <<n, part, 0>>
Part(n, part, i) == <<n, part, i>>

Top(s) == s[Len(s)]
Pop(s) == SubSeq(s, 1, Len(s) - 1)

Br(blocks) == [op |-> "br", to |-> blocks]
Ret == [op |-> "ret"]
Raise == [op |-> "raise"]
Eval(what) == [op |-> "eval", what |-> what]
Call(what) == [op |-> "call", what |-> what]
Acquire(r) == [op |-> "acquire", res |-> {r}]
Release(rs) == [op |-> "release", res |-> rs]

(* A loop over no variables emits nothing. *)
AcquireAll(rs) == IF rs = {} THEN <<>> ELSE <<[op |-> "acquire", res |-> rs]>>
ReleaseAll(rs) == IF rs = {} THEN <<>> ELSE <<Release(rs)>>

IsTerminator(i) == i.op \in {"br", "ret", "raise"}
Terminated(c, b) == c[b] # <<>> /\ IsTerminator(Top(c[b]))

(* Instructions are appended to the blocks they are built in; a block not  *)
(* seen before is added to the function.                                   *)
Was(c, b) == IF b \in DOMAIN c THEN c[b] ELSE <<>>
c ++ new == [b \in DOMAIN c \cup DOMAIN new |-> Was(c, b) \o Was(new, b)]
In(block, instrs) == [b \in {block} |-> instrs]

BrUnlessTerminated(c, b, target) ==
  IF Terminated(c, b) THEN c ELSE c ++ In(b, <<Br({target})>>)

BeforeTerminator(c, b, instrs) ==
  [c EXCEPT ![b] = Pop(@) \o instrs \o <<Top(@)>>]

-----------------------------------------------------------------------------
(* The program *)

Node(s) == [kind |-> s.kind, decl |-> s.decl, opts |-> s.opts, clauses |-> s.clauses,
            parent |-> Top(frames).node, slot |-> Top(frames).slot]

New == Len(tree) + 1

Kids(n, slot) == {k \in 1..Len(tree) : tree[k].parent = n /\ tree[k].slot = slot}
LastKid(n, slot) == CHOOSE k \in Kids(n, slot) : \A j \in Kids(n, slot) : j <= k

Ancestors[n \in 0..Len(tree)] ==
  IF n = 0 THEN {} ELSE {tree[n].parent} \cup Ancestors[tree[n].parent]

(* The statement a break or a continue of the source belongs to. *)
Nearest(n, kinds) ==
  LET found == {a \in Ancestors[n] \ {0} : tree[a].kind \in kinds}
  IN CHOOSE a \in found : \A b \in found : b <= a
Within(n, kinds) == \E a \in Ancestors[n] \ {0} : tree[a].kind \in kinds

JumpsTo(n, kind) ==
  {j \in 1..Len(tree) : /\ tree[j].kind = kind
                        /\ Nearest(j, LoopKinds \cup
                                     (IF kind = "break" THEN {"switch"} ELSE {})) = n}

(* Whether control can reach the end of a statement: TypeScript refuses    *)
(* statements that it cannot reach, and the compiler insists on that.      *)
Completes[n \in 1..Len(tree)] ==
  LET ListCompletes(slot) == Kids(n, slot) = {} \/ Completes[LastKid(n, slot)]
      HasBreak == JumpsTo(n, "break") # {}
      node == tree[n]
  IN \/ node.kind \in (LeafKinds \ JumpKinds) \cup {"while", "forof", "forin"}
     \/ node.kind \in {"function", "block"} /\ ListCompletes(1)
     \/ node.kind = "if" /\ ("else" \notin node.opts \/ ListCompletes(1) \/ ListCompletes(2))
     \/ node.kind = "for" /\ ("cond" \in node.opts \/ HasBreak)
     \/ node.kind = "do" /\ (ListCompletes(1) \/ JumpsTo(n, "continue") # {} \/ HasBreak)
     \/ /\ node.kind = "switch"
        /\ \/ HasBreak
           \/ ~\E i \in 1..Len(node.clauses) : node.clauses[i] = "default"
           \/ ListCompletes(Len(node.clauses))
     \/ node.kind = "try" /\ (ListCompletes(1) \/ ("catch" \in node.opts /\ ListCompletes(2)))

-----------------------------------------------------------------------------
(* Handlers in progress.  The statements of a function, a block or a       *)
(* clause are a list; every other slot holds one statement.                *)

Frame(n, slot) == [node |-> n, slot |-> slot]
Parent == tree[Top(frames).node]
Here == Kids(Top(frames).node, Top(frames).slot)

CanAdd(s) ==
  /\ phase = "compiling"
  /\ s.kind # "function"
  /\ New <= MaxNodes
  /\ Here # {} => /\ Parent.kind \in {"function", "block", "switch"}
                  /\ Completes[LastKid(Top(frames).node, Top(frames).slot)] = TRUE
  /\ Parent.kind = "try" => s.kind = "block"

Doing(kind, slot) ==
  /\ phase = "compiling"
  /\ Parent.kind = kind
  /\ Top(frames).slot = slot

Filled == Here # {}

(* A leaf is handled at once; a compound statement opens its first slot.   *)
Leaf(s) == tree' = Append(tree, Node(s)) /\ UNCHANGED frames
Open(s) == /\ tree' = Append(tree, Node(s))
           /\ frames' = Append(frames, Frame(New, 1))
Close == frames' = Pop(frames) /\ UNCHANGED tree
NextSlot(slot) == /\ frames' = Append(Pop(frames), Frame(Top(frames).node, slot))
                  /\ UNCHANGED tree

-----------------------------------------------------------------------------
(* Scopes.  A scope knows the resources it roots (its level 2 pointers)    *)
(* and whether deinitialize() has already been emitted for it.             *)

Scope(rs) == [vals |-> rs, isDeinitialized |-> FALSE]

(* Fault: what a return or a throw has let go of is let go of again. *)
ReleaseAgain(s) == ReleaseAll(s.vals)
Deinitialize(s) == IF s.isDeinitialized THEN <<>> ELSE ReleaseAll(s.vals)
Deinitialized(ss) == [ss EXCEPT ![Len(ss)].isDeinitialized = TRUE]

(* initializeVariablesAndFunctionDeclarations: what a block declares is    *)
(* allocated and rooted where the block begins.                            *)
Hoisted(n, s) == IF s.decl THEN {Blk(n, "local")} ELSE {}

(* Fault: every handler is called, not the last one. *)
AllBodyExits == {Blk(bodyExit[i], "copy") : i \in {j \in 1..Len(bodyExit) : tree[bodyExit[j]].decl}}
(* Fault: the handler stores the copies and leaves them rooted. *)
NoBodyExit == {}

(* LoopHelper.onBodyExitHandlers.last(): the copies of the counters of the *)
(* loop that added the handler, whichever loop calls it, and if none did   *)
(* those of the loop around the function.                                  *)
OfOuterLoop == IF "outer" \in tree[1].opts THEN {Blk(0, "copy")} ELSE {}
BodyExit ==
  IF bodyExit = <<>> THEN OfOuterLoop
  ELSE IF tree[Top(bodyExit)].decl THEN {Blk(Top(bodyExit), "copy")} ELSE {}

Reject == phase' = "rejected"

-----------------------------------------------------------------------------
(* Leaves *)

Expression(s) ==
  /\ s.kind = "expr" /\ CanAdd(s) /\ Leaf(s)
  /\ code' = code ++ In(at, <<Eval(Blk(New, "eval"))>>)
  /\ UNCHANGED <<at, latches, exiting, bodyExit, pads, scopes, phase>>

(* A function expression is compiled where it stands.  One with a switch   *)
(* statement leaves an exiting block of its own on the stack.              *)
Closure(s) ==
  /\ s.kind = "closure" /\ CanAdd(s) /\ Leaf(s)
  /\ code' = code ++ In(at, <<Eval(Blk(New, "eval"))>>)
  /\ exiting' = Append(exiting, Blk(New, "exiting"))
  /\ UNCHANGED <<at, latches, bodyExit, pads, scopes, phase>>

(* handleLogicalAnd, handleLogicalOr: both operands are evaluated, then    *)
(* one is selected.                                                        *)
Logic(s) ==
  /\ s.kind = "logic" /\ CanAdd(s) /\ Leaf(s)
  /\ code' = code ++ In(at, <<Eval(Blk(New, "lhs")), Eval(Blk(New, "rhs"))>>)
  /\ UNCHANGED <<at, latches, exiting, bodyExit, pads, scopes, phase>>

Ternary(s) ==
  LET true == Blk(New, "lhs")  false == Blk(New, "rhs")  end == Blk(New, "endTernary")
  IN /\ s.kind = "ternary" /\ CanAdd(s) /\ Leaf(s)
     /\ code' = code ++ In(at, <<Eval(Blk(New, "cond")), Br({true, false})>>)
                     ++ In(true, <<Eval(true), Br({end})>>)
                     ++ In(false, <<Eval(false), Br({end})>>)
                     ++ In(end, <<>>)
     /\ at' = end
     /\ UNCHANGED <<latches, exiting, bodyExit, pads, scopes, phase>>

(* needUnwind: the innermost of the functions and try statements around    *)
(* the node is a try statement; its catch clause lies inside it as well.   *)
NeedUnwind == \E i \in 1..Len(frames) : tree[frames[i].node].kind = "try"

(* FunctionHandler.invoke.  "known": the callee has already been generated *)
(* and was found to throw.  Where the function has no landing pad left to  *)
(* unwind to there is none, or one of another function: neither is taken.  *)
Invoke(s) ==
  LET known == "known" \in s.opts
      next == Blk(New, "continue")
  IN /\ s.kind = "call" /\ CanAdd(s) /\ Leaf(s)
     /\ IF known /\ NeedUnwind
        THEN IF pads = <<>>
             THEN Reject /\ UNCHANGED <<code, at>>
             ELSE /\ code' = code ++ In(at, <<Eval(Blk(New, "eval")), Br({next, Top(pads)})>>)
                                  ++ In(next, <<>>)
                  /\ at' = next
                  /\ UNCHANGED phase
        ELSE /\ code' = code ++ In(at, <<Call(Blk(New, "eval"))>>)
             /\ UNCHANGED <<at, phase>>
     /\ UNCHANGED <<latches, exiting, bodyExit, pads, scopes>>

(* ExitingBlocks.last() *)
BreakTarget == Top(exiting)

(* A break calls the body exit handler only where it leaves a for loop. *)
Break(s) ==
  LET target == BreakTarget
  IN /\ s.kind = "break" /\ CanAdd(s) /\ Leaf(s)
     /\ \E i \in 1..Len(frames) : tree[frames[i].node].kind \in LoopKinds \cup {"switch"}
     /\ code' = code ++ In(at, (IF tree[target[1]].kind = "for" THEN ReleaseAll(BodyExit) ELSE <<>>)
                            \o <<Br({target})>>)
     /\ UNCHANGED <<at, latches, exiting, bodyExit, pads, scopes, phase>>

UnderIf ==
  \/ Parent.kind = "if"
  \/ Parent.kind = "block" /\ Parent.parent # 0 /\ tree[Parent.parent].kind = "if"

Continue(s) ==
  /\ s.kind = "continue" /\ CanAdd(s) /\ Leaf(s)
  /\ \E i \in 1..Len(frames) : tree[frames[i].node].kind \in LoopKinds
  /\ IF UnderIf
     THEN /\ code' = code ++ In(at, ReleaseAll(BodyExit) \o <<Br({Top(latches)})>>)
          /\ UNCHANGED phase
     ELSE Reject /\ UNCHANGED code
  /\ UNCHANGED <<at, latches, exiting, bodyExit, pads, scopes>>

(* The exception in hand is let go where the return stands in the very     *)
(* block in which the catch clause begins.                                 *)
Return(s) ==
  /\ s.kind = "return" /\ CanAdd(s) /\ Leaf(s)
  /\ code' = code ++ In(at, <<Eval(Blk(New, "eval"))>>
                         \o (IF at[2] = "pad" THEN <<Release({Blk(at[1], "caught")})>> ELSE <<>>)
                         \o Deinitialize(Top(scopes)) \o <<Ret>>)
  /\ scopes' = Deinitialized(scopes)
  /\ UNCHANGED <<at, latches, exiting, bodyExit, pads, phase>>

Throw(s) ==
  LET block == Blk(New, "throw")
  IN /\ s.kind = "throw" /\ CanAdd(s) /\ Leaf(s)
     /\ IF NeedUnwind /\ pads = <<>>
        THEN Reject /\ UNCHANGED <<code, at>>
        ELSE /\ code' = code ++ In(at, <<Eval(Blk(New, "eval"))>> \o Deinitialize(Top(scopes))
                                    \o <<Br({block})>>)
                             ++ In(block, <<IF NeedUnwind THEN Br({Top(pads)}) ELSE Raise>>)
             /\ at' = block
             /\ UNCHANGED phase
     /\ scopes' = Deinitialized(scopes)
     /\ UNCHANGED <<latches, exiting, bodyExit, pads>>

-----------------------------------------------------------------------------
(* Blocks and branches *)

(* The block of a catch clause takes the exception in its own scope before *)
(* anything else.                                                          *)
CatchOf(n) ==
  IF Parent.kind = "try" /\ Top(frames).slot = 2
              THEN {Blk(Top(frames).node, "caught")} ELSE {}
ExceptionVariable ==
  IF CatchOf(New) # {} /\ "var" \in Parent.opts THEN {Blk(Top(frames).node, "e")} ELSE {}

OpenBlock(s) ==
  /\ s.kind = "block" /\ CanAdd(s) /\ Open(s)
  /\ code' = code ++ In(at, AcquireAll(CatchOf(New) \cup ExceptionVariable)
                         \o AcquireAll(Hoisted(New, s)))
  /\ scopes' = Append(scopes, Scope(ExceptionVariable \cup Hoisted(New, s)))
  /\ UNCHANGED <<at, latches, exiting, bodyExit, pads, phase>>

CloseBlock ==
  /\ Doing("block", 1) /\ Close
  /\ code' = code ++ In(at, Deinitialize(Top(scopes)))
  /\ scopes' = Pop(scopes)
  /\ UNCHANGED <<at, latches, exiting, bodyExit, pads, phase>>

OpenIf(s) ==
  LET then == Blk(New, "then")  else == Blk(New, "else")  end == Blk(New, "endif")
  IN /\ s.kind = "if" /\ CanAdd(s) /\ Open(s)
     /\ code' = code ++ In(at, <<Eval(Blk(New, "cond")), Br({then, else})>>)
                     ++ In(then, <<>>) ++ In(else, <<>>) ++ In(end, <<>>)
     /\ at' = then
     /\ UNCHANGED <<latches, exiting, bodyExit, pads, scopes, phase>>

Else ==
  LET n == Top(frames).node
  IN /\ Doing("if", 1) /\ Filled /\ NextSlot(2)
     /\ code' = BrUnlessTerminated(code, at, Blk(n, "endif"))
     /\ at' = Blk(n, "else")
     /\ UNCHANGED <<latches, exiting, bodyExit, pads, scopes, phase>>

CloseIf ==
  LET n == Top(frames).node
  IN /\ Doing("if", 2) /\ Filled = ("else" \in Parent.opts) /\ Close
     /\ code' = BrUnlessTerminated(code, at, Blk(n, "endif"))
     /\ at' = Blk(n, "endif")
     /\ UNCHANGED <<latches, exiting, bodyExit, pads, scopes, phase>>

-----------------------------------------------------------------------------
(* Loops *)

OpenWhile(s) ==
  LET cond == Blk(New, "cond")  body == Blk(New, "body")  latch == Blk(New, "latch")
      exit == Blk(New, "exiting")  end == Blk(New, "end")
  IN /\ s.kind = "while" /\ CanAdd(s) /\ Open(s)
     /\ exiting' = Append(exiting, exit)
     /\ latches' = Append(latches, latch)
     /\ code' = code ++ In(at, <<Br({cond})>>)
                     ++ In(cond, <<Eval(cond), Br({body, exit})>>)
                     ++ In(latch, <<Br({cond})>>) ++ In(exit, <<Br({end})>>)
                     ++ In(body, <<>>)
     /\ at' = body
     /\ scopes' = Append(scopes, Scope({}))
     /\ UNCHANGED <<bodyExit, pads, phase>>

CloseWhile ==
  LET n == Top(frames).node
      end == Blk(n, "end")
  IN /\ Doing("while", 1) /\ Filled /\ Close
     /\ code' = BrUnlessTerminated(code, at, Blk(n, "latch")) ++ In(end, <<>>)
     /\ at' = end
     /\ exiting' = Pop(exiting)
     /\ scopes' = Pop(scopes)
     /\ UNCHANGED <<latches, bodyExit, pads, phase>>

OpenDo(s) ==
  LET cond == Blk(New, "cond")  body == Blk(New, "body")  latch == Blk(New, "latch")
      exit == Blk(New, "exiting")  end == Blk(New, "end")
  IN /\ s.kind = "do" /\ CanAdd(s) /\ Open(s)
     /\ exiting' = Append(exiting, exit)
     /\ latches' = Append(latches, latch)
     /\ code' = code ++ In(at, <<Br({body})>>) ++ In(body, <<>>) ++ In(cond, <<>>)
                     ++ In(latch, <<>>) ++ In(exit, <<>>) ++ In(end, <<>>)
     /\ at' = body
     /\ scopes' = Append(scopes, Scope({}))
     /\ UNCHANGED <<bodyExit, pads, phase>>

CloseDo ==
  LET n == Top(frames).node
      cond == Blk(n, "cond")  latch == Blk(n, "latch")
      exit == Blk(n, "exiting")  end == Blk(n, "end")
  IN /\ Doing("do", 1) /\ Filled /\ Close
     /\ code' = BrUnlessTerminated(code, at, latch)
                ++ In(latch, <<Br({cond})>>)
                ++ In(cond, <<Eval(cond), Br({Blk(n, "body"), exit})>>)
                ++ In(exit, <<Br({end})>>)
     /\ at' = end
     /\ exiting' = Pop(exiting)
     /\ scopes' = Pop(scopes)
     /\ UNCHANGED <<latches, bodyExit, pads, phase>>

(* Where a for loop goes when an iteration begins, and when one has ended. *)
IterationOf(n, opts) == IF "cond" \in opts THEN Blk(n, "cond") ELSE Blk(n, "body")
(* Fault: the latch forgets the incrementor. *)
SkipIncrementor(n, opts) == IterationOf(n, opts)
AfterIteration(n, opts) == IF "inc" \in opts THEN Blk(n, "inc") ELSE IterationOf(n, opts)

(* Counters are declared in a scope of the loop; the body works on copies  *)
(* which replace them in that scope.                                       *)
OpenFor(s) ==
  LET cond == Blk(New, "cond")  body == Blk(New, "body")  latch == Blk(New, "latch")
      exit == Blk(New, "exiting")  end == Blk(New, "end")
      start == Blk(New, "start")
      first == <<Br({IterationOf(New, s.opts)})>>
      opened == IF s.decl
                THEN code ++ In(at, <<Br({start})>>)
                          ++ In(start, <<Acquire(Blk(New, "counter"))>> \o first)
                          ++ In(body, <<Acquire(Blk(New, "copy"))>>)
                ELSE code ++ In(at, first) ++ In(body, <<>>)
  IN /\ s.kind = "for" /\ CanAdd(s) /\ Open(s)
     /\ exiting' = Append(exiting, exit)
     /\ latches' = Append(latches, latch)
     /\ bodyExit' = Append(bodyExit, New)
     /\ code' = IF "cond" \in s.opts
                THEN opened ++ In(latch, <<Br({AfterIteration(New, s.opts)})>>)
                            ++ In(exit, <<Br({end})>>)
                            ++ In(cond, <<Eval(cond), Br({body, exit})>>)
                ELSE opened ++ In(latch, <<Br({AfterIteration(New, s.opts)})>>)
                            ++ In(exit, <<Br({end})>>)
     /\ at' = body
     /\ scopes' = IF s.decl THEN Append(scopes, Scope({Blk(New, "copy")})) ELSE scopes
     /\ UNCHANGED <<pads, phase>>

(* The handler of the body's end is called where the body falls through to *)
(* its end, and inserted before the terminator where it does not.  The     *)
(* originals are restored before the incrementor is generated.             *)
CloseFor ==
  LET n == Top(frames).node
      latch == Blk(n, "latch")  inc == Blk(n, "inc")  end == Blk(n, "end")
      body == IF Terminated(code, at)
              THEN BeforeTerminator(code, at, ReleaseAll(BodyExit))
              ELSE code ++ In(at, ReleaseAll(BodyExit) \o <<Br({latch})>>)
      iterated == IF "inc" \in Parent.opts
                  THEN body ++ In(inc, <<Eval(inc), Br({IterationOf(n, Parent.opts)})>>)
                  ELSE body
      original == IF Parent.decl THEN [Top(scopes) EXCEPT !.vals = {Blk(n, "counter")}]
                  ELSE Scope({})
  IN /\ Doing("for", 1) /\ Filled /\ Close
     /\ code' = iterated ++ In(end, Deinitialize(original))
     /\ at' = end
     /\ exiting' = Pop(exiting)
     /\ bodyExit' = Pop(bodyExit)
     /\ scopes' = IF Parent.decl THEN Pop(scopes) ELSE scopes
     /\ UNCHANGED <<latches, pads, phase>>

(* Loops over an iterator begin and end alike. *)
Iterate(acquired) ==
  LET cond == Blk(New, "cond")  inc == Blk(New, "incrementor")  body == Blk(New, "body")
      latch == Blk(New, "latch")  exit == Blk(New, "exiting")  end == Blk(New, "end")
  IN /\ exiting' = Append(exiting, exit)
     /\ latches' = Append(latches, latch)
     /\ code' = code ++ In(at, acquired \o <<Br({latch})>>) ++ In(latch, <<Br({cond})>>)
                     ++ In(cond, <<Eval(cond), Br({exit, inc})>>)
                     ++ In(inc, <<Br({body})>>)
                     ++ In(body, <<>>) ++ In(exit, <<>>) ++ In(end, <<>>)
     /\ at' = body

EndIterations(n, placeholder) ==
  LET end == Blk(n, "end")
  IN /\ code' = BrUnlessTerminated(code, at, Blk(n, "latch"))
                ++ In(Blk(n, "exiting"), <<Br({end})>>)
                ++ In(end, ReleaseAll(placeholder) \o Deinitialize(Top(scopes)))
     /\ at' = end
     /\ exiting' = Pop(exiting)
     /\ scopes' = Pop(scopes)

(* With a single variable the placeholder of the elements is that          *)
(* variable, with a tuple it is a root of its own.                         *)
OpenForOf(s) ==
  LET element == Blk(New, "element")
  IN /\ s.kind = "forof" /\ CanAdd(s) /\ Open(s)
     /\ Iterate(<<Acquire(element)>>)
     /\ scopes' = Append(scopes, Scope(IF "tuple" \in s.opts THEN {} ELSE {element}))
     /\ UNCHANGED <<bodyExit, pads, phase>>

CloseForOf ==
  LET placeholder == IF "tuple" \in Parent.opts THEN {Blk(Top(frames).node, "element")} ELSE {}
  IN /\ Doing("forof", 1) /\ Filled /\ Close
     /\ EndIterations(Top(frames).node, placeholder)
     /\ UNCHANGED <<latches, bodyExit, pads, phase>>

(* for..in: the keys of the object are fetched before the loop's scope. *)
OpenForIn(s) ==
  LET key == Blk(New, "element")
  IN /\ s.kind = "forin" /\ CanAdd(s) /\ Open(s)
     /\ Iterate(<<Acquire(key)>>)
     /\ scopes' = Append(scopes, Scope({key}))
     /\ UNCHANGED <<bodyExit, pads, phase>>

CloseForIn ==
  /\ Doing("forin", 1) /\ Filled /\ Close
  /\ EndIterations(Top(frames).node, {})
  /\ UNCHANGED <<latches, bodyExit, pads, phase>>

-----------------------------------------------------------------------------
(* Switch *)

(* correctClausesOrder: the cases in their order, the default clause last. *)
Defaults(clauses) == {i \in DOMAIN clauses : clauses[i] = "default"}
Ordered(clauses) ==
  [k \in 1..Len(clauses) |->
     IF \A d \in Defaults(clauses) : k < d THEN k
     ELSE IF k < Len(clauses) THEN k + 1 ELSE CHOOSE d \in Defaults(clauses) : TRUE]
Cases(clauses) ==
  IF Defaults(clauses) = {} THEN Ordered(clauses) ELSE Pop(Ordered(clauses))

Clause(n, i) == Part(n, "clause", i)
Test(n, i) == Part(n, "test", i)

OpenSwitch(s) ==
  LET exit == Blk(New, "exiting")  end == Blk(New, "end")
      order == Ordered(s.clauses)
  IN /\ s.kind = "switch" /\ CanAdd(s)
     /\ tree' = Append(tree, Node(s))
     /\ frames' = Append(frames, Frame(New, order[1]))
     /\ exiting' = Append(exiting, exit)
     /\ code' = code ++ In(at, <<Br({Blk(New, "switch")})>>) ++ In(Blk(New, "switch"), <<>>)
                     ++ In(exit, <<Br({end})>>) ++ In(end, <<>>)
                     ++ [b \in {Clause(New, i) : i \in 1..Len(s.clauses)} |-> <<>>]
     /\ at' = Clause(New, order[1])
     /\ UNCHANGED <<latches, bodyExit, pads, scopes, phase>>

Position(order, slot) == CHOOSE k \in 1..Len(order) : order[k] = slot

NextClause ==
  LET n == Top(frames).node
      order == Ordered(Parent.clauses)
      k == Position(order, Top(frames).slot)
  IN /\ phase = "compiling" /\ Parent.kind = "switch" /\ k < Len(order)
     /\ NextSlot(order[k + 1])
     /\ code' = BrUnlessTerminated(code, at, Clause(n, order[k + 1]))
     /\ at' = Clause(n, order[k + 1])
     /\ UNCHANGED <<latches, exiting, bodyExit, pads, scopes, phase>>

(* The first block with the word default in its name.                      *)
NamedDefault(clauses) ==
  LET order == Ordered(clauses)
      found == {k \in 1..Len(order) : clauses[order[k]] # "case"}
  IN {order[k] : k \in {i \in found : \A j \in found : i <= j}}

(* The conditions are generated after the clauses, each as a comparison of *)
(* its own with the discriminant.  The exiting block is left on its stack. *)
CloseSwitch ==
  LET n == Top(frames).node
      end == Blk(n, "end")
      order == Ordered(Parent.clauses)
      cases == Cases(Parent.clauses)
      otherwise == IF NamedDefault(Parent.clauses) = {} THEN end
                   ELSE Clause(n, CHOOSE i \in NamedDefault(Parent.clauses) : TRUE)
      Next(k) == IF k < Len(cases) THEN Test(n, cases[k + 1]) ELSE otherwise
      discriminant == IF "effect" \in Parent.opts THEN <<Eval(Blk(n, "discriminant"))>> ELSE <<>>
      TestCode(b) == LET k == CHOOSE j \in 1..Len(cases) : Test(n, cases[j]) = b
                     IN discriminant \o <<Eval(b), Br({Clause(n, cases[k]), Next(k)})>>
  IN /\ phase = "compiling" /\ Parent.kind = "switch"
     /\ Position(order, Top(frames).slot) = Len(order)
     /\ Close
     /\ code' = BrUnlessTerminated(code, at, end)
                ++ In(Blk(n, "switch"), <<Br({Next(0)})>>)
                ++ [b \in {Test(n, cases[k]) : k \in 1..Len(cases)} |-> TestCode(b)]
     /\ at' = end
     /\ UNCHANGED <<latches, exiting, bodyExit, pads, scopes, phase>>

-----------------------------------------------------------------------------
(* Exceptions *)

OpenTry(s) ==
  LET try == Blk(New, "try")  pad == Blk(New, "pad")
  IN /\ s.kind = "try" /\ CanAdd(s) /\ Open(s)
     /\ pads' = Append(pads, pad)
     /\ code' = code ++ In(at, <<Br({try})>>) ++ In(try, <<>>) ++ In(pad, <<>>)
     /\ at' = try
     /\ UNCHANGED <<latches, exiting, bodyExit, scopes, phase>>

(* The catch clause takes the pad off the stack before its own block is    *)
(* generated.                                                              *)
Catch ==
  LET n == Top(frames).node
      after == Blk(n, "after")
  IN /\ Doing("try", 1) /\ Filled /\ "catch" \in Parent.opts
     /\ NextSlot(2)
     /\ code' = BrUnlessTerminated(code, at, after) ++ In(after, <<>>)
     /\ at' = Top(pads)
     /\ pads' = Pop(pads)
     /\ UNCHANGED <<latches, exiting, bodyExit, scopes, phase>>

CloseTry ==
  LET n == Top(frames).node
      after == Blk(n, "after")
      caught == IF Terminated(code, at) THEN <<>> ELSE <<Release({Blk(n, "caught")})>>
  IN /\ Doing("try", 2) /\ Filled /\ Close
     /\ code' = BrUnlessTerminated(code ++ In(at, caught), at, after)
     /\ at' = after
     /\ UNCHANGED <<latches, exiting, bodyExit, pads, scopes, phase>>

(* Without a catch clause nothing takes the pad off the stack, and the     *)
(* finally block is not generated in either case.                          *)
CloseTryWithoutCatch ==
  LET n == Top(frames).node
      after == Blk(n, "after")
  IN /\ Doing("try", 1) /\ Filled /\ "catch" \notin Parent.opts /\ Close
     /\ code' = BrUnlessTerminated(code, at, after) ++ In(after, <<>>)
     /\ at' = after
     /\ UNCHANGED <<latches, exiting, bodyExit, pads, scopes, phase>>

-----------------------------------------------------------------------------
(* The function *)

(* LLVMFunction.verify: each block ends exactly once, ...                  *)
EndsOnce(c) ==
  \A b \in DOMAIN c : /\ Terminated(c, b)
                      /\ \A i \in 1..(Len(c[b]) - 1) : ~IsTerminator(c[b][i])

(* ... and a value is only used where the function has made it.  What is   *)
(* released is used, the original of a counter where its copy is made, the *)
(* iterator, made with the element, where the next element is asked for.   *)
(* The exception in hand is no operand, and what the expressions of the    *)
(* program refer to is left out.                                           *)
UsedBy(i) ==
  CASE i.op = "release" -> {r \in i.res : r[2] # "caught"}
    [] i.op = "acquire" -> {Blk(r[1], "counter") : r \in {q \in i.res : q[2] = "copy"}}
    [] i.op = "eval" /\ i.what[2] = "cond" ->
         {Blk(n, "element") : n \in {m \in {i.what[1]} : tree[m].kind \in {"forof", "forin"}}}
    [] OTHER -> {}

Makes(c, b, k, r) == c[b][k].op = "acquire" /\ r \in c[b][k].res
MakesAny(c, b, r) == \E k \in 1..Len(c[b]) : Makes(c, b, k, r)
UsesFirst(c, b, r) ==
  \E k \in 1..Len(c[b]) : r \in UsedBy(c[b][k]) /\ \A j \in 1..(k - 1) : ~Makes(c, b, j, r)

Targets(c, b) == UNION {c[b][k].to : k \in {j \in 1..Len(c[b]) : c[b][j].op = "br"}}

(* The blocks that control can enter before r has been made.               *)
EnteredWithout(c, r) ==
  LET entered[k \in 0..Cardinality(DOMAIN c)] ==
        IF k = 0 THEN {Blk(1, "entry")}
        ELSE LET before == entered[k - 1]
             IN before \cup UNION {Targets(c, b) : b \in {x \in before : ~MakesAny(c, x, r)}}
  IN entered[Cardinality(DOMAIN c)]

Defined(c) ==
  /\ \A b \in DOMAIN c : Targets(c, b) \subseteq DOMAIN c
  /\ \A r \in UNION {UNION {UsedBy(c[b][k]) : k \in 1..Len(c[b])} : b \in DOMAIN c} :
       /\ \E b \in DOMAIN c : MakesAny(c, b, r)
       /\ \A b \in EnteredWithout(c, r) : ~UsesFirst(c, b, r)

WellFormed(c) == EndsOnce(c) /\ Defined(c)

CloseFunction ==
  LET done == code ++ In(at, Deinitialize(Top(scopes))
                             \o (IF Terminated(code, at) THEN <<>> ELSE <<Ret>>))
  IN /\ Doing("function", 1)
     /\ code' = done
     /\ phase' = IF WellFormed(done) THEN "accepted" ELSE "rejected"
     /\ frames' = <<>>
     /\ scopes' = Pop(scopes)
     /\ UNCHANGED <<tree, at, latches, exiting, bodyExit, pads>>

(* The stacks are those of the whole compiler.  What is below the entries   *)
(* of this function is only seen by a continue, or a break that finds the   *)
(* exiting block of a for that is over (OfOuterLoop), and by what finds no  *)
(* landing pad of its own.                                                  *)
Init ==
  /\ family \in DOMAIN Families
  /\ \E s \in Shapes :
       /\ s.kind = "function"
       /\ tree = <<[kind |-> "function", decl |-> s.decl, opts |-> s.opts, clauses |-> <<>>,
                    parent |-> 0, slot |-> 1]>>
       /\ frames = <<Frame(1, 1)>>
       /\ code = In(Blk(1, "entry"), AcquireAll(Hoisted(1, s)))
       /\ at = Blk(1, "entry")
       /\ latches = <<>>
       /\ exiting = <<>>
       /\ bodyExit = <<>>
       /\ pads = <<>>
       /\ scopes = <<Scope(Hoisted(1, s))>>
       /\ phase = "compiling"

Statement(s) ==
  \/ Expression(s) \/ Closure(s) \/ Logic(s) \/ Ternary(s) \/ Invoke(s)
  \/ Break(s) \/ Continue(s) \/ Return(s) \/ Throw(s)
  \/ OpenBlock(s) \/ OpenIf(s) \/ OpenWhile(s) \/ OpenDo(s) \/ OpenFor(s) \/ OpenForOf(s) \/ OpenForIn(s)
  \/ OpenSwitch(s) \/ OpenTry(s)

Closing ==
  \/ CloseBlock \/ Else \/ CloseIf \/ CloseWhile \/ CloseDo \/ CloseFor \/ CloseForOf
  \/ CloseForIn \/ NextClause \/ CloseSwitch \/ Catch \/ CloseTry \/ CloseTryWithoutCatch
  \/ CloseFunction

Next ==
  /\ (\E s \in Shapes : Statement(s)) \/ Closing
  /\ UNCHANGED family

Spec == Init /\ [][Next]_vars
=============================================================================
