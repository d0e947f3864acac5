# tsnative in TLA+

tsnative compiles TypeScript to native code. The compiler (`src/compiler`)
writes LLVM IR; the program it produces links the runtime (`src/std`), which
owns the heap, the event loop, timers and promises. This directory specifies
both: modules for TLC, theorems for TLAPS.

All of the runtime is single-threaded, on libuv 1.43 (`src/std/conanfile.py`).
What is hard in it is therefore not parallelism but the order of callbacks:
things queued, re-entered, repeated, or collected between two callbacks. The
compiler is a recursive descent over a typed tree. What is hard in it is that
its handlers communicate through stacks, tables and names that outlive the node
they are for, and that it makes several passes which have to agree; what it
owes is that the generated code does what the source says.

## Inventory

| Component (main sources) | State | Operations | Hard behaviour | What makes it correct |
|---|---|---|---|---|
| Collector and memory manager (`memory_management/*.cpp`, `gc.cpp`, `algorithms.cpp`) | heap, roots, timer storage, marks, sizes, threshold, "a collection is scheduled" | allocate, add and remove a root, collect, mark, sweep, asyncClear | a collection is scheduled by one callback and runs after others; three callers of collect(); timers as a second, self-cleaning set of roots; reuse of addresses | nothing reachable is freed, garbage is, accounting is exact, one scheduled collection at a time, nothing left at exit |
| Event loop (`uv_loop_adapter.cpp`, `libuv_wrapper/*`, `event_loop.cpp`, `default_executor.cpp`) | queue, idle handle, running flag, libuv's stop flag, handles | run, stop, enqueue, processEvents, destructor | callbacks enqueue, stop and run the loop; the handle that drains the queue is switched on and off around callbacks; closing | no lost wake-up, FIFO, each callback once, a run ends when and only when there is nothing to do, the destructor returns and calls nobody |
| Timers (`set_timeout.cpp`, `set_interval.cpp`, `uv_timer_adapter.cpp`, `timer_object.cpp`) | handle, storage entry | set, clear, fire, destroy | a timer is an object of the heap, an entry of the storage and a handle of the loop, which end at different moments | a callback never runs on a freed timer; due timers fire |
| Promises (`tspromise.cpp`, `promise/*.cpp`, `emitter.h`) | state, result, listeners, root | new, resolve, reject, then, catch, finally, handlers | ReadyEvent is emitted again for every reaction attached to a ready promise; promises that wait for promises; settling inside an emission | settles once, no reaction lost, early or out of order, waiting promises follow, roots held exactly as long as needed |
| Runtime lifecycle, owners (`runtime.cpp`, `tsobject_owner.h`) | what is initialised | init, destroy, getExecutor, ownership of roots by C++ code | order of destruction, second init, destructors inside the sweep | not modelled but for destroy |
| Closures and environments (`tsclosure.cpp`) | environment, mask of optional parameters | construct, set an element | a mask of 32 bits for up to 63 parameters, built by the compiler, asked by C++ | a cell has the kind the body is compiled for |
| Objects, property chain, containers, iterators, strings, dates, text conversion, diagnostics | values | get, set, iterate, splice, format | iteration while the container changes | not modelled |
| Compiler: statements and control flow (`handlers/node/*`, `scope.ts`, `exiting_blocks.ts`) | blocks being written, stacks of exiting blocks, latches, landing pads, body exit handlers, scopes | one handler per statement | each stack is pushed and taken off by different handlers, and read by jumps inside | the code evaluates what the source evaluates, in its order; variables are rooted while their scope runs and not after |
| Compiler: functions, closures, calls (`functionhandler*.ts`, `concisebody.ts`, `scope.ts`) | scopes by name, environments, bound arguments | declare, capture, bind, call, generic functions, static methods | captures are found by name; all activations of a closure share one environment; bind writes into its function | the code sees the values the program sees |
| Compiler: expressions on values (`handlers/expression/*`, `llvm/value.ts`, `union.ts`) | objects places point to | operators, assignments, declarations, literals, arguments | numbers are objects, cloned by some stores and shared by others; some operators change them in place | places hold what the program says |
| Compiler: C++ integration, mangling, builtin classes (`cppintegration/*`, `mangling/*`, `tsbuiltins/*`) | instances written to two files, tables of symbols | three passes: instantiate classes, instantiate functions, generate calls | the passes find the members they need each in its own way | what one pass asks for the others have made; a call reaches the member its author wrote |
| Compiler: classes, accessors, inheritance, modules, types, driver, debug information | scopes of classes, none | register, translate | - | not modelled, or only what the above need |
| Declarator, tests, build, vendored libraries | none | text in, text out | - | out of scope |

How they interact: promises enqueue reactions through the executor into the
loop's queue and root themselves in the collector while pending; an allocation
may enqueue a collection into the same queue; timers are rooted by their
storage and fired by the loop; `Runtime::destroy` destroys the loop first and
the memory manager (with a last collection) after it. The compiler is where the
program of `GC` comes from: it roots what a scope declares (`ControlFlow`),
allocates cells and environments (`Closures`) and objects (`Values`), and calls
the runtime through members it looks up in the library (`Linking`).

## Modules

| Module | What it is |
|---|---|
| `ManagedMemory` | abstract: a heap that grows, and in one step becomes exactly what roots and timers keep; who waits may lose temporaries by it |
| `GC` | collector, memory manager, cleaner, diagnostics, timer storage and the program that uses them |
| `GCProperties`, `GCProofs`, `MCGC` | properties, proofs, TLC instance |
| `CallbackQueue` | abstract: a FIFO executor, what `IEventLoop::enqueue` promises to promises, the memory cleaner and native modules |
| `EventLoop` | `UVLoopAdapter` and `uv_run` as the adapter uses it |
| `EventLoopProperties`, `EventLoopProofs`, `MCEventLoop` | the same |
| `Promises` | `Promise`, `PromisePrivate`, `SharedPromiseInternalState`, `PromiseCallback`; the executor in it is a queue as `CallbackQueue` describes |
| `PromisesProperties`, `PromisesProofs`, `MCPromises` | the same |
| `SourceSemantics` | abstract: what a program evaluates next, by TypeScript's rules, whatever its conditions |
| `ControlFlow`, `GeneratedCode` | the handlers of statements as they write basic blocks; these blocks, run |
| `HeldResources` | what the blocks hold while they run, against the scopes of the program |
| `ControlFlowProperties`, `MCControlFlow` | the order of evaluations, the programs turned down, TLC instance |
| `HandlersProofs`, `HeldResourcesProofs` | a discipline of what blocks hold; the handlers keep it: those that begin, and those that end; the proofs about `HeldResources` |
| `RejectionProofs` | where the handlers leave each block: the proof about the programs turned down |
| `Programs`, `CaptureAnalysis` | programs of functions, calls and variables; which variables a function captures, as the compiler finds them |
| `Closures` | a program and its generated code, run side by side |
| `ClosuresProperties`, `MCClosures` | properties, TLC instance |
| `OptionalParameters`, `OptionalParametersProofs` | the mask of optional parameters, its property, proofs |
| `Values`, `ValuesProofs` | straight code over numbers and unions beside the objects it compiles to, its properties; proofs |
| `CxxTypes`, `RuntimeLibrary` | C++ types of TypeScript types; the members the library declares and the ones it exports |
| `TemplateInstantiator`, `SymbolLookup`, `LibraryCalls` | the first two passes; the tables of symbols and the look-up in them; the calls each construct makes |
| `Linking`, `LinkingProperties`, `MCLinking` | the passes composed, properties, TLC instance |

Operators introduced by "Fault:" in a component are plausible mistakes in the
definition that follows; none is part of a specification. Each property of each
run is violated when one of them replaces its definition (`PROJECT.json`,
"mutants").

### GC

`pc` says who runs. The program is the set of actions enabled at `"callback"`:
`Allocate`, `AddRoot`, `RemoveRoot`, `SetTimer`, `ClearTimer` are functions of the
runtime; `Store`, `Erase`, `Assign` are what compiled code does to the heap
(external to the runtime). `stack` holds temporaries: objects that frames of
the running callback refer to without a root. They are what makes the design
delicate: an allocation never collects, it only enqueues a collection
(`AsyncClear`), which the event loop runs between callbacks.
`RunScheduledCollect`, `CollectNow` and `Destroy` are the
three callers of `collect()`; `BeginCollect`, `MarkTimer`, `MarkRoots`,
`MarkRoot`, `Visit`, `Sweep`, `SweepObject`, `EndCollect` are its steps. The
recursion of `utils::visit` is the set `grey` of calls that have not begun, in
any order. `DeleteObject` is the deleter the collector is created with:
diagnostics, destructor (a timer stops its handle), heap.

A callback may run the loop itself (`processEvents()`, or `run()` after `stop()`;
`EventLoop` has the details). `EnterLoop` puts its temporaries on `frames`, `LeaveLoop` takes them
off again, and in between other callbacks, timers and the scheduled collection run. A
callback of the queue that has done this is no longer the queue's front: when it returns the
queue may pop the scheduled collection in its stead (`PopCollection`), which sets the history variable `missed`. The flag of
the cleaner then stays set and no collection is ever scheduled again; `OneCollectionAtATime` and `GarbageIsFreed`
name this case.

What the collector promises about temporaries follows from that, and is in `ManagedMemory`: an object that a callback
holds in a temporary and nothing else keeps is safe as long as the callback runs, whatever it allocates. It is lost when a collection runs while the
callback waits: for a `gc.collect()` of its own, or for a run of the loop. Nothing in the runtime prevents
that, and the compiler roots variables (`ControlFlow`) and no intermediate results. So `Sweep` takes what is unmarked from `stack` and `frames`: to use such an
object afterwards would be undefined, and the model assumes the program does not.
That includes what the runtime's own frames hold. A one-shot timer is inactive in its own callback
(`uv_timer_adapter.cpp:54-59`), so a collection that runs in it drops the entry of the timer (`gc_object_marker.cpp:17-20`) and frees timer and
closure while they are in use (`FireTimer` puts both into `stack`).

### EventLoop

`frames` is the C++ stack, innermost first: runs of libuv with their phase,
callbacks of the queue (`"reaction"`), callbacks of timers. The program
acts when the innermost frame is a callback, or there is none. `Run`,
`ProcessEvents`, `Stop`, `Enqueue` and `Destroy` are the methods of the adapter;
`CallFront`, `ReturnFromReaction`, `QueueDrained` are `processQueue` and the
idle handler, which keeps the callback at the front of the queue while it runs
and pops it afterwards. `BeginIteration`, `FireTimer`, `TimersDone`, `RunIdle`,
`CloseHandles`, `RunReturns`, `CloseLoop` are the phases of `uv_run`. Time is abstracted: a
timer is waiting or due, and an iteration may make any waiting timers due.

`Reentrant` is the set of functions that enter the loop when the queue calls
them. Such a callback is called again by the inner run, as it is still the front, and
the outer one then pops another callback or pops an empty deque; the model
follows it up to that undefined pop. The FIFO contract is checked and proved for
`Reentrant = {}`, and `loop_reentrant` shows what survives without that
assumption.

### Promises

A promise is an identity. `reactions[p]` are the promises that `p.then()`
returned: as one promise comes from one call they also name the reaction and its
`handler`. `joined[q]` are the promises resolved (or rejected: the code does not
distinguish) with `q` while it was pending. `emitting` is the stack of
`EmitterBase::emit` loops in progress: an emission first serves those that wait,
each of which may start an emission of its own, then drops the root and hands
every reaction to the executor. `Then` on a ready promise emits again to all,
as the code does, so reactions run several times; `reacted` and `resolving` are
history variables. Handlers either take the result (`unary`) or, as in
`finally()`, nothing (`nullary`: the outcome is transferred), or are absent.

### ControlFlow

A program is read statement by statement: the tree grows while the compiler
walks it (`Expression`, `OpenFor`, `Else`, `CloseFor`..., one action per
visit of a handler), so a run goes through every program of a family up to
its number of statements. `code` is the basic blocks; `exiting`, `latches`,
`bodyExit`, `pads` and `scopes` are the stacks the handlers share. When the
function is complete, `WellFormed` decides what LLVM's verifier does, and `GeneratedCode`
executes the blocks, with any outcome of each condition and any call throwing; it keeps track of
what is rooted. `SourceSemantics` is the reference: the evaluations of the source and the
order in which TypeScript allows them. `FollowsSource` compares the two as graphs, from every
evaluation that the blocks can reach.

The properties name on the source where the code is known to differ, and hold
without exception elsewhere: a break after a completed switch goes to the end of that
switch (`switchhandler.ts:47` pushes, `exiting_blocks.ts:3` is not asked to take off);
a continue after a completed loop inside goes to that loop's latch; a default
clause is moved to the end, which matters when clauses fall through; the default block is found by the word in its name
(`switchhandler.ts:120`), and the names of blocks are texts of the program (`:79`), so that a `case "default"` takes what matches no case;
the discriminant is evaluated again before each test (`:131-137`), which shows if it has an effect; `finally` is not
generated; an exception of a function that is not known (`builder.ts:11`) leaves the try
statement; `&&` and `||` evaluate both operands; the copies of loop counters are
released by handlers that a continue of another loop also calls
(`loophandler.ts:590`); a return releases the roots of its own scope only
(`builder.ts:190`).

Programs the compiler turns down, itself or by LLVM's verifier, are those `RejectionIsExplained` names. Four
constructs (`HasReason`) stop a handler or leave a block that does not end exactly once:
a continue that is not the statement of an if (it writes behind its own branch), a try statement without
a catch clause (its landing pad stays empty), a throw or a call that throws in a catch clause no try statement surrounds
(the stack of landing pads is empty), and a jump at the end of a block that declares variables (the roots are let go of
behind it; a return or a throw in that very block has done so already and says so).
Each is a legal program. Two more leave blocks that all end, but use a value where it has not been made (`Defined`), which the verifier
refuses too: a break or a continue that finds a stale block, such as a continue into the latch of a completed `for..of`, whose iterator
an if around it may not have made, or a break to the end of a switch in a function expression before it; and a continue in a function expression
that finds, on the stack of the compiler, the handler for the counter of a `for` loop of the function around it.
That there is no seventh is what the property adds. `HasReason` is proved to be all that can stop the handlers or leave a
block without its one end, for programs of any size; that values are only missing behind stale blocks and foreign handlers is checked on the
run's programs.

`Defined` follows the values the handlers make: roots, counters, their copies, iterators and elements.
What the expressions of the program refer to is left out. `AliveInScope` says that each variable in scope has been made on every
path wherever it may be used if no jump finds a stale block, so these uses can only add rejections to programs that have one.

The stacks of exiting blocks, body exits and landing pads belong to the whole compiler (`exiting_blocks.ts:5`, `loophelper.ts:20`, `builder.ts:37`),
and function expressions are compiled in the middle of the function around them. A `Closure` is such an expression, seen from outside: it leaves
its own exiting block on the stack; it is assumed to be accepted itself. Seen from inside, the function that is compiled may find below its own entries those of the function around it:
the option "outer" of the function says that the innermost handler there is that of a `for` with a counter (`OfOuterLoop`). A foreign landing pad is not
followed, as what would reach it is turned down either way, for want of a pad or for a branch into another function.

What is held: `AliveInScope` excepts the jumps that take a stale block from the stacks (`StacksMatch`), `NothingStaysHeld`
also jumps and exceptions that cross scopes that keep anything (`Tidy`). There only a call the compiler
knows to throw is caught by a try statement of the function (`Unwinds`): any other throws past it, and past the locals around it.
The proof found this: the property had taken every call in a try statement for one that is caught, and no family of
the run had the other kind beside a local; one has now.

### Closures

A program is a set of functions, each with parameters (required, optional, with an
initializer, rest), a body and a parent; statements declare, assign, increment, swap, call,
bind and return. `Closures` executes it twice: by TypeScript's scoping (a frame per activation,
names resolved where they are written), and as generated: cells that point to objects,
scopes found by name, environments made by `CaptureAnalysis`, arguments stored into the
environment of the closure. Every look at a variable compares the two values;
`status` becomes "differs" at the first one that is not equal, "rejected" when
the compiler would have failed. `FollowsProgram` says that neither happens unless the
text of the program has one of the constructs in `Unfaithful`, sixteen conditions with
the reason at each: shadowing between a block and the function (`concisebody.ts:150`
against `scopes`), a local variable that takes the place of a captured one, assignments to a captured
parameter, parameters read after the function was entered again, defaults evaluated in
the caller, arguments that have the name of an earlier parameter, and the uses of bound, generic and
static functions that share an environment or a scope. They are conditions on the text, as weak as the runs allow:
every other program of the families behaves as written.

### OptionalParameters

`CreateClosure` makes the mask as the compiler does (`builtins.ts:234`: `1 << i` in
32 bits, though the check at `:229` allows 63 parameters) and passes it as a double; `SetEnvironmentElement`
is `TSClosure::setEnvironmentElement`. Where C++ leaves the result undefined, both outcomes are
taken.

### Values

`value` is the program's state: a number, or `undefined`, per place. `slot` and `content` are the
heap of the generated code: the object each place points to, directly or through a `Union`. Each
statement is one action, with the order in which the handlers load, clone, change in place
and store. `held` are the objects earlier operands point to; `disturbed` says that one of them, or one that another place
points to, was changed. Objects are named after the first place that points to them, as
addresses mean nothing; this is what keeps the state finite. The places of a run are two
or three variables, properties of one object each, elements of one array each. The constants
are assumed to be what they stand for: a place is of one kind, places can be told apart by `Rank`, and
a program has finitely many of them.

### Linking

A program is a tree of typed nodes. `InstantiateClasses` and `InstantiateFunctions` collect, each with
its own visitors, what has to be instantiated; each result is compiled, which adds
symbols to the tables; `GenerateCall` looks up the member of each call
(by class, name and the text of its parameters, as `SymbolLookup` has it) and fails when the
look-up finds none or more than one, which the compiler or the linker reports; `Link` completes
a program all of whose calls were found. `found` is the member the look-up gave, `meant` the one the declaration names.
The library is a set of declarations with and without an instance of `map` of its own. Where the passes
disagree is named in `LinkingProperties`: variables of array type without an initializer, literals
of mixed elements, `map` inside another method's call or elsewhere instantiated in the library, arguments of another C++ type than the
parameter, `push()` of nothing, arrays of maps of arrays, array types only nodes below another array have.

## Runs

| Run | Shows | Bounds, states |
|---|---|---|
| `gc` | types, no use after free, timers alive, exact accounting, one collection at a time, nothing left, implements `ManagedMemory` | 2 objects and a one-shot timer, 1 root variable, 3 references from object to object, one callback that waits for a run of the loop (`MaxDepth`), sizes with which all three objects exceed 85 % of the limit; 1 276 000 states. Enough for a chain root - object - object, a cycle, a timer's closure, reuse of every address, a second scheduling during and after a collection, and a collection inside a run of the loop that a callback or a timer waits for |
| `gc_live` | garbage is freed while a collection is scheduled | an interval in place of the timer, 1 reference; 306 000 states |
| `loop` | types, closing, complete runs, FIFO | 2 callbacks, a one-shot and an interval timer, queue of 3, runs begin at depth less than 4 (run - callback - run - callback); 53 000 states |
| `loop_live` | callbacks are called, timers fire, the loop ends, the destructor returns | queue of 2, depth 3 |
| `loop_reentrant` | no lost wake-up and nesting, also when callbacks of the queue run the loop (complete runs are a theorem there too) | 2 callbacks, 1 timer, queue of 3, depth 4; 13 500 states |
| `promises` | settles once, nothing early, outcomes passed on, types | 3 promises, 2 values, then, catch and finally, 2 listeners per promise; 726 000 states |
| `promises_wide` | nothing lost or out of order, waiting promises follow, roots | 4 promises, one value, 1 listener; 558 000 states. Chains, trees, cycles of joins, then() on ready promises |
| `promises_live` | reactions run, chains settle | 3 promises, 1 value |
| `promises_reject` | a divergence, below | 2 promises |
| `control_flow` | the code evaluates what the source does; no program is turned down but for six reasons; variables rooted in their scope; nothing left rooted; values of straight code; copies share nothing | functions of 4 to 6 statements of eight families, every combination; 5 sets of places for `Values`, arithmetic modulo 2, expressions of one operator; 216 000 states. Four statements are a loop in a loop with a jump and a statement after it; modulo 2 every change of a number is seen |
| `closures` | the code sees what the program sees; arguments stay in parameters; the mask of optional parameters | about 11 000 programs of two to three functions in six families, activations nested 3 deep; closures with up to 63 parameters; 210 000 states |
| `linking` | programs link; calls reach the member meant | about 1 700 programs of two statements, each with two libraries; 90 000 states. Six types of elements: numbers, strings, unions, classes of C++, arrays of both |

`MaxReferences` (of `GC`), `MaxDepth` (of `GC`, `EventLoop` and `Closures`), `MaxQueue` and `MaxJoins` are the
only bounds in guards; the compiler's runs are bounded by their families of programs.
`SYMMETRY` is used for promises, values and objects where only safety is checked:
nothing distinguishes them. `CHECK_DEADLOCK FALSE`: a destroyed runtime stops,
and so does a program whose promises are all used, a compilation and a compiled program
at their end, and straight code once a place is wrong.

`Values` and `OptionalParameters` are independent of `ControlFlow` and `Closures`, and run
in the place of a program without statements: the instance modules
compose them, one or the other, with disjoint variables.

**Fairness.** `GC`: a callback returns, `collect()` runs to its end, and the
queue is drained in every iteration of the loop even if timers keep firing
(strong fairness of `RunScheduledCollect`). `EventLoop`: callbacks return (those
of timers may run the loop meanwhile, hence strong fairness), the thread does not
stop inside the loop, the clock advances, due timers are taken in the order in
which they became due as libuv does, and the generated main function runs the
loop. Nothing is assumed of the program's stopping to enqueue: properties that
need it state it (`CallbackIsCalled` needs that the loop is not stopped for ever
and that timers without delay do not re-arm one another for ever; `TimerFires`
that callbacks do not enqueue callbacks for ever: either can starve the other
in the code, as both `while` loops run until empty). `Promises`: the emission loop and the
executor go on, handlers return or throw. The compiler's modules state safety
only: a compilation is a finite walk.

## Theorems

All for any values of the constants. From the assumptions stated at the
constants only, except where said.

* `GCProofs`: `TypeCorrect`, `Safety` (no use after free), `TimersStayAlive`,
  `CollectionsTakeTurns`, `AccountsAgree`, `EverythingIsFreed`,
  `Refinement` (implements `ManagedMemory`), for callbacks that wait for the loop in one another to any depth. The invariant `IInv` says, per phase of
  `collect()`, what marking has done so far (the tri-colour invariant: children
  of a marked object are marked or grey; every root or timer already passed is
  too), that outside the sweep the heap is closed under children, garbage
  included, and that during the sweep the marked objects are a closed part of the heap
  that holds all that roots, timers and temporaries refer to. Without closedness of
  garbage a store through a dangling pointer could not be excluded. At the end
  of marking, marked is exactly the reachable set (`ReachableFrom` is the least
  closed set, so both inclusions need no induction over paths), which the refinement uses:
  the abstract collection happens when the sweep begins, and what it takes from the program were temporaries of callbacks that wait,
  because without them what is live is what roots and timers keep (`Refinement` needs no assumption that temporaries are rooted). For the accounting, what
  is in use is the cardinality of a set of units, one per object and unit of its size, rather than
  a sum, whose induction over a fold the prover could not do.
* `EventLoopProofs`: `TypeCorrect`, `NoLostWakeUp`, `RunningIsTrue`,
  `ClosingIsQuiet`, `NothingStaysOpen`, `RunIsComplete`, for any callbacks, re-entrant
  ones included, and `Refinement` (implements `CallbackQueue`) assuming
  `Reentrant = {}`. The lemmas `EnterStack`, `LeaveStack`, `GoToStack` say what
  entering, leaving and moving a frame does; `Closing` (while the loop closes
  only runs of `closeLoop` exist, no timer is armed, the idle handle is not
  active) carries the two theorems about the destructor; `DefaultRunsOn` and
  `Closing` with `NoLostWakeUp` give `RunIsComplete`; `FrontIsCalled` (a callback
  in progress is the innermost frame and the front of the queue) gives the refinement.
* `PromisesProofs`: `TypeCorrect`, `Immutable` (settles once),
  `EveryReactionIsServed`, `NoReactionIsEarly`, `WaitingFollows`,
  `RootsAreExact`, `OutcomesArePassedOn`, `ReactionsRunInOrder`. The invariant: `Due` (whatever waits in the queue, in an
  emission or in a list of listeners is *free*, that is, what it reacts to is
  ready), `Forest` (a promise reacts to one other at most), `Following` and
  `Serving` (what the promises that are ready still owe is in an emission in
  progress or in the queue), `Rooting`. That types are preserved needs `Due`: an outcome
  is copied from another promise and is one only if that one is ready. The order of
  reactions needs that what is pending of a promise, in the emission and then in the
  queue, is in the order of attachment. `Unset` is assumed to be neither a value nor a promise.
* `OptionalParametersProofs`: `NarrowKindsAreKept`, for any number of parameters below 32:
  what C++ sets keeps the kind the body is compiled for. The argument is that the bits of
  the mask are then the places themselves.
* `ValuesProofs`: `PlacesHoldTheProgram`, `CopiesShareNothing`, `MemoryStaysSound`, for any
  places and any modulus. `Fits` says that each place stands for the program's value, directly
  or through a `Union`; `Sound`, `Kinds` and `Numbers` that what pointers lead to exists and is of the kind the code
  takes it for. Each operation of the code (load, clone, store, change in place) has a lemma of what it does
  to these and, as `Preserves`, to the operands evaluated before it: either they still stand for the
  same values or `disturbed` is set, and then the statement is excepted. Expressions and statements are chains of
  these lemmas. What makes the invariant `VInv` inductive although objects are renamed after each statement is that the
  names (by the place that points to an object, and whether directly or through a `Union`) are injective, which is what `RankAssumption` is for.
* `HeldResourcesProofs`: `VariablesStayRooted`, `NothingIsLeftRooted` and the invariant both follow
  from, `BlocksHoldScopes`, for functions of any length and nesting and every run of their blocks.
  The first part of `HandlersProofs` is about blocks alone: a typing says what is held where each block begins, and code is typed if
  every instruction finds what it needs and every branch finds what its target expects; each way in which the compiler writes
  (appending, a new block, before a terminator) keeps this. The second part gives the typing: a block is entered
  with what the scopes around its statement keep (`HeldIn`), which no statement added later changes. What makes the invariant inductive is
  `Matches`: while the compiler works its stacks mirror the handlers in progress (the exiting blocks on top are those of the loops and switches
  in progress, as far down as no completed switch has left its own; the scopes are those of the handlers; the flag that a scope is deinitialized
  is set only if the block is terminated), and the end of the block it writes to holds exactly what is in scope. There is one lemma per handler (`OpenForStep`,
  `CatchStep`, `ReturnStep`..., in `HandlersProofs` and `HeldResourcesProofs`) and one per instruction of the run. Until LLVM's verifier has accepted the blocks code may follow
  a terminator, so all of this is said under the condition that none does and that every try statement has a catch clause: the
  landing pad of one without stays empty, which the verifier refuses.
* `RejectionProofs`: `RejectionsHaveReasons`, for functions of any length and nesting, and without the conditions above:
  whatever the jumps find on the stacks, also the stale blocks of statements that are complete, a program is turned down because it has one of the four
  constructs of `HasReason`, or else its blocks all end exactly once and a value is missing (`ValueIsMissing`). The invariant `ReasonInv`
  says that while nothing in the program read so far explains a rejection the compiler is `Going`, which is `Steady` for its
  state: every block that no handler in progress will still write to has ended, once and at its last instruction; the blocks that the handlers in progress have
  reserved (the end of a loop, the clauses of a switch, the pads of a try) are empty; each pad on the stack belongs to a try statement
  that has its catch clause still to come, in order; and the block written to has ended only if a jump stands at the end of the
  list of statements in progress, so that nothing but the end of that list can follow. There is one lemma per handler (those that end in `Goes`) that it keeps this,
  or that its own statement explains the rejection. `StaysExplained` says that an explanation is one for ever, as nodes are only
  added to the program: that is why the invariant need not say anything after the first one. When the function closes
  no handler is left, so every block has ended once, which is the first thing LLVM's verifier asks for; the second, that values are made
  before they are used, is not followed in this proof. TLC checked this invariant
  on the run's programs before it was proved. As the definition of `Completes` is a recursive function, `CompletesIs` first shows that a function exists
  that satisfies it, downwards from the last node; the rest uses only the equation.

Only model-checked: liveness, which is out of the prover's reach, and six safety properties.

* `FollowsSource` says that the graph of the blocks and that of the source allow the same next evaluations. That the
  blocks end as they should and hold what they should is proved above; that each *leads* where the source does
  is an equality of two reachability relations, which for each handler needs an induction over paths
  in a graph that later handlers still change. It stays with the run, over every program of its families.
* `RejectionIsExplained` is proved but for its last part, that only stale blocks and foreign handlers make a value
  missing: that is an argument about the paths of the graph again.
* `FollowsProgram`, `ArgumentsStayInParameters`, `ProgramsLink` and `MeantIsCalled` compare what two recursive evaluations
  of the same program yield, or hold for the calls TypeScript's typing admits, which the families contain but no constant states:
  for arbitrary families they are false.

Every other invariant and action property of the runs is proved.

## Findings

A promise resolved with a pending promise is not locked: a call of its reject
function after its resolve function settles it (`PromisePrivate::joinPromise`,
`promise_p.cpp:77`), while `src/test/src/compiler/cases/basic/promises.ts:214`
says "Check resolve call and reject call. Reject should be ignored". The test
itself resolves with a value, where this holds. Run `promises_reject`.

The constructs the compiler's properties name (above) are where generated code is
not the source; no statement of the repository is about them. Exposed without a
property, as no statement is contradicted or the
module that would show it is not written (see "hazards" in `PROJECT.json`):
handlers called again through raw pointers after the promise that kept them alive
may be collected; a promise that waits may be collected before the one it waits for
settles, as `success()` drops its root at once; a promise resolved with itself
never settles; `stop()` before `run()` makes that run return at once; the
executor outlives the loop it refers to; the collector's object allocates
when it is asked for, which happens in destructors that run inside the sweep.

## Not modelled

Runtime: names of roots and the debug validator of the collector (diagnostics), the
conversion of delays and identifiers of timers, memory of promises, a second
initialisation, owners of roots in C++ (they add and remove roots as `GC`'s program does), containers,
property look-up, strings, dates and conversions to text: functions on one object without a
protocol.

Compiler: classes of the program (constructors, accessors, super calls, inheritance, name
spaces), which are registrations under mangled names; types and the checker of TypeScript, which is external;
casts, templates, spread and `in`; text forms of names and signatures; debug information and the driver. In the modelled
parts each component's note in `PROJECT.json` says what is left out. The declarator translates headers
to declarations, text in and text out.

## Plan

Written: the runtime's core with its proofs, and the compiler's translation of
statements, functions, values and library calls. What would come next:

1. Promises and `GC` composed: the closures and promises listeners and reactions refer to by raw
   pointer, the root, the collector between any two callbacks; the conditions
   under which whatever an emission or the executor touches is alive.
2. Two generations of the runtime: init, destroy, init, and the executor that is created
   once; owners of roots in C++, destroyed inside the sweep.
3. Classes of the program: environments of methods and constructors, accessors, super.
4. Containers with iterators that live while the container changes, against
   reference definitions.
