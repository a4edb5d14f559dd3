# Volentscript in TLA+

Volentscript compiles a typed ActionScript-like language to native code through
LLVM and links it with a runtime written in Rust. This directory models the parts
of it that are hard to test: the garbage collector and its marker threads, the
natives that call compiled code back, exceptions by `setjmp`/`longjmp`, the
lowering of `try`/`catch`/`finally`, the removal of bounds checks, classes and their
dispatch, what static types and control flow let the compiler conclude, and the
collections of the language with the loops and callbacks that run over them. Paths below are relative to `src/crates`
unless they start with `tests/`.

Run a model with `tlc -config MCGcHeap.cfg MCGcHeap`, a proof module with
`tlapm GcHeapProofs.tla`.

## The system

| Component | State | Operations | Correct when |
|---|---|---|---|
| **Heap** `runtime/src/gc.rs` | arenas, per-class free lists, large regions, live bytes, allocation debt, `PENDING`, `defer`, root ranges | `alloc`, `safepoint`, `collect`, `add_root`, `defer` | nothing reachable is freed, everything else is, a block is handed out once, a debt is always settled |
| **Mark phase** `gc.rs:559-825` | worklist, `idle`, `done` under a mutex; one mark byte per block | `mark_worker`, `serial_mark`, `parallel_mark` | it ends; marked = reachable; one tracer per block |
| **Exceptions** `runtime/src/exc.rs` | thread-local handler stack with saved `defer` depth; the exception in flight | `push_handler`, `pop_handler`, `throw`, `take_current` | a throw lands in a live frame with the deferral depth of that frame |
| **Natives** `runtime/src/ffi.rs`, `seq.rs`, `conv.rs` | the `RefCell` borrow of each array; elements staged in Rust vectors; `DeferGuard`s | array, vector and conversion functions; those that call back: `iterate`, `sort`, `sort_with`, `apply`, `join` | no borrow conflict, no staged element swept |
| **Sockets** `runtime/src/socket.rs` | `kind: RefCell<Kind>` | connect, bind, accept, read, write, close, `local_port` | after `close` operations throw |
| **Objects** `object.rs`, `namespace.rs`, `closure.rs` | property map of dynamic objects, interned namespaces, captured environments | get/set/delete, `for..in` enumeration, `invoke` | enumeration is sane while the body mutates |
| **Conversions, strings, regexps, dates, system** `conv.rs`, `string.rs`, `regexp.rs`, `date.rs`, `natives.rs` | `lastIndex` | sequential | round trips, ES3 rules |
| **Code generator** `codegen/src/llvm.rs` | stacks of exit actions and jump targets, the current block | `stmt`, `emit_try`, expressions | the compiled program means what ES3 says; the LLVM verifier accepts it |
| **MIR** `mir/src` | - | `lower.rs`; `bce.rs` removes bounds checks in counted loops | an unchecked access is in bounds |
| **Type and null checker** `sema/src` | scopes, class tables, narrowed variables | one pass | what it accepts has no null dereference |
| **Front end and driver** `lexer`, `parser`, `ast`, `diagnostics`, `span`, `driver`, `cli` | - | sequential | snapshot tests |

How they interact. The code generator emits a safepoint at the head of loops and
functions, a stack frame the collector scans conservatively, and a root range for
every static. Allocation never collects: it raises `PENDING`, and a safepoint
collects if no native holds a `DeferGuard`. Natives run to completion unless they
call compiled code back (a callback, or `toString` of an element); then loops,
allocations, safepoints, throws and other natives run below them. `vs_throw`
restores the deferral depth that the handler saved and leaves by `longjmp`, which
runs no Rust destructor. A collection stops the only mutator, marks, from one
mebibyte of live data on with up to four threads (`VS_GC_THREADS` overrides), and sweeps.

Hard: marker threads against each other; safepoints below natives; exceptions
through natives; jumps and exceptions across nested `finally`; what one look at a loop
may assume of its iterations; programs that change a collection while they run over it;
an operator with two implementations, chosen by static types; a fact about a variable
that outlives an assignment; tables built in one pass over declarations in any order.
PROJECT.json lists each hazard at its line.

## Modules

| Module | Models | Uses |
|---|---|---|
| `MarkSpec` | what a mark phase promises: mark one reachable block at a time, finish when all are | |
| `ParallelMark` | `mark_worker`, `serial_mark`, `parallel_mark`; implements `MarkSpec` | `Abstract == INSTANCE MarkSpec` |
| `ParallelMarkProofs` | theorems about `ParallelMark` | `SeqLemmas` |
| `GcHeap` | the collector as the program sees it: allocation, natives, exceptions, safepoints, sweep | |
| `GcHeapProofs` | theorems about `GcHeap` | `SeqLemmas` |
| `Reentry` | borrows, handlers and deferral when natives are re-entered or left by `longjmp`; sockets | |
| `ReentryProofs` | theorems about `Reentry` | |
| `TryLowering` | `stmt` and `emit_try`, and the meaning of statements in ES3 | |
| `Bce` | the loop versioning of `bce.rs`, and a function run before and after it, in step | |
| `Classes` | declarations, class tables, conformance, constructors, descriptors, dispatch and type tests | |
| `Typing` | one statement with an operator: checker, lowering, code generator and the boxed operations of the runtime | |
| `Elements` | the values that collections hold and their conversion to an element type | |
| `SequenceSpec` | what `Array`, `Vector.<T>` and dynamic objects promise: a finite sequence and the effect of each call | `Elements` |
| `Collections` | the buffers, the typed, in-line and boxed ways to them, `for..in`, callbacks; implements `SequenceSpec` | `Promise == INSTANCE SequenceSpec` |
| `Flow` | narrowing, type guards, completion and jumps as the checker sees them, against runs of the body | |
| `BceProofs` | theorems about `Bce` | `SeqLemmas` |
| `ClassesProofs` | theorems about `Classes` | `SeqLemmas` |
| `CollectionsProofs` | theorems about `Collections`: its functions, then its calls | `SeqLemmas` |
| `TypingProofs` | theorems about `Typing` | |
| `SeqLemmas` | facts on sequences the proofs cite; induction and loops of n steps, stated with sets and functions | |
| `MC*` | constants for TLC | |

`GcHeap` takes a mark phase as one step that marks exactly what is reachable;
`ParallelMark` shows that the threads do that. They fit together at `Claimed`.

### ParallelMark

One action per lock section of `mark_worker` and per step outside the lock. `pc` is
a worker's place (`run`, blocked in `cv.wait`, `woken` and waiting for the lock,
`returned`); `batch`, `cur`, `todo` and `produced` are its local variables: blocks
taken, the block being traced, references still to scan, children claimed. A scan
of a reference (`ScanReference`) ends in `claim`, an atomic swap of the mark byte.
`Acquire` deposits `produced`, notifies, takes a batch or counts the worker idle;
`Recheck` is the loop around `cv.wait`; `SpuriousWakeup` is what a condition
variable may do. A small heap is marked by one thread and the serial loop (`serial`,
chosen freely in `Init`, since live bytes and the CPU count are not in the model).
Which word of memory counts as a pointer is the given relation `children`.

### GcHeap

Small blocks are the places 1..MaxSmall of one size class, carved in order
(`bumped`) and recycled through `freeList`; large ones come and go. `type` is the
tag with which a block is boxed, `refs` the pointers in its payload or side
storage, `roots` what compiled frames and statics hold, `frames` the stack of
natives (with the elements they `staged` in Rust memory) and try statements (with
the depth they saved). `ProgramReach` is what the program may still use. It uses
`refs`; the collector uses `traceRefs`, the references `trace_children` and
`mark_any` follow. `safepoint` and `SystemGc` run the whole of `collect`: mark,
sweep of both spaces, free list in address order, marks cleared, debt settled, new threshold.
`found` is what `find_block` resolves, live blocks without a mark: a mark that a sweep forgot
would keep its block from being traced. A reused block gets a new type and new references. The
property map of an object (`PropMap`) and the source of a RegExp are traced like the rest; a Socket
refers to nothing collected.

A guard of `GcInCallbacks` tells whether the program calls `System.gc()` below a
native; `Boxable` says which tags it puts in arrays and vectors.

### Reentry

The cells are arrays and sockets with their `RefCell` flag (-1 mutable, n shared).
`Natives` are the five kinds that run compiled code below them with what they keep
meanwhile: `join` a shared borrow, `sort` and `sort_with` a mutable one, `iterate`
and `apply` none; the last three a `DeferGuard`. Everything else finds a borrow
free or panics, and a panic in an `extern "C"` function aborts. `unwind` is
`longjmp`: frames above the handler vanish and their borrows go to `leaked`, a
history variable. Socket operations that throw hold their own borrow at that time.

### TryLowering

A program is a tree of logs, throws, jumps, conditionals, loops and try statements.
`Emit`, `EmitStmt`, `emit_try`, `run_exit_actions` build code as the generator does,
with its stacks of exit actions and frames; `verify` is LLVM's rule that nothing
follows a terminator in a block. `Exec*` run the code with the handler stack of
`exc.rs`; `Eval*` give the ES3 meaning (12.14, and §12.6 to 12.13 for jumps). The
run compares the two traces and completions. The operators are recursive, so this
module is for TLC only. `When` runs its body or not by a condition that the
generator cannot see: TLC lets it run, and the branch not taken only joins.

### Bce

A function is a flat table of statements (`code`) that name those inside them by their
place in it, so that what nests needs no recursive operator. `Walk`, the statements that
`collect_stmt` meets in a loop body, is the least set closed under `Entered`; the walk does not
enter the tests of switch cases nor called functions, and both may have effects. Counts of
good reads and all reads become the question whether an occurrence is not good (`Reads`). `rewrite`
gives each loop the vectors it is versioned for. The copies of a statement differ only in which of
the loops around it are the unchecked ones: that is `fast` of an item to do, from which `mark` says
whether an access has lost its check.

`before` and `after` are two runs of the function, without and with the pass, that take one step
at a time together: memory, log, and `todo`, the statement to run and what follows it in the blocks
around it (a loop is an item "cond" or, below its body, "update"). The guard is evaluated in the step that
initializes the loop. A vector is its length, every access is logged, and an unchecked
access out of range ends the run as "ub". `Push`, `pop`, renewal, assignments, statics, branches,
`break`, `continue`, nested loops, switches and calls may be in a body.

`VersioningIsSafe` holds outside three conditions, each necessary: the vectors have two
names (`NoAliases`); a call or a case test changes them or a local (`NothingHidden`);
the bound changes by other means than an assignment to a local (`BoundsHold`: it reads
`i` itself, a static that the body sets, or the length of a vector that the body makes
longer).

### Classes

A program is a sequence of declarations. `phase` goes through the passes in order:
the checker resolves bases and interfaces, lays out slots, builds the method tables
and checks overrides and conformance (`classes.rs`, `check/decl.rs`); lowering
completes constructors and interface tables (`lower.rs`); the code generator emits
descriptors (`image`). Then the program runs: one action is one operation (an access
through a class, a static, an interface, `super` or a namespace; a type test, a
widening, a construction), by the indices the compiler burnt in and the tables the
descriptors hold, and `event` says what it did. Checker and lowering look for a `super(...)`
anywhere in a constructor's text: `super` is the set of counts with which the one written may run
(a branch, a loop, a return before it), and a construction chooses one per class (`turns`), the
same each time that constructor runs in it. The properties compare that with
the declarations, read by `Ancestors`, `Declared` and `MostDerived`, which know no table.
A name is a pair of namespace and name (the code joins them in a string). The walks of the code
along `parent` and `extends` are sets here: `Chain` and `Reach` are what the walk meets,
`Nearest` where it stops first, `Loops` a walk that would not end.

The families in `MCClasses` leave out what the code does not support or gets wrong
by itself: rest parameters of methods and constructors (`lower.rs:645` bundles them
only for calls of function values), a name that is both a field and a method in
different namespaces, `super` in closures, an interface declared before its own base
interface (`build_iface_methods` walks declarations in order and misses the inherited
methods). Also seen, and modelled as written: a write is checked with the getter's
visibility; a static method read as a value and `super.m` are not checked at all
(`expr_class.rs:174`, `805`, `946`); a call of an interface method makes no null check.

### Typing

A statement `variable = operator(operands)` goes through `Check` (types and
coercions), `Lower` (what the backend lacks is gated), `Execute` (machine code chosen by
the shape of each value; `convert`, `equality`, `relational`, `bit_op` and their boxed
fallbacks `any_*`) and `Read`. The variable may be captured: its cell is a box. Ints
have `Width` bits. Not kept: the sign of zero, `*`, `/` and `%` apart from `-`, joined texts
that would read as numbers, and the value of `x++` as an expression.

`TypedMatchesDynamic` holds outside three conditions, each necessary. `UncheckedOperand`: the
checker lets through a call that returns nothing as an operand, and casts for which
the generator has no arm. `MisshapenValue`: `null + e` is typed `*` and computed as a
String; `e as Function`, `Socket` or `Namespace` is typed as its target and
computed as a box. `TextOfNull`: the text of a null Array, Vector, Date, ... is not
always "null", and a null String makes `+` a concatenation. `EqualityAgrees` names the kinds
to which `conv.rs:212-240` gives no strict identity (a boxed RegExp is not `===` itself);
`is Function` is never true.

### Collections

The receiver is a buffer: `store.cells` up to the capacity, of which `len` are in use, so
that stale cells, growth and truncation are there. `Call` is one operation by one `path`:
`typed` (with the in-line element access `SeqGet`/`SeqSet` of the code generator) or
`boxed` (`vs_any_*`). `ForIn*` is the loop as lowered, which asks for the count and
the key by index again each turn; `Iteration*` are `join`, `forEach`, `map`, `filter`,
`some`, `every` with a callback that makes calls on the same receiver.

`KeepsPromise` says every step is a step of `SequenceSpec` or one of `Departs`, the
known departures: an index that is no number is read as 0 (`a["foo"] = x` overwrites
element 0, and an in-line vector read at NaN reaches code declared unreachable, `llvm.rs:2350`);
`Array[Infinity] = x` overflows; `splice` without a count; a comparator that is no
order may make the standard sort panic; a boxed write to `Vector.<C>` does not check
the class; the in-line store evaluates the value before the receiver; a change of an
Array below its own `join` finds the borrow and aborts. Fractional indices, the
variable of `for each` and the lifetime of buffers are left out.

### Flow

A body has one local `x` of a nullable class type, a catch binding `e`, and a return type
that excludes null. `CheckBody` runs the checker's judgements (`narrowing_of`,
`update_narrow_on_assign`, the frames each statement pushes or fails to push,
`completes_normally`, `check_jump`); `Compile` the labels of the lowering and the frames of
the code generator; `Run` gives every outcome (`Exec*`; a loop is followed to a fixed
point, so no count bounds it).

A condition is made a Boolean before it is read (`Proven`): of a bare `x` that proves `x`, as an
operand of `&&` or `||` it proves nothing. A body has at most one typed catch clause, so that its
binding `e` is one variable; it is declared from its clause on. Nulls that come out of `*` are
outside the model.

The checker concludes too much in eight ways, named as `risks`; `NarrowingIsSound` and
`GuardedCastsHold` hold for bodies without one, and TLC finds each of them necessary:

* `loop`: a fact established before a loop that assigns `x` is used in it;
* `leak`: `for`, `do`, `for..in`, `switch` and `try` push no frame, so a fact established
  in their body stays after it;
* `exit`: one branch leaves, the other assigns: after `if (x != null) x = null; else
  return;` `x` counts as not null;
* `condition`: the condition assigns `x` after testing it;
* `closure`: a closure that assigns `x` is called after the test;
* `do`: a `do..while` judged never to complete is left by `continue` or a labelled jump;
  the function falls off its end and returns null (also the exception of `NoFallThrough`);
* `each`: `for each (x in v)` assigns `x` at each turn, and neither its narrowing nor its guard goes;
* `scope`: the binding of a catch clause is used outside the clause (also the exception of
  `CatchBindingsAreObjects`).

A loop with two labels keeps the outer one only (`lower.rs:558`): an accepted jump to the
inner one panics the code generator, the exception of `JumpsFindTheirFrame`. E0314, the
diagnostic for non-nullable locals without initializer, is never issued (`null.rs:8`).

## What the runs show

| Run | States | Shows |
|---|---|---|
| `parallel_mark` | 21,834 | `MarkIsExact`, `OneTracer`, `IdleCountIsExact`, `NoLostWakeup`, refinement of `MarkSpec`, and `AllReturn` |
| `gc_heap` | 599,748 | `NoDangling`, `FreeListExact`, `DeferIsNativeDepth`, `DebtIsFlagged`, `CollectionIsExact`, `GcIsInvisible` |
| `reentry` | 184,480 | `BorrowsAccounted`, `HandlersAreLive`, `AbortsExplained` |
| `try_lowering` | 53,987 | `TameProgramsCompile`, `LoweringIsExact`, `HandlersBalanced` |
| `bce` | 826,253 | `VersioningIsSafe` |
| `classes` | 29,910 | `DispatchIsMostDerived`, `LayoutIsInherited`, `TypeTestsFollowDeclarations`, `ConstructionIsComplete` |
| `typing` | 367,958 | `TypedMatchesDynamic`, `ValuesKeepTheirType`, `EqualityAgrees`, `TypeTestsAgree` |
| `collections` | 372,000 | `KeepsPromise` (refinement of `SequenceSpec`), `PathsAgree`, `LoopVisitsKeys`, `IterationIsOfSnapshot`, and `LoopEnds` |
| `flow` | 82,111 | `NarrowingIsSound`, `GuardedCastsHold`, `CatchBindingsAreObjects`, `JumpsFindTheirFrame`, `NoFallThrough` |

Three more runs each find one sentence of the sources to be untrue:

* `bce_growing_bound`: a loop to `v.length` that pushes to `v` accesses `w[i]` unchecked past
  the end of `w` (`bce.rs:329`, against `bce.rs:10-14`).
* `typing_casts`: `int("5")`, `Number(true)` and `uint(object)` pass the checker and panic
  the code generator (`llvm.rs:3157`, against `expr_class.rs:956`).
* `collections_splice`: `a.splice(s)` aborts when `s` resolves above 0: the omitted count is
  infinite, saturates, and start plus count overflows (`ffi.rs:1009`, against `ffi.rs:990`).

Other places where the code does not do what its documentation says appear as named
conditions of the properties, which fail without them:

* An Array that holds the last reference to a RegExp, Date, Socket or Namespace:
  `mark_any` does not follow those tags and the next collection frees it (`gc.rs:651`,
  against `gc.rs:28-30`). `Boxable`, part of `Discipline`.
* `System.gc()` in the callback of `map` or `filter` frees a staged element
  (`ffi.rs:2270`, against `gc.rs:396-398`). `GcInCallbacks`, part of `Discipline`.
* The second operation on a closed socket aborts: the first threw below its own
  borrow (`socket.rs:101`, against `socket.rs:19-20`). `leaked` in `AbortsExplained`.
* A safepoint in the `toString` of an element during `sort()` aborts (`ffi.rs:1091`,
  against `gc.rs:663-666`). The second case of `AbortsExplained`.
* A throw in a catch body skips that statement's `finally` (`llvm.rs:871`, against
  `tests/tests/golden.rs:109-111`). `escaped` in `LoweringIsExact`.
* A jump in `finally` that overrides another jump leaves a dead handler
  (`llvm.rs:1173`, against `exc.rs:114-115`). `Overridden` in `HandlersBalanced`.
* A loop to `i + 1` is versioned, since the increment of `i` is not one of the writes of its
  body; the unchecked copy runs past the end (`bce.rs:326`, against `bce.rs:10-14`).
  `BoundsHold` in `VersioningIsSafe`.
* `if (c) super(1);` passes for the mandatory call: when `c` is false the base constructor never
  runs (`lower.rs:270`, against `decl.rs:708-709`). `CallsSuperOnce` in `ConstructionIsComplete`.
* After `for each (x in v)` under `if (x is Sub)`, `x as Sub` is taken as not null and is null
  (`mod.rs:1015`, against `mod.rs:491`). The risk `each` in `GuardedCastsHold`.
* After `try { } catch (e:Base) { }`, `e.m()` is accepted and dereferences null (`mod.rs:1123`,
  against `mod.rs:1117`). The risk `scope` in `CatchBindingsAreObjects`.

### Bounds

* `parallel_mark`: three workers (two to race and one asleep), four blocks, four
  graphs (cycles, chain, repeated edge, fan) and four root lists, batches of two
  so that a worker both leaves work and takes more than one block.
* `gc_heap`: two small blocks and one large, at most one reference per block stored
  at a time, two open frames: enough for reuse of a block while another refers to
  where it was, for a native below a try and the converse, and for either kind of
  block to be the garbage. Objects and Arrays stand for the two layouts the marker follows; the
  other kinds are for the proof. The threshold is 1 and blocks have sizes 1 and 2, so a
  debt may be under, at or over it.
* `reentry`: two arrays, one stream, one listener, three frames; `MaxLeaks` stops
  counting after one lost borrow per cell.
* `try_lowering`: every program of a loop around a try statement that has another
  in its body, in a catch clause or in its finally block, with the endings and
  clauses listed in `MCTryLowering`; two exception types; loops run twice.
* `bce`: one loop over `i` with each header and bound listed in `MCBce`, two statements in its
  body, one of them perhaps a loop over `j`, a branch, a switch or a call; `v` of length 2
  and `w` of length 1 or 3, aliased or not, `n` = 2; `MaxSteps` is 40.
* `classes`: two to five declarations, bases before and after the classes that extend
  them: chains of three classes with overrides, fields, accessors, visibility and
  namespaces; one or two interfaces, inherited and implemented again; constructors
  written, missing and with defaults, their `super(...)` run never, once or twice; hierarchies
  that are rejected.
* `typing`: every operator on all pairs of static types, with values at the edges of an int
  of four bits (0, 1, -1, both ends, halves and one beyond, NaN, infinities), three texts,
  and objects of each kind.
* `collections`: a receiver of each kind with at most three elements, two as the least
  capacity (so that a third element grows the buffer again), ints of two bits, indices
  before, at and past the end, NaN and infinity; one loop and one iteration around the calls.
* `flow`: 26,832 bodies: a fact established or not, a compound statement with up to two
  statements inside, a use of `x`; expressions; guards; loops over `x` in and around a guard; a
  catch binding used before, in each part of, after and in a loop around its try statement; two
  loops, switches or labels in one another around each jump. Facts are about one variable, so two nested statements
  let every frame be inside and outside of one that assigns.

`CHECK_DEADLOCK FALSE` stands where the process ends or a compiled program is done.

### Fairness

`AllReturn` needs weak fairness of the steps of each worker. The operating
system schedules every runnable thread, `std::sync::Mutex` is held for short
sections without blocking calls inside, and a notified thread is runnable. No
fairness is assumed of spurious wakeups, so that they cannot rescue a lost one.

`LoopEnds` needs that a call returns (`AfterCall`), that the loop tests again or ends
(`ForInTest`, `ForInExit`), weakly, and that its body is left by its end again and
again if it can be (`ForInContinue`, strongly: the body is of finite length and calls
in it disable the step meanwhile). Nothing says that the body stops adding elements:
that is the hypothesis of the property.

## What is proved

TLAPS checks these for every value of the constants.

`ParallelMark`, from `Spec`: type correctness, `IdleCountIsExact`, `OneTracer`,
`NoLostWakeup`, `MarkIsExact`, and `Spec => Abstract!Spec`. They are not
inductive alone. `ControlInv` adds what each place of a worker says of its hands
(`HandsInv`: one that waits or has returned holds nothing) and of `idle` and `done`.
`ColourInv` adds `NothingLost` (roots and references of marked blocks are marked or
grey, where grey is: on the worklist, or in a `batch`, `todo` or `produced`) and
`Grounded` (a grey block is a root or referenced from a marked one). When every worker
has returned nothing is grey, so marked is closed under references and contains what is
reachable; by `Grounded` it never contains more. `NoLostWakeup` rests on the count: if
all workers waited, `idle` would be `nthreads` and the last of them would have set `done`.

`GcHeap`, from `Spec` alone: `TypeOK`, `FreeListExact`, `DeferIsNativeDepth`,
`DebtIsFlagged`. `IInv` joins the books of the allocator (with no mark set between
collections, so that what can be found is what is live) with `Balanced`: every
handler's saved depth is the number of natives below it; without it nothing would say
what depth a throw restores. From `Spec` and `Discipline`
(what is put in arrays has a traced tag; no `System.gc()` below natives):
`NoDangling`, `GcIsInvisible`, `CollectionIsExact`, by `LiveInv`: all roots, all staged
elements and all references of live blocks are live. `Discipline` is needed: with
`GcInCallbacks = TRUE`, or `"RegExp"` in `Types` and `Boxable`, in `MCGcHeap.cfg` TLC finds the swept
elements listed above.

`Reentry`, from `Spec` alone: `TypeOK`, `HandlersAreLive`, `BorrowsAccounted`,
`AbortsExplained`. The invariant `Books` says that `defer` is the number of guarded natives,
that the handlers are the try statements in order with the guards below each
(`HandlerInv`), and of each cell (`CellInv`) that it is shared by the readers on the stack
and those lost, or held by one writer, on the stack or lost, with no reader. A throw cuts
the frames at the last handler and moves what they kept from the stack to `leaked`:
`CellInv` is kept because the borrows of all frames are those below the cut plus those
above it. `AbortsExplained` follows at the step that aborts: at a safepoint `defer` is 0, so
the writer that panics the collector can only be the sort without a guard.

`Collections`, from `Spec` alone: the refinement `KeepsPromise` (every call has the effect
`SequenceSpec` promises, or is one of `Departs`), `PathsAgree`, `LoopVisitsKeys`,
`IterationIsOfSnapshot`. The invariant `Inv` has four parts. `StoreInv`: the receiver is
a buffer, array or object, its elements are of its type and, for an object, under
distinct keys; without it an in-line read would return what no call had put there.
`CallInv`: no answer is left over between calls. `LoopInv`: a loop whose receiver nothing
has been taken from has visited the keys of the positions before its own, in order.
`FrameInv`: what an iteration has made so far is what its mode says of the replies so
far and of the elements there were when it began; and below a `join` of an array those
are the elements there are, for the borrow stops every call that would change them.
`CollectionsProofs` says first of each runtime function what it leaves in the buffer (those with
a loop by `Induction`: `PushAll`, `Inserts`, `Retained`, `SortSteps`), then has one lemma per call (`PushKeeps` to `MoveLastKeeps`), joined in
`CallKeeps`, which both the refinement and the invariant cite.

`Typing`, from `Spec` alone: `ValuesKeepTheirType`, `EqualityAgrees`, `TypeTestsAgree`,
`TypedMatchesDynamic`. `IInv` says that each stage has kept what the earlier ones computed
(`CompiledInv`) and that the values are of the operands' types and the slot holds the result
(`ExecutedInv`); the rest is about the operators. `ValuesKeepTheirType` is type soundness, by the
stations of a value: an operand is `Held` by its static type (`OperandIsHeld`), a coercion the
checker inserts takes it to the type coerced to (`CoercedIsPassing`), each operator yields its
result type (`Emit*`, joined in `EmitYields`), a variable gives back what its type
says (`StoredIsHeld`). `Passing` is one place weaker than `Held`: the literal null is a String
pointer until a variable of another type takes it. `TypedMatchesDynamic` compares the two
implementations of each operator in the same order: a coercion by static type does to a value what
the runtime's conversion does to its box (`ConversionIsOfBox`), so does an assignment
(`AssignmentIsOfBox`), and per operator the outcomes are equal, or equal as numbers, or equal after
the conversion to the int variable that takes them, which is where `++` and unary minus wrap
(`ArithmeticAgrees` to `CastAgrees`, joined in `OutcomesMeet`). `EqualityAgrees` rests on what
`equality` computes for two boxes (`ComparisonIs`), `TypeTestsAgree` on one question to which
`is`, `as` and the conversion from `*` all reduce (`TestIs`, `AsIs`, `ConversionThrows`).

`Classes`, from `Spec` alone: `TypeTestsFollowDeclarations`, `LayoutIsInherited`,
`DispatchIsMostDerived`, for every set of programs: any number of classes and interfaces in any
order. `TablesAreRight`, the core of `IInv`, says what each pass has established: names are
unique once collected (`Registered`), the bases of interfaces, then the parents of classes, are
the declared ones and have no cycle (`IfacesLinked`, `ClassesLinked`), parents are built before
children (`ParentsFirst`) and a class that is built is `Assembled` from its members:
`FieldsLaid` gives each declared field a slot after those of the parent, `MethodsTabled` gives
each entry of the table to the last declaration of its name in the nearest class that has one,
and keeps the entries of the parent at their place, `FunctionsNamed` finds constructor and static
methods. The three parts are kept member by member (`FieldsGrow`, `TableGrows`, `TableReplaces`, ...,
joined in `AddMemberKeeps`), and adding one class disturbs no other (`AssembledAlike`). Errors are
part of it: the tables are right when no diagnostic has been issued, and only then the program runs.
From the tables the operations follow: a walk up the descriptors meets the declared ancestors
(`ClassTested`, `IfaceTested`), an access finds the word of the declaration
(`OperationsLaidOut`), a call through a class, an interface or a namespace the entry of the most derived one
(`EntriesHold`, by induction from `Object` down). `ConstructionIsComplete`
speaks of constructions in which no constructor skipped or repeated its `super(...)`
(`CallsSuperOnce`), since the compiler leaves that to the program, and is proved for
programs in which no member has a rest parameter (`NoRestParameters`): a constructor with one is called with fewer arguments
than it takes, the flaw named above, so without the assumption the theorem is false.

`Bce`, from `Spec` alone: `VersioningIsSafe`, for every function, memory and length of a run, and
that under its three conditions `RemovalIsNeverARisk` holds, the sentence of `bce.rs` that
`bce_growing_bound` refutes without them. `Good`, the core of `IInv`, relates the two runs: the same memory
and log, and the same to do but for `fast` (`Twins`). Three parts make it inductive. `Nest`: an item that
runs in the unchecked copy of a loop lies above that loop's item, and every item above a loop is in
its `Walk` or only reads. `AllSound`: of each unchecked loop that runs, the guard holds still and, in its body, the index is in
range of its vectors (`Sound`). `Apart`: distinct locals refer to distinct vectors. A
statement keeps `Sound` of the loops around it because the walk met it: `VersionedIs` says what the body of a
versioned loop does not assign or resize, `BoundIs` what it does not lengthen, and `KeptAssign`,
`KeptStatic`, `KeptLength` draw the conclusion. One case needs the index: `v[i] = e` at the end, in a loop to `v.length`,
raises the bound, but to `i + 1`, which the other vectors still cover (`KeptStore`). There is one
lemma per kind of step (`PushStep` to `AccessStep`), joined in `StepKeeps`.

Assumptions on constants say what a build or a program fixes: finitely many workers with the
main thread among them, and a batch that takes something; the places and sizes of blocks;
for `Collections` a range of ints of even size, a least capacity, an index type wider than every
length (`CollectionsAssumption`), and calls with the arguments the grammar gives them
(`ProgramAssumption`); for `Typing` an int of two bits or more, operands and texts that exist and
statements that can be written (`TypingAssumption`); for `Bce`, functions and memories that are
well formed (`ProgramAssumption`).

What proving found. `Unboxed`, `Checked` and `Outcomes` of `Collections` and some
definitions of `Typing` had CASE arms that overlapped, so that only the order of evaluation
said which was meant: they are disjoint now. `LoopVisitsKeys` is false of a program that
has aborted, and says so now (`Running`). A typed unary minus of an int wraps, so `var n:Number
= -i` for the least int `i` is not what the boxed negation gives: `TypedMatchesDynamic` is about
statements whose result goes to a variable of its own type, and the conversion to another type
is a statement of its own (`IsStatement`), which the code makes it. `ConstructionIsComplete`
depends on rest parameters only, and `Classes` had to say that names with and without a
namespace never meet, which joined strings left open. `Bce` was recursive over nested
statements; it is a flat table of statements and a stack of items now, which is what could be
reasoned about. `TryLowering` and `Flow` would need the same.

Only model-checked: `AllReturn` and `LoopEnds` (liveness, out of the prover's reach), and all
of `TryLowering` (`TameProgramsCompile`, `LoweringIsExact`, `HandlersBalanced`) and `Flow` (`NarrowingIsSound`, `GuardedCastsHold`, `CatchBindingsAreObjects`,
`JumpsFindTheirFrame`, `NoFallThrough`). Their operators are RECURSIVE, over programs that nest,
and the provers cannot look into those.

## Abstractions to know

* Reachability in the collector is exact in the model. The real scan of stacks
  and payloads is conservative, so it may keep more; it never keeps less of what is
  on a compiled stack. `CollectionIsExact` is about precise garbage.
* Static roots are those registered before `main` runs; `roots` includes them.
* A panic of a marker thread is an abort in `Reentry`; in the real code the other
  workers would wait for ever.
* The exception in flight is a thread-local that the collector marks too. Compiled code
  takes it at the start of the dispatch, so `GcHeap` goes from the throw to the frame
  that holds it in one step.
* Integer widths of sizes and counters are not modelled: they count bytes in memory.

## Not modelled

* Closures beyond calls through them: captured variables are cells in `Typing` and assignments in
  `Flow`; the conversion itself (`lower.rs`, `closure.rs`) is not modelled.
* Elision of safepoints (`llvm.rs:7089`, `expr_allocs`): the question is whether a list of
  expressions covers every allocating function of the runtime; it has no states.
* Heap layout: arenas, size classes and the pointer lookup of the conservative scan.
* `join` of a Vector holds its elements without a `DeferGuard` (`conv.rs:134`): the order of
  effects is in `Collections`, the sweep of what is staged is in no model.
* Generics, packages, scopes of names and the methods of String, RegExp and Date.
* The lexer, parser, syntax trees, printing, driver, calendar arithmetic, file and console
  I/O and the regular-expression engine: sequential, tested by snapshots, with no state
  that outlives a call, or outside the source.

## Plan

1. Done: the mark phase, the heap, re-entry and exceptions, try lowering, loop
   versioning; proofs of the first two.
2. Done: classes, typing, collections with enumeration and iteration, control flow.
3. Done: proofs of `Reentry`, of `Collections` with its refinement, of `Typing`, of `Classes`
   and of `Bce`.
4. Later: heap layout as the refinement of the block places in `GcHeap`; natives that stage
   elements without a guard as a further kind there.
