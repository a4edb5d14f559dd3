------------------------------- MODULE GcHeap -------------------------------
(***************************************************************************)
(* The garbage-collected heap of the runtime (crates/runtime/src/gc.rs) as *)
(* compiled code and the natives drive it: block allocation from the free  *)
(* list, the bump region or the system allocator; the allocation debt and  *)
(* the pending flag; safepoints, System.gc() and the deferral that natives *)
(* hold while they call back into compiled code; exceptions that longjmp   *)
(* past those natives; mark and sweep.                                     *)
(*                                                                         *)
(* Compiled code is a nondeterministic program over the blocks it holds.   *)
(* How the marks are computed is ParallelMark's subject; here a collection *)
(* marks the least set closed under the references the marker follows.     *)
(***************************************************************************)
EXTENDS Naturals, Sequences, FiniteSets, Functions

CONSTANTS
    MaxSmall,           \* bound: small blocks the arenas can hold
    Large,              \* addresses the system allocator may return
    None,               \* "no type": the header of a dead block
    Types,              \* what the blocks the program creates represent
    Boxable,            \* the tags it may store in an Array (any tag may be)
    MaxRefs,            \* bound: references one block holds
    MaxFrames,          \* bound: nested natives and try statements
    INITIAL_THRESHOLD,
    SmallSize, LargeSize,
    GcInCallbacks       \* System.gc() may be called below a native

Small == 1..MaxSmall
Blocks == Small \cup Large

(* any.rs: the tags of boxed values that refer to a GC block.               *)
Tags == {"String", "Object", "Array", "Vector", "Function",
         "RegExp", "Date", "Socket", "Namespace"}

(* mark_any follows these; its catch-all arm ignores the others.            *)
TracedTags == {"String", "Object", "Array", "Vector", "Function"}

(* How the contents of a block are laid out for the marker (`Kind`): words  *)
(* (a RegExp has one, its source), boxed values, or nothing collected.      *)
KindOf(t) ==
    CASE t \in {"Object", "Function", "Date", "RegExp"} -> "Raw"
      [] t \in {"Array", "Vector", "PropMap"} -> "Array"
      [] OTHER -> "Leaf"

ASSUME SmallAssumption == MaxSmall \in Nat /\ Large \cap Small = {} /\ IsFiniteSet(Large)
(* The expandos of an object are a block that no boxed value refers to.     *)
ASSUME TypesAssumption ==
    /\ "Array" \in Types /\ Types \subseteq Tags \cup {"PropMap"}
    /\ Boxable \subseteq Types \cap Tags
    /\ None \notin Tags \cup {"PropMap"}
ASSUME BoundsAssumption == MaxRefs \in Nat /\ MaxFrames \in Nat
ASSUME SizesAssumption ==
    INITIAL_THRESHOLD \in Nat /\ SmallSize \in Nat \ {0} /\ LargeSize \in Nat \ {0}
ASSUME CallbackAssumption == GcInCallbacks \in BOOLEAN

VARIABLES
    live,       \* Hdr.live of every block
    marked,     \* Hdr.marked of every block
    type,       \* the tag of the value a block represents
    refs,       \* the blocks a block's words or elements refer to
    bumped,     \* small blocks carved from the arenas so far
    freeList,   \* Heap.free_lists of the size class
    since,      \* Heap.since
    threshold,  \* Heap.threshold
    pending,    \* PENDING
    defer,      \* Heap.defer
    roots,      \* blocks in compiled frames, registers and static ranges
    frames      \* open natives and try statements, innermost last

vars == <<live, marked, type, refs, bumped, freeList, since, threshold, pending,
          defer, roots, frames>>
blockVars == <<live, marked, type, refs, bumped, freeList>>
debtVars == <<since, threshold, pending>>

(* A native that called back into compiled code holds elements in a Rust    *)
(* Vec (`staged`) and a DeferGuard; a try statement holds the defer depth   *)
(* its handler was pushed with.                                             *)
Frames == [kind : {"native", "try"}, staged : SUBSET Blocks, depth : Nat]

Size(b) == IF b \in Large THEN LargeSize ELSE SmallSize
liveBytes(S) == SmallSize * Cardinality(S \cap Small) + LargeSize * Cardinality(S \cap Large)

TypeOK ==
    /\ live \in SUBSET Blocks /\ marked \in SUBSET Blocks
    /\ type \in [Blocks -> Types \cup {None}]
    /\ refs \in [Blocks -> SUBSET Blocks]
    /\ bumped \in 0..MaxSmall
    /\ freeList \in Seq(Small)
    /\ since \in Nat /\ threshold \in Nat
    /\ pending \in BOOLEAN
    /\ defer \in Nat
    /\ roots \in SUBSET Blocks
    /\ frames \in Seq(Frames)

Init ==
    /\ live = {} /\ marked = {}
    /\ type = [b \in Blocks |-> None]
    /\ refs = [b \in Blocks |-> {}]
    /\ bumped = 0
    /\ freeList = <<>>
    /\ since = 0
    /\ threshold = INITIAL_THRESHOLD
    /\ pending = FALSE
    /\ defer = 0
    /\ roots = {}
    /\ frames = <<>>

-----------------------------------------------------------------------------
(* ---- what the program and the marker can reach --------------------------*)

staged == UNION {frames[i].staged : i \in 1..Len(frames)}

IsClosed(S, from, edge) == from \subseteq S /\ \A b \in S : edge[b] \subseteq S

ClosureOf(from, edge) ==
    {b \in Blocks : \A S \in SUBSET Blocks : IsClosed(S, from, edge) => b \in S}

(* Every block the program can still use.                                   *)
ProgramReach == ClosureOf(roots \cup staged, refs)

(* find_block resolves an address to a live block that is not yet marked.   *)
found == live \ marked

(* A faulty variant: the elements of an Array are not followed.             *)
traceRefsOfRawOnly ==
    [b \in Blocks |-> found \cap IF type[b] # None /\ KindOf(type[b]) = "Raw"
                                THEN refs[b] ELSE {}]

(* trace_children: a Raw block is scanned word by word, the boxed values of *)
(* an Array go through mark_any, the other kinds refer to nothing collected.*)
traceRefs ==
    [b \in Blocks |->
        found \cap CASE type[b] = None -> {}
                     [] KindOf(type[b]) = "Raw" -> refs[b]
                     [] KindOf(type[b]) = "Array" -> {c \in refs[b] : type[c] \in TracedTags}
                     [] OTHER -> {}]

(* The conservative roots: the stack span, the spilled registers and the    *)
(* registered static ranges.  The Vecs of a native are not among them.      *)
(* What the workers claim is all they can find from there.                  *)
Claimed == ClosureOf(roots \cap found, traceRefs)

-----------------------------------------------------------------------------
(* ---- allocation ---------------------------------------------------------- *)

(* alloc writes a fresh header over zeroed memory, books the debt, and      *)
(* never collects.  What the constructor then stores in the block is init.  *)
InitBlock(b, t, init) ==
    /\ live' = live \cup {b}
    /\ marked' = marked \ {b}
    /\ type' = [type EXCEPT ![b] = t]
    /\ refs' = [refs EXCEPT ![b] = init]
    /\ since' = since + Size(b)
    /\ pending' = (pending \/ since' > threshold)
    /\ UNCHANGED threshold

(* A faulty variant: the recycled block stays on the free list.             *)
alloc_smallKeepsEntry(b) ==
    \/ /\ freeList # <<>>
       /\ b = freeList[Len(freeList)]
       /\ UNCHANGED <<freeList, bumped>>
    \/ /\ freeList = <<>>
       /\ bumped < MaxSmall
       /\ b = bumped + 1
       /\ bumped' = bumped + 1
       /\ UNCHANGED freeList

(* alloc_small: the free list first, then the bump region.                  *)
alloc_small(b) ==
    \/ /\ freeList # <<>>
       /\ b = freeList[Len(freeList)]
       /\ freeList' = SubSeq(freeList, 1, Len(freeList) - 1)
       /\ UNCHANGED bumped
    \/ /\ freeList = <<>>
       /\ bumped < MaxSmall
       /\ b = bumped + 1
       /\ bumped' = bumped + 1
       /\ UNCHANGED freeList

(* alloc_large: an address no live large block occupies.                    *)
alloc_large(b) ==
    /\ b \in Large \ live
    /\ UNCHANGED <<bumped, freeList>>

alloc(b, t, init) ==
    /\ (b \in Small /\ alloc_small(b)) \/ alloc_large(b)
    /\ InitBlock(b, t, init)

CanHold(t, c) ==
    CASE t = "RegExp" -> type[c] = "String"
      [] t # "RegExp" /\ KindOf(t) = "Raw" -> TRUE
      [] KindOf(t) = "Array" -> type[c] \in Boxable
      [] OTHER -> FALSE

(* Compiled code creates a value, around at most one it already holds.      *)
New(b, t, init) ==
    /\ \A c \in init : CanHold(t, c)
    /\ alloc(b, t, init)
    /\ roots' = roots \cup {b}
    /\ UNCHANGED <<defer, frames>>

(* A field or element store; the new reference may replace an old one.      *)
Store(a, c, old) ==
    /\ CanHold(type[a], c)
    /\ LET now == (refs[a] \ old) \cup {c}
       IN  /\ Cardinality(now) <= MaxRefs
           /\ refs' = [refs EXCEPT ![a] = now]
    /\ UNCHANGED <<live, marked, type, bumped, freeList, debtVars, defer, roots, frames>>

Load(a, c) ==
    /\ c \in refs[a]
    /\ roots' = roots \cup {c}
    /\ UNCHANGED <<blockVars, debtVars, defer, frames>>

(* A register or stack slot is overwritten, a frame returns, ...            *)
Forget(b) ==
    /\ roots' = roots \ {b}
    /\ UNCHANGED <<blockVars, debtVars, defer, frames>>

-----------------------------------------------------------------------------
(* ---- natives that call back, and exceptions ------------------------------ *)

Push(f) == frames' = Append(frames, f)
Top == frames[Len(frames)]
Popped == SubSeq(frames, 1, Len(frames) - 1)

(* vs_arr_iterate, vs_closure_apply, vs_arr_sort_with: the elements are     *)
(* copied into a Vec, the guard is taken, the callback is entered.  (The    *)
(* natives that only run an element's toString take no guard: see Reentry.) *)
EnterNative(a) ==
    /\ type[a] \in {"Array", "Vector"}
    /\ Len(frames) < MaxFrames
    /\ defer' = defer + 1
    /\ Push([kind |-> "native", staged |-> refs[a], depth |-> 0])
    /\ UNCHANGED <<blockVars, debtVars, roots>>

(* The native passes a staged element to its next callback.                 *)
PassElement(c) ==
    /\ frames # <<>> /\ Top.kind = "native"
    /\ c \in Top.staged
    /\ roots' = roots \cup {c}
    /\ UNCHANGED <<blockVars, debtVars, defer, frames>>

(* The callback has returned c: map keeps it, in a Vec of its own.          *)
StageResult(c) ==
    /\ frames # <<>> /\ Top.kind = "native"
    /\ type[c] \in Boxable
    /\ Cardinality(Top.staged \cup {c}) <= MaxRefs
    /\ frames' = [frames EXCEPT ![Len(frames)].staged = @ \cup {c}]
    /\ UNCHANGED <<blockVars, debtVars, defer, roots>>

(* The native returns an Array of what it collected: the block is allocated *)
(* while the guard is still held.                                           *)
ReturnArray(b) ==
    /\ frames # <<>> /\ Top.kind = "native"
    /\ alloc(b, "Array", Top.staged)
    /\ roots' = roots \cup {b}
    /\ defer' = defer - 1
    /\ frames' = Popped

(* A faulty variant: the guard is dropped before the native has returned.   *)
ReturnValueTwice ==
    /\ frames # <<>> /\ Top.kind = "native"
    /\ defer' = defer - 1
    /\ frames' \in {frames, Popped}
    /\ UNCHANGED <<blockVars, debtVars, roots>>

(* ... or a value it was given.                                             *)
ReturnValue ==
    /\ frames # <<>> /\ Top.kind = "native"
    /\ defer' = defer - 1
    /\ frames' = Popped
    /\ UNCHANGED <<blockVars, debtVars, roots>>

push_handler ==
    /\ Len(frames) < MaxFrames
    /\ Push([kind |-> "try", staged |-> {}, depth |-> defer])
    /\ UNCHANGED <<blockVars, debtVars, defer, roots>>

pop_handler ==
    /\ frames # <<>> /\ Top.kind = "try"
    /\ frames' = Popped
    /\ UNCHANGED <<blockVars, debtVars, defer, roots>>

Handlers == {i \in 1..Len(frames) : frames[i].kind = "try"}

(* A faulty variant: longjmp without putting the depth back.                *)
throwKeepsDepth(i) ==
    /\ i \in Handlers /\ \A j \in Handlers : j <= i
    /\ frames' = SubSeq(frames, 1, i - 1)
    /\ UNCHANGED <<blockVars, debtVars, defer, roots>>

(* exc.rs throw: control goes to the innermost handler, which is popped;    *)
(* the natives in between are skipped together with their DeferGuards, so   *)
(* the depth saved by push_handler is put back.                             *)
throw(i) ==
    /\ i \in Handlers /\ \A j \in Handlers : j <= i
    /\ frames' = SubSeq(frames, 1, i - 1)
    /\ defer' = frames[i].depth
    /\ UNCHANGED <<blockVars, debtVars, roots>>

-----------------------------------------------------------------------------
(* ---- collection ---------------------------------------------------------- *)

(* The list of the elements of S in the order the sweep walks the arenas.   *)
InAddressOrder(S) ==
    {s \in [1..Cardinality(S) -> S] : \A i, j \in DOMAIN s : i < j => s[i] < s[j]}

Larger(m, n) == IF m >= n THEN m ELSE n

(* collect: mark, sweep the arenas into the free list and the dead large    *)
(* blocks back to the system, and settle the debt.  The sweep takes a mark  *)
(* for life, and clears it, so that the next collection starts unmarked.    *)
Sweep(cleared) ==
    LET dead == live \ (marked \cup Claimed)
    IN  /\ live' = live \ dead
        /\ marked' = (marked \cup Claimed) \ cleared
        /\ type' = [b \in Blocks |-> IF b \in dead THEN None ELSE type[b]]
        /\ refs' = [b \in Blocks |-> IF b \in dead THEN {} ELSE refs[b]]
        /\ \E swept \in InAddressOrder(dead \cap Small) :
              freeList' = freeList \o swept
        /\ since' = 0
        /\ threshold' = Larger(INITIAL_THRESHOLD, 2 * liveBytes(live \ dead))
        /\ pending' = FALSE
        /\ UNCHANGED <<bumped, defer, roots, frames>>

(* A faulty variant: the large survivors keep their marks.                  *)
collectKeepsLargeMarks == Sweep(live \cap Small)

collect == Sweep(live)

(* Faulty variants: the depth is not tested; the flag is cleared first.     *)
safepointIgnoresDefer == pending /\ collect

safepointClearsFlag ==
    /\ pending
    /\ \/ defer = 0 /\ collect
       \/ /\ defer # 0
          /\ pending' = FALSE
          /\ UNCHANGED <<blockVars, since, threshold, defer, roots, frames>>

(* A safepoint with nothing to do, or one that a guard turns into a no-op   *)
(* (the flag stays up), changes nothing.                                    *)
safepoint ==
    /\ pending
    /\ defer = 0
    /\ collect

(* System.gc(): vs_gc_collect does not look at the defer depth.             *)
SystemGc ==
    /\ defer = 0 \/ GcInCallbacks
    /\ collect

-----------------------------------------------------------------------------

Next ==
    \/ \E b \in Blocks, t \in Types, init \in {{}} \cup {{c} : c \in roots} :
          New(b, t, init)
    \/ \E a, c \in roots : \E old \in SUBSET refs[a] : Store(a, c, old)
    \/ \E a \in roots : \E c \in refs[a] : Load(a, c)
    \/ \E b \in roots : Forget(b)
    \/ \E a \in roots : EnterNative(a)
    \/ \E c \in staged : PassElement(c)
    \/ \E c \in roots : StageResult(c)
    \/ \E b \in Blocks : ReturnArray(b)
    \/ ReturnValue
    \/ push_handler
    \/ pop_handler
    \/ \E i \in Handlers : throw(i)
    \/ safepoint
    \/ SystemGc

Spec == Init /\ [][Next]_vars

-----------------------------------------------------------------------------

(* The promise of the collector: a block the program can still reach, from  *)
(* compiled frames, statics or what a native holds, is never recycled.      *)
NoDangling == ProgramReach \subseteq live

(* The free list is exactly the carved blocks that are dead, each once: a   *)
(* block on it twice, or still live, would be handed out as two objects.    *)
FreeListExact ==
    /\ Range(freeList) = (1..bumped) \ live
    /\ \A i, j \in 1..Len(freeList) : i # j => freeList[i] # freeList[j]

(* Deferral is balanced, also across longjmp: the depth is the number of    *)
(* natives on the stack that hold a guard, so that a safepoint with none    *)
(* below it is never silenced and one above a guard always is.              *)
DeferIsNativeDepth ==
    defer = Cardinality({i \in 1..Len(frames) : frames[i].kind = "native"})

(* The allocation debt is never forgotten: past the threshold the flag the  *)
(* safepoints test is up, however many of them were deferred.               *)
DebtIsFlagged == since > threshold => pending

(* A collection is exact about garbage too: it leaves no block the program  *)
(* cannot reach, so the footprint is bounded by what is in use.             *)
CollectionIsExact ==
    [][(since' = 0 /\ since # 0) => live' = ProgramReach']_vars

(* The collector is invisible to the program: no step of it changes what    *)
(* the program can reach, nor any type or reference in there.               *)
GcIsInvisible ==
    [][(since' = 0 /\ since # 0) =>
        /\ ProgramReach' = ProgramReach
        /\ \A b \in ProgramReach : type'[b] = type[b] /\ refs'[b] = refs[b]]_vars
=============================================================================
