---------------------------- MODULE ParallelMark ----------------------------
(***************************************************************************)
(* The mark phase of the collector (crates/runtime/src/gc.rs): the shared  *)
(* worklist, the workers of `parallel_mark` with their mutex and condition *)
(* variable, and the single-threaded `serial_mark`.  The mutator is paused *)
(* for the whole phase, so the object graph does not change.               *)
(*                                                                         *)
(* A lock section is one action.  Between two lock sections a worker takes *)
(* one action per block it claims and one per reference it scans, so the   *)
(* workers interleave at every access to a mark byte.                      *)
(***************************************************************************)
EXTENDS Naturals, Sequences, FiniteSets, Functions

CONSTANTS
    Workers,      \* the threads `parallel_mark` runs, the mutator included
    Main,         \* the mutator thread
    Blocks,       \* the live blocks of the heap
    None,         \* no block
    MARK_BATCH,   \* the most blocks a worker takes in one lock section
    Graphs,       \* the object graphs a collection may meet
    RootLists     \* the root lists a collection may start from

ASSUME WorkersAssumption == IsFiniteSet(Workers) /\ Main \in Workers
ASSUME BatchAssumption == MARK_BATCH \in Nat \ {0}
ASSUME NoneAssumption == None \notin Blocks
ASSUME HeapAssumption == Graphs \subseteq [Blocks -> Seq(Blocks)]
ASSUME RootsAssumption == RootLists \subseteq Seq(Blocks)

VARIABLES
    children,   \* children[b]: the blocks b's references lead to, in scan order
    rootList,   \* the worklist the phase starts with
    serial,     \* `collect` chose serial_mark
    marked,     \* the blocks whose mark byte is 1
    work,       \* SharedInner.work, or serial_mark's own worklist
    idle,       \* SharedInner.idle
    done,       \* SharedInner.done
    pc,         \* where each worker is
    batch,      \* what remains of the batch a worker took
    cur,        \* the block a worker is tracing
    todo,       \* the references of `cur` it has not looked at yet
    produced    \* the grey blocks it found and has not deposited yet

heapVars == <<children, rootList, serial>>
sharedVars == <<work, idle, done>>
vars == <<children, rootList, serial, marked, work, idle, done,
          pc, batch, cur, todo, produced>>

(* "run": outside the lock, or about to take it; "wait": blocked in         *)
(* cv.wait; "woken": notified (or spuriously woken), the lock not retaken.  *)
Places == {"run", "wait", "woken", "returned"}

nthreads == Cardinality(Workers)

TypeOK ==
    /\ children \in [Blocks -> Seq(Blocks)]
    /\ rootList \in Seq(Blocks)
    /\ serial \in BOOLEAN
    /\ marked \in SUBSET Blocks
    /\ work \in Seq(Blocks)
    /\ idle \in Nat
    /\ done \in BOOLEAN
    /\ pc \in [Workers -> Places]
    /\ batch \in [Workers -> Seq(Blocks)]
    /\ cur \in [Workers -> Blocks \cup {None}]
    /\ todo \in [Workers -> Seq(Blocks)]
    /\ produced \in [Workers -> Seq(Blocks)]

(* Only `parallel_mark` starts workers beside the mutator.                  *)
Init ==
    /\ children \in Graphs
    /\ rootList \in RootLists
    /\ serial \in BOOLEAN
    /\ marked = {}
    /\ work = rootList
    /\ idle = 0
    /\ done = FALSE
    /\ pc = [w \in Workers |->
                IF serial /\ w # Main THEN "returned" ELSE "run"]
    /\ batch = [w \in Workers |-> <<>>]
    /\ cur = [w \in Workers |-> None]
    /\ todo = [w \in Workers |-> <<>>]
    /\ produced = [w \in Workers |-> <<>>]

-----------------------------------------------------------------------------

(* A faulty variant: one blocked worker is notified instead of all.         *)
NotifyOne(w, p) ==
    LET asleep == {v \in Workers : pc[v] = "wait"}
    IN  [v \in Workers |->
            IF v = w THEN p
            ELSE IF v \in asleep /\ v = (CHOOSE x \in asleep : TRUE)
                 THEN "woken" ELSE pc[v]]

(* pc after notify_all by w, which itself goes to place p.                  *)
NotifyAll(w, p) ==
    [v \in Workers |-> IF v = w THEN p
                       ELSE IF pc[v] = "wait" THEN "woken" ELSE pc[v]]

(* `n.saturating_sub(MARK_BATCH)`: where split_off cuts a list of length n. *)
BatchStart(n) == IF n > MARK_BATCH THEN n - MARK_BATCH ELSE 0

(* A worker with nothing left of its batch takes the lock: it deposits what *)
(* it produced (waking everyone), then takes a batch off the end of the     *)
(* worklist, or falls idle, or -- last to fall idle -- ends the phase.      *)
Acquire(w) ==
    /\ ~serial
    /\ pc[w] = "run"
    /\ batch[w] = <<>>
    /\ cur[w] = None
    /\ LET all   == work \o produced[w]
           start == BatchStart(Len(all))
           wakes == produced[w] # <<>>
       IN  \/ /\ all # <<>>
              /\ work' = SubSeq(all, 1, start)
              /\ batch' = [batch EXCEPT ![w] = SubSeq(all, start + 1, Len(all))]
              /\ pc' = IF wakes THEN NotifyAll(w, "run") ELSE pc
              /\ UNCHANGED <<idle, done>>
           \/ /\ all = <<>>
              /\ idle + 1 # nthreads
              /\ idle' = idle + 1
              /\ pc' = [pc EXCEPT ![w] = "wait"]
              /\ UNCHANGED <<work, done, batch>>
           \/ /\ all = <<>>
              /\ idle + 1 = nthreads
              /\ idle' = idle + 1
              /\ done' = TRUE
              /\ pc' = NotifyAll(w, "returned")
              /\ UNCHANGED <<work, batch>>
    /\ produced' = [produced EXCEPT ![w] = <<>>]
    /\ UNCHANGED <<heapVars, marked, cur, todo>>

(* A faulty variant: idle is decremented on every wakeup, work or not.      *)
RecheckAlwaysDecrements(w) ==
    /\ pc[w] = "woken" /\ ~done /\ work = <<>>
    /\ pc' = [pc EXCEPT ![w] = "wait"]
    /\ idle' = idle - 1
    /\ UNCHANGED <<heapVars, work, done, marked, batch, cur, todo, produced>>

(* A faulty variant: a woken worker takes work and stays counted as idle.   *)
RecheckKeepsIdle(w) ==
    /\ pc[w] = "woken"
    /\ LET start == BatchStart(Len(work))
       IN  \/ /\ done
              /\ pc' = [pc EXCEPT ![w] = "returned"]
              /\ UNCHANGED <<work, batch>>
           \/ /\ ~done /\ work # <<>>
              /\ work' = SubSeq(work, 1, start)
              /\ batch' = [batch EXCEPT ![w] = SubSeq(work, start + 1, Len(work))]
              /\ pc' = [pc EXCEPT ![w] = "run"]
    /\ UNCHANGED <<heapVars, idle, done, marked, cur, todo, produced>>

(* The wait returns with the lock held: leave if the phase is over, take a  *)
(* batch if there is work, otherwise wait again (still counted idle).       *)
Recheck(w) ==
    /\ pc[w] = "woken"
    /\ LET start == BatchStart(Len(work))
       IN  \/ /\ done
              /\ pc' = [pc EXCEPT ![w] = "returned"]
              /\ UNCHANGED <<work, idle, batch>>
           \/ /\ ~done /\ work # <<>>
              /\ idle' = idle - 1
              /\ work' = SubSeq(work, 1, start)
              /\ batch' = [batch EXCEPT ![w] = SubSeq(work, start + 1, Len(work))]
              /\ pc' = [pc EXCEPT ![w] = "run"]
           \/ /\ ~done /\ work = <<>>
              /\ pc' = [pc EXCEPT ![w] = "wait"]
              /\ UNCHANGED <<work, idle, batch>>
    /\ UNCHANGED <<heapVars, done, marked, cur, todo, produced>>

(* A condition variable may wake a thread nobody notified.                  *)
SpuriousWakeup(w) ==
    /\ pc[w] = "wait"
    /\ pc' = [pc EXCEPT ![w] = "woken"]
    /\ UNCHANGED <<heapVars, sharedVars, marked, batch, cur, todo, produced>>

(* A faulty variant: the mark byte is stored without looking at its value.  *)
claimBlindly(w, p) ==
    /\ marked' = marked \cup {p}
    /\ cur' = [cur EXCEPT ![w] = p]
    /\ todo' = [todo EXCEPT ![w] = children[p]]

(* `claim`: one atomic swap of the mark byte.  The worker that flips it     *)
(* traces the block; any other drops its duplicate.                         *)
claim(w, p) ==
    IF p \in marked
    THEN UNCHANGED <<marked, cur, todo>>
    ELSE /\ marked' = marked \cup {p}
         /\ cur' = [cur EXCEPT ![w] = p]
         /\ todo' = [todo EXCEPT ![w] = children[p]]

(* The next block of the batch.                                             *)
ClaimNext(w) ==
    /\ ~serial
    /\ pc[w] = "run"
    /\ cur[w] = None
    /\ batch[w] # <<>>
    /\ batch' = [batch EXCEPT ![w] = Tail(@)]
    /\ claim(w, Head(batch[w]))
    /\ UNCHANGED <<heapVars, sharedVars, pc, produced>>

(* serial_mark's loop: pop the end of the worklist and claim it.            *)
SerialPop(w) ==
    /\ serial
    /\ pc[w] = "run"
    /\ cur[w] = None
    /\ work # <<>>
    /\ work' = SubSeq(work, 1, Len(work) - 1)
    /\ claim(w, work[Len(work)])
    /\ UNCHANGED <<heapVars, idle, done, pc, batch, produced>>

(* Hand a grey block on: to the worker's own list, or -- serial_mark passes *)
(* its worklist to trace_children -- straight to the worklist.              *)
Push(w, p) ==
    IF serial
    THEN work' = Append(work, p) /\ UNCHANGED produced
    ELSE produced' = [produced EXCEPT ![w] = Append(@, p)] /\ UNCHANGED work

(* trace_children looks at one reference.  find_block drops it when its     *)
(* mark byte reads 1; a relaxed load may still read 0 for a block another   *)
(* worker has claimed, never the reverse.                                   *)
ScanReference(w) ==
    /\ pc[w] = "run"
    /\ cur[w] # None
    /\ todo[w] # <<>>
    /\ todo' = [todo EXCEPT ![w] = Tail(@)]
    /\ \/ Push(w, Head(todo[w]))
       \/ Head(todo[w]) \in marked /\ UNCHANGED <<work, produced>>
    /\ UNCHANGED <<heapVars, idle, done, marked, pc, batch, cur>>

(* A faulty variant: trace_children stops before the last reference.        *)
TraceReturnsEarly(w) ==
    /\ pc[w] = "run"
    /\ cur[w] # None
    /\ Len(todo[w]) <= 1
    /\ cur' = [cur EXCEPT ![w] = None]
    /\ todo' = [todo EXCEPT ![w] = <<>>]
    /\ UNCHANGED <<heapVars, sharedVars, marked, pc, batch, produced>>

(* trace_children returns.                                                  *)
TraceReturn(w) ==
    /\ pc[w] = "run"
    /\ cur[w] # None
    /\ todo[w] = <<>>
    /\ cur' = [cur EXCEPT ![w] = None]
    /\ UNCHANGED <<heapVars, sharedVars, marked, pc, batch, todo, produced>>

(* serial_mark's worklist is empty.                                         *)
SerialReturn(w) ==
    /\ serial
    /\ pc[w] = "run"
    /\ cur[w] = None
    /\ work = <<>>
    /\ pc' = [pc EXCEPT ![w] = "returned"]
    /\ UNCHANGED <<heapVars, sharedVars, marked, batch, cur, todo, produced>>

Step(w) ==
    \/ Acquire(w)
    \/ Recheck(w)
    \/ ClaimNext(w)
    \/ SerialPop(w)
    \/ ScanReference(w)
    \/ TraceReturn(w)
    \/ SerialReturn(w)

(* Every scoped thread has been joined: control is back in `collect`.       *)
Finished == \A w \in Workers : pc[w] = "returned"

Joined == Finished /\ UNCHANGED vars

Next ==
    \/ \E w \in Workers : Step(w) \/ SpuriousWakeup(w)
    \/ Joined

(* A runnable thread is eventually scheduled and eventually gets the mutex. *)
(* Nothing makes a spurious wakeup happen.                                  *)
Fairness == \A w \in Workers : WF_vars(Step(w))

Spec == Init /\ [][Next]_vars
FairSpec == Spec /\ Fairness

-----------------------------------------------------------------------------

childSets == [b \in Blocks |-> Range(children[b])]

Abstract == INSTANCE MarkSpec WITH
    children <- childSets,
    roots    <- Range(rootList),
    finished <- Finished

Reachable == Abstract!Reachable

(* The sweep may trust the marks: when the phase is over the marked blocks  *)
(* are exactly the reachable ones, so that `collect` frees every garbage    *)
(* block and no live one (the worklist drained too early, a child read      *)
(* before its parent's claim was seen, ... would all break this).           *)
MarkIsExact == Finished => marked = Reachable

(* gc.rs, above trace_children: only the unique claimer of a block traces   *)
(* it, so its non-Sync side storage is never read by two workers at once.   *)
OneTracer ==
    \A v, w \in Workers : v # w /\ cur[v] # None => cur[v] # cur[w]

Idlers == {w \in Workers : pc[w] \in {"wait", "woken"}}

EmptyHanded(w) == batch[w] = <<>> /\ cur[w] = None /\ todo[w] = <<>> /\ produced[w] = <<>>

(* gc.rs, SharedInner.idle: the counter is the number of blocked workers,   *)
(* none of them holds a grey block, and when it reaches nthreads "the graph *)
(* is fully traced": no worker keeps a block it has yet to trace.           *)
IdleCountIsExact ==
    ~serial =>
        /\ ~done => idle = Cardinality(Idlers)
        /\ done => work = <<>> /\ idle = nthreads
        /\ \A w \in Workers : pc[w] # "run" => EmptyHanded(w)
        /\ done => \A w \in Workers : pc[w] # "run"

(* No lost wakeup: while the worklist holds a block, or once the phase is   *)
(* over, some worker that has not returned is not blocked in cv.wait.       *)
NoLostWakeup ==
    work # <<>> \/ (done /\ ~Finished) =>
        \E w \in Workers : pc[w] \in {"run", "woken"}

(* Marking implements the abstract mark phase: it claims only blocks that   *)
(* are roots or referenced from claimed blocks, and returns to `collect`    *)
(* only when there are none left.                                           *)
MarkImplemented == Abstract!Spec

(* The mark phase ends: every worker comes back from mark_worker and the    *)
(* scope of parallel_mark can join them.                                    *)
AllReturn == <>Finished
=============================================================================
