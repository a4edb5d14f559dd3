------------------------- MODULE ParallelMarkProofs -------------------------
(***************************************************************************)
(* Proofs about ParallelMark for any finite set of workers, any heap and   *)
(* any batch size.  The argument has two layers: the control invariant     *)
(* (what the idle counter and `done` say about the workers) and the colour *)
(* invariant (every reference of a claimed block is claimed or grey), which *)
(* together give that an ended phase has marked exactly what is reachable. *)
(***************************************************************************)
EXTENDS ParallelMark, SeqLemmas, FiniteSetTheorems, TLAPS

(* The cut split_off is given is a position of the list; when there is      *)
(* something to take, at least one block is taken.                          *)
LEMMA BatchStartInRange ==
    ASSUME NEW n \in Nat
    PROVE  BatchStart(n) \in 0..n /\ (n > 0 => BatchStart(n) < n)
BY BatchAssumption DEF BatchStart

-----------------------------------------------------------------------------
(* ---- the control invariant --------------------------------------------- *)

(* A worker that is not running its loop holds no grey block, and one that  *)
(* is between two blocks has no reference left to look at.                  *)
HandsInv ==
    \A w \in Workers :
        /\ pc[w] # "run" => EmptyHanded(w)
        /\ cur[w] = None => todo[w] = <<>>

(* The serial phase: only the mutator works, until its worklist is empty.   *)
SerialInv ==
    serial =>
        /\ ~done
        /\ \A w \in Workers : w # Main => pc[w] = "returned"
        /\ pc[Main] \in {"run", "returned"}
        /\ pc[Main] = "returned" => work = <<>>
        /\ \A w \in Workers : batch[w] = <<>> /\ produced[w] = <<>>

(* The parallel phase: while it lasts nobody has returned and `idle` counts *)
(* the blocked workers; when it is over nobody works or waits any more.     *)
IdleInv ==
    ~serial =>
        /\ ~done => /\ idle = Cardinality(Idlers)
                    /\ \A w \in Workers : pc[w] # "returned"
        /\ done => /\ work = <<>>
                   /\ idle = nthreads
                   /\ \A w \in Workers : pc[w] \in {"woken", "returned"}

ControlInv == TypeOK /\ HandsInv /\ SerialInv /\ IdleInv

(* Tracers are told apart by the mark byte: a block being traced is marked, *)
(* so nobody else can still claim it.                                       *)
TracerInv ==
    /\ \A w \in Workers : cur[w] # None => cur[w] \in marked
    /\ OneTracer

(* ---- the colour invariant ----------------------------------------------- *)

Held(w) == Range(batch[w]) \cup Range(todo[w]) \cup Range(produced[w])

(* b is on the worklist or in the hands of a worker.                        *)
Grey(b) == b \in Range(work) \/ \E w \in Workers : b \in Held(w)

(* Nothing is lost: the roots and the references of marked blocks are       *)
(* marked or grey.                                                          *)
NothingLost ==
    /\ \A b \in Range(rootList) : b \in marked \/ Grey(b)
    /\ \A a \in marked : \A b \in Range(children[a]) : b \in marked \/ Grey(b)

(* Nothing is invented: a grey block is a root or referenced from a marked  *)
(* block, and marked blocks are in every closed set.                        *)
Grounded ==
    \A b \in Blocks : Grey(b) =>
        b \in Range(rootList) \/ \E a \in marked : b \in Range(children[a])

ColourInv == NothingLost /\ Grounded /\ marked \subseteq Reachable

IInv == ControlInv /\ TracerInv /\ ColourInv

-----------------------------------------------------------------------------
(* ---- the control invariant is inductive --------------------------------- *)

LEMMA InitControl == Init => ControlInv
<1> SUFFICES ASSUME Init PROVE ControlInv
  OBVIOUS
<1> USE DEF Init
<1>1. children \in [Blocks -> Seq(Blocks)] /\ rootList \in Seq(Blocks)
  BY HeapAssumption, RootsAssumption
<1>2. pc \in [Workers -> Places] BY DEF Places
<1>3. /\ work \in Seq(Blocks) /\ idle \in Nat /\ marked \in SUBSET Blocks
      /\ serial \in BOOLEAN /\ done \in BOOLEAN
  BY <1>1
<1>4. /\ batch \in [Workers -> Seq(Blocks)]
      /\ todo \in [Workers -> Seq(Blocks)]
      /\ produced \in [Workers -> Seq(Blocks)]
      /\ cur \in [Workers -> Blocks \cup {None}]
  <2>1. <<>> \in Seq(Blocks) OBVIOUS
  <2> QED BY <2>1
<1>5. TypeOK BY <1>1, <1>2, <1>3, <1>4 DEF TypeOK
<1>6. HandsInv BY DEF HandsInv, EmptyHanded
<1>7. SerialInv BY WorkersAssumption DEF SerialInv
<1>8. IdleInv
  <2>1. ~serial => Idlers = {} BY DEF Idlers
  <2>2. Cardinality({}) = 0 BY FS_EmptySet
  <2> QED BY <2>1, <2>2 DEF IdleInv
<1> QED BY <1>5, <1>6, <1>7, <1>8 DEF ControlInv

LEMMA NotifyAllType ==
    ASSUME NEW w \in Workers, NEW p \in Places, pc \in [Workers -> Places]
    PROVE  NotifyAll(w, p) \in [Workers -> Places]
BY DEF NotifyAll, Places

(* The blocked workers are some of the workers; one that runs is not among  *)
(* them, and if it would be the nthreads-th, all the others are.            *)
LEMMA IdlersCount ==
    ASSUME TypeOK
    PROVE  /\ IsFiniteSet(Idlers)
           /\ Cardinality(Idlers) \in Nat
           /\ nthreads \in Nat
           /\ \A w \in Workers :
                 /\ Cardinality(Idlers \cup {w}) =
                      IF w \in Idlers THEN Cardinality(Idlers) ELSE Cardinality(Idlers) + 1
                 /\ Cardinality(Idlers \ {w}) =
                      IF w \in Idlers THEN Cardinality(Idlers) - 1 ELSE Cardinality(Idlers)
                 /\ w \in Idlers => Cardinality(Idlers) > 0
                 /\ w \notin Idlers /\ Cardinality(Idlers) + 1 = nthreads
                      => Workers = Idlers \cup {w}
<1>1. Idlers \in SUBSET Workers BY DEF Idlers
<1>2. IsFiniteSet(Idlers) BY <1>1, WorkersAssumption, FS_Subset
<1>3. Cardinality(Idlers) \in Nat /\ nthreads \in Nat
  BY <1>2, WorkersAssumption, FS_CardinalityType DEF nthreads
<1>4. ASSUME NEW w \in Workers
      PROVE  /\ Cardinality(Idlers \cup {w}) =
                   IF w \in Idlers THEN Cardinality(Idlers) ELSE Cardinality(Idlers) + 1
             /\ Cardinality(Idlers \ {w}) =
                   IF w \in Idlers THEN Cardinality(Idlers) - 1 ELSE Cardinality(Idlers)
  BY <1>2, FS_AddElement, FS_RemoveElement
<1>5. ASSUME NEW w \in Workers, w \in Idlers PROVE Cardinality(Idlers) > 0
  <2>1. Cardinality(Idlers) # 0 BY <1>2, <1>5, FS_EmptySet
  <2> QED BY <2>1, <1>3
<1>6. ASSUME NEW w \in Workers, w \notin Idlers, Cardinality(Idlers) + 1 = nthreads
      PROVE  Workers = Idlers \cup {w}
  <2>1. Idlers \cup {w} \in SUBSET Workers BY <1>1
  <2>2. Cardinality(Idlers \cup {w}) = Cardinality(Workers)
    BY <1>4, <1>6 DEF nthreads
  <2> QED BY <2>1, <2>2, WorkersAssumption, FS_Subset
<1> QED BY <1>2, <1>3, <1>4, <1>5, <1>6

LEMMA AcquireControl ==
    ASSUME ControlInv, NEW w \in Workers, Acquire(w)
    PROVE  ControlInv'
<1> DEFINE all == work \o produced[w]
           start == BatchStart(Len(all))
<1> USE DEF ControlInv
<1>1. /\ SubSeq(all, 1, start) \in Seq(Blocks)
      /\ SubSeq(all, start + 1, Len(all)) \in Seq(Blocks)
  <2>1. all \in Seq(Blocks) BY RangeConcat DEF TypeOK
  <2> HIDE DEF all
  <2>2. start \in 0..Len(all) BY <2>1, BatchStartInRange
  <2> QED BY <2>1, <2>2, RangeSplit
<1>2. \A p \in Places : NotifyAll(w, p) \in [Workers -> Places]
  BY NotifyAllType DEF TypeOK
<1>3. /\ ~serial /\ serial' = serial
      /\ pc[w] = "run" /\ batch[w] = <<>> /\ cur[w] = None /\ todo[w] = <<>>
  BY DEF Acquire, heapVars, HandsInv
<1>4. all = <<>> => work = <<>>
  BY DEF TypeOK
<1>5. w \notin Idlers BY <1>3 DEF Idlers
<1>6. ~done
  BY <1>3 DEF IdleInv
<1>7. idle = Cardinality(Idlers) /\ \A v \in Workers : pc[v] # "returned"
  BY <1>3, <1>6 DEF IdleInv
<1>a. CASE /\ all # <<>>
           /\ work' = SubSeq(all, 1, start)
           /\ batch' = [batch EXCEPT ![w] = SubSeq(all, start + 1, Len(all))]
           /\ pc' = IF produced[w] # <<>> THEN NotifyAll(w, "run") ELSE pc
           /\ UNCHANGED <<idle, done>>
  <2> HIDE DEF all, start
  <2>0. pc' \in [Workers -> Places] BY <1>a, <1>2 DEF TypeOK, Places
  <2>1. TypeOK' BY <1>a, <1>1, <2>0 DEF TypeOK, Acquire, heapVars
  <2>2. \A v \in Workers : /\ (pc'[v] = "run") <=> (pc[v] = "run")
                           /\ (pc'[v] \in {"wait", "woken"}) <=> (pc[v] \in {"wait", "woken"})
                           /\ pc'[v] # "returned"
    BY <1>a, <1>3, <1>7 DEF NotifyAll
  <2>3. HandsInv'
    BY <1>a, <1>3, <2>2 DEF HandsInv, EmptyHanded, Acquire, TypeOK
  <2>4. Idlers' = Idlers BY <2>2 DEF Idlers
  <2>5. IdleInv' BY <1>a, <1>6, <1>7, <2>2, <2>4 DEF IdleInv
  <2>6. SerialInv' BY <1>3 DEF SerialInv
  <2> QED BY <2>1, <2>3, <2>5, <2>6
<1>b. CASE /\ all = <<>>
           /\ idle' = idle + 1
           /\ pc' = [pc EXCEPT ![w] = "wait"]
           /\ UNCHANGED <<work, done, batch>>
  <2> HIDE DEF all, start
  <2>1. TypeOK' BY <1>b DEF TypeOK, Acquire, heapVars, Places
  <2>2. HandsInv'
    BY <1>b, <1>3 DEF HandsInv, EmptyHanded, Acquire, TypeOK
  <2>3. Idlers' = Idlers \cup {w} BY <1>b DEF Idlers, TypeOK
  <2>4. idle' = Cardinality(Idlers') BY <1>b, <1>5, <1>7, <2>3, IdlersCount
  <2>5. \A v \in Workers : pc'[v] # "returned" BY <1>b, <1>7 DEF TypeOK
  <2>6. IdleInv' BY <1>b, <1>6, <2>4, <2>5 DEF IdleInv
  <2>7. SerialInv' BY <1>3 DEF SerialInv
  <2> QED BY <2>1, <2>2, <2>6, <2>7
<1>c. CASE /\ all = <<>>
           /\ idle + 1 = nthreads
           /\ idle' = idle + 1
           /\ done' = TRUE
           /\ pc' = NotifyAll(w, "returned")
           /\ UNCHANGED <<work, batch>>
  <2> HIDE DEF all, start
  <2>0. pc' \in [Workers -> Places] BY <1>c, <1>2 DEF Places
  <2>1. TypeOK' BY <1>c, <2>0 DEF TypeOK, Acquire, heapVars
  <2>2. Workers = Idlers \cup {w} BY <1>c, <1>5, <1>7, IdlersCount
  <2>3. \A v \in Workers : pc'[v] \in {"woken", "returned"}
    BY <1>c, <2>2 DEF NotifyAll, Idlers
  <2>4. HandsInv'
    <3>1. \A v \in Workers : v # w => pc[v] # "run" BY <2>2 DEF Idlers
    <3> QED BY <1>c, <1>3, <3>1 DEF HandsInv, EmptyHanded, Acquire, TypeOK
  <2>5. IdleInv' BY <1>c, <1>4, <2>3 DEF IdleInv, nthreads
  <2>6. SerialInv' BY <1>3 DEF SerialInv
  <2> QED BY <2>1, <2>4, <2>5, <2>6
<1> QED BY <1>a, <1>b, <1>c DEF Acquire

LEMMA RecheckControl ==
    ASSUME ControlInv, NEW w \in Workers, Recheck(w)
    PROVE  ControlInv'
<1> DEFINE start == BatchStart(Len(work))
<1> USE DEF ControlInv
<1>1. /\ SubSeq(work, 1, start) \in Seq(Blocks)
      /\ SubSeq(work, start + 1, Len(work)) \in Seq(Blocks)
  <2>1. work \in Seq(Blocks) BY DEF TypeOK
  <2>2. start \in 0..Len(work) BY <2>1, BatchStartInRange
  <2> QED BY <2>1, <2>2, RangeSplit
<1>2. pc[w] = "woken" /\ EmptyHanded(w) /\ w \in Idlers
  BY DEF Recheck, HandsInv, Idlers
<1>3. ~serial /\ ~serial' BY <1>2, WorkersAssumption DEF SerialInv, Recheck, heapVars
<1>4. SerialInv' BY <1>3 DEF SerialInv
<1> HIDE DEF start
<1>a. CASE /\ done
           /\ pc' = [pc EXCEPT ![w] = "returned"]
           /\ UNCHANGED <<work, idle, batch>>
  <2>1. TypeOK' BY <1>a DEF TypeOK, Recheck, heapVars, Places
  <2>2. HandsInv' BY <1>a, <1>2 DEF HandsInv, EmptyHanded, Recheck, TypeOK
  <2>3. IdleInv' BY <1>a, <1>3 DEF IdleInv, Recheck, TypeOK, nthreads
  <2> QED BY <2>1, <2>2, <2>3, <1>4
<1>b. CASE /\ ~done /\ work # <<>>
           /\ idle' = idle - 1
           /\ work' = SubSeq(work, 1, start)
           /\ batch' = [batch EXCEPT ![w] = SubSeq(work, start + 1, Len(work))]
           /\ pc' = [pc EXCEPT ![w] = "run"]
  <2>0. idle = Cardinality(Idlers) BY <1>b, <1>3 DEF IdleInv
  <2>9. Cardinality(Idlers) \in Nat /\ Cardinality(Idlers) > 0 BY <1>2, IdlersCount
  <2>1. idle' \in Nat /\ idle' = Cardinality(Idlers) - 1 BY <1>b, <2>0, <2>9
  <2>2. TypeOK' BY <1>b, <1>1, <2>1 DEF TypeOK, Recheck, heapVars, Places
  <2>3. HandsInv' BY <1>b, <1>2 DEF HandsInv, EmptyHanded, Recheck, TypeOK
  <2>4. Idlers' = Idlers \ {w} BY <1>b DEF Idlers, TypeOK
  <2>5. idle' = Cardinality(Idlers') BY <1>2, <2>1, <2>4, IdlersCount
  <2>6. ~done' /\ \A v \in Workers : pc'[v] # "returned"
    BY <1>b, <1>3 DEF IdleInv, Recheck, TypeOK
  <2>7. IdleInv' BY <2>5, <2>6 DEF IdleInv
  <2> QED BY <2>2, <2>3, <2>7, <1>4
<1>c. CASE /\ ~done /\ work = <<>>
           /\ pc' = [pc EXCEPT ![w] = "wait"]
           /\ UNCHANGED <<work, idle, batch>>
  <2>1. TypeOK' BY <1>c DEF TypeOK, Recheck, heapVars, Places
  <2>2. HandsInv' BY <1>c, <1>2 DEF HandsInv, EmptyHanded, Recheck, TypeOK
  <2>3. Idlers' = Idlers BY <1>c, <1>2 DEF Idlers, TypeOK
  <2>4. ~done' /\ \A v \in Workers : pc'[v] # "returned"
    BY <1>c, <1>3 DEF IdleInv, Recheck, TypeOK
  <2>5. IdleInv' BY <1>c, <1>3, <2>3, <2>4 DEF IdleInv
  <2> QED BY <2>1, <2>2, <2>5, <1>4
<1> QED BY <1>a, <1>b, <1>c DEF Recheck, start

LEMMA SpuriousWakeupControl ==
    ASSUME ControlInv, NEW w \in Workers, SpuriousWakeup(w)
    PROVE  ControlInv'
<1> USE DEF ControlInv
<1>1. pc[w] = "wait" /\ EmptyHanded(w)
  BY DEF SpuriousWakeup, HandsInv
<1>2. ~serial /\ ~serial'
  BY <1>1, WorkersAssumption DEF SerialInv, SpuriousWakeup, heapVars
<1>3. TypeOK' BY DEF TypeOK, SpuriousWakeup, heapVars, sharedVars, Places
<1>4. HandsInv' BY <1>1 DEF HandsInv, EmptyHanded, SpuriousWakeup, TypeOK
<1>5. Idlers' = Idlers BY <1>1 DEF Idlers, TypeOK, SpuriousWakeup
<1>6. IdleInv'
  BY <1>2, <1>5 DEF IdleInv, SpuriousWakeup, sharedVars, TypeOK, nthreads
<1>7. SerialInv' BY <1>2 DEF SerialInv
<1> QED BY <1>3, <1>4, <1>6, <1>7

(* Steps outside the lock leave the counters alone, and only a running      *)
(* worker's hands change.                                                   *)
LEMMA LocalControl ==
    ASSUME ControlInv, TypeOK', NEW w \in Workers, pc[w] = "run",
           UNCHANGED <<serial, idle, done, pc>>,
           work' = work \/ serial,
           \A v \in Workers :
              v # w => /\ batch'[v] = batch[v] /\ cur'[v] = cur[v]
                       /\ todo'[v] = todo[v] /\ produced'[v] = produced[v],
           cur'[w] = None => todo'[w] = <<>>,
           serial => batch'[w] = <<>> /\ produced'[w] = <<>>
    PROVE  ControlInv'
<1> USE DEF ControlInv
<1>1. HandsInv'
  <2> SUFFICES ASSUME NEW v \in Workers
               PROVE  (pc[v] # "run" => EmptyHanded(v)') /\ (cur'[v] = None => todo'[v] = <<>>)
    BY DEF HandsInv
  <2>1. CASE v = w BY <2>1
  <2>2. CASE v # w BY <2>2 DEF HandsInv, EmptyHanded
  <2> QED BY <2>1, <2>2
<1>2. Idlers' = Idlers BY DEF Idlers
<1>3. IdleInv' BY <1>2 DEF IdleInv, nthreads
<1>4. serial => w = Main BY DEF SerialInv
<1>5. SerialInv'
  <2> SUFFICES ASSUME serial PROVE SerialInv'
    BY DEF SerialInv
  <2>1. \A v \in Workers : batch'[v] = <<>> /\ produced'[v] = <<>>
    BY DEF SerialInv
  <2> QED BY <1>4, <2>1 DEF SerialInv
<1> QED BY <1>1, <1>3, <1>5

LEMMA ClaimNextControl ==
    ASSUME ControlInv, NEW w \in Workers, ClaimNext(w)
    PROVE  ControlInv'
<1> USE DEF ControlInv
<1>1. Head(batch[w]) \in Blocks /\ Tail(batch[w]) \in Seq(Blocks)
  BY RangeHeadTail DEF ClaimNext, TypeOK
<1>2. todo[w] = <<>> BY DEF HandsInv, ClaimNext
<1>3. TypeOK' BY <1>1 DEF TypeOK, ClaimNext, claim, heapVars, sharedVars
<1>4. cur'[w] = None => todo'[w] = <<>>
  BY <1>1, <1>2, NoneAssumption DEF ClaimNext, claim, TypeOK
<1> QED BY <1>3, <1>4, LocalControl DEF ClaimNext, claim, TypeOK, heapVars, sharedVars

LEMMA SerialPopControl ==
    ASSUME ControlInv, NEW w \in Workers, SerialPop(w)
    PROVE  ControlInv'
<1> USE DEF ControlInv
<1>1. work[Len(work)] \in Blocks /\ SubSeq(work, 1, Len(work) - 1) \in Seq(Blocks)
  BY RangePop DEF SerialPop, TypeOK
<1>2. todo[w] = <<>> BY DEF HandsInv, SerialPop
<1>3. TypeOK' BY <1>1 DEF TypeOK, SerialPop, claim, heapVars
<1>4. cur'[w] = None => todo'[w] = <<>>
  BY <1>1, <1>2, NoneAssumption DEF SerialPop, claim, TypeOK
<1> QED BY <1>3, <1>4, LocalControl DEF SerialPop, claim, TypeOK, heapVars, SerialInv

LEMMA ScanReferenceControl ==
    ASSUME ControlInv, NEW w \in Workers, ScanReference(w)
    PROVE  ControlInv'
<1> USE DEF ControlInv
<1>1. Head(todo[w]) \in Blocks /\ Tail(todo[w]) \in Seq(Blocks)
  BY RangeHeadTail DEF ScanReference, TypeOK
<1>2. /\ Append(work, Head(todo[w])) \in Seq(Blocks)
      /\ Append(produced[w], Head(todo[w])) \in Seq(Blocks)
  BY <1>1, RangeAppend DEF TypeOK
<1>3. TypeOK' BY <1>1, <1>2 DEF TypeOK, ScanReference, Push, heapVars
<1> QED BY <1>3, LocalControl DEF ScanReference, Push, TypeOK, heapVars, SerialInv, HandsInv

LEMMA TraceReturnControl ==
    ASSUME ControlInv, NEW w \in Workers, TraceReturn(w)
    PROVE  ControlInv'
<1> USE DEF ControlInv
<1>1. TypeOK' BY DEF TypeOK, TraceReturn, heapVars, sharedVars
<1> QED BY <1>1, LocalControl DEF TraceReturn, TypeOK, heapVars, sharedVars, SerialInv

LEMMA SerialReturnControl ==
    ASSUME ControlInv, NEW w \in Workers, SerialReturn(w)
    PROVE  ControlInv'
<1> USE DEF ControlInv
<1>1. w = Main BY DEF SerialReturn, SerialInv
<1>2. TypeOK' BY DEF TypeOK, SerialReturn, heapVars, sharedVars, Places
<1>3. EmptyHanded(w) BY DEF SerialReturn, SerialInv, HandsInv, EmptyHanded
<1>4. HandsInv' BY <1>3 DEF HandsInv, EmptyHanded, SerialReturn, TypeOK
<1>5. SerialInv'
  BY <1>1 DEF SerialInv, SerialReturn, heapVars, sharedVars, TypeOK
<1>6. IdleInv' BY DEF IdleInv, SerialReturn, heapVars
<1> QED BY <1>2, <1>4, <1>5, <1>6

LEMMA NextControl == ControlInv /\ [Next]_vars => ControlInv'
<1> SUFFICES ASSUME ControlInv, [Next]_vars PROVE ControlInv'
  OBVIOUS
<1>1. ASSUME NEW w \in Workers, Step(w) PROVE ControlInv'
  BY <1>1, AcquireControl, RecheckControl, ClaimNextControl, SerialPopControl,
     ScanReferenceControl, TraceReturnControl, SerialReturnControl DEF Step
<1>2. CASE UNCHANGED vars
  BY <1>2 DEF vars, ControlInv, TypeOK, HandsInv, EmptyHanded, SerialInv, IdleInv,
     Idlers, nthreads
<1> QED BY <1>1, <1>2, SpuriousWakeupControl DEF Next, Joined

-----------------------------------------------------------------------------
(* ---- results about control ----------------------------------------------- *)

(* The variables of the mark phase keep their types; in particular `idle`,  *)
(* an unsigned counter in the code, is never decremented below zero.        *)
THEOREM TypeCorrect == Spec => []TypeOK
<1>1. ControlInv => TypeOK BY DEF ControlInv
<1> QED BY <1>1, InitControl, NextControl, PTL DEF Spec

(* The termination test of mark_worker is right for any number of workers:  *)
(* `idle` is the number of blocked workers, and when the last one falls     *)
(* idle no worker holds a grey block and none ever takes one again.         *)
THEOREM IdleCountCorrect == Spec => []IdleCountIsExact
<1>1. ControlInv => IdleCountIsExact
  <2> SUFFICES ASSUME ControlInv, ~serial PROVE IdleCountIsExact
    BY DEF IdleCountIsExact
  <2> QED BY DEF ControlInv, IdleInv, HandsInv, IdleCountIsExact
<1> QED BY <1>1, InitControl, NextControl, PTL DEF Spec

-----------------------------------------------------------------------------
(* ---- the colour invariant is inductive ----------------------------------- *)

(* What worker w can reach without anybody else: the worklist and its hands. *)
Near(w) == Range(work) \cup Held(w)

Coloured(b) == b \in marked \/ Grey(b)

(* How a step may recolour blocks: none loses its colour, a block becomes   *)
(* grey only as a reference of a marked block, a newly marked block was     *)
(* grey and its references are coloured.                                    *)
GreyStep ==
    /\ UNCHANGED <<children, rootList>>
    /\ marked \subseteq marked'
    /\ \A b \in Blocks : Coloured(b) => Coloured(b)'
    /\ \A b \in Blocks : Grey(b)' =>
          Grey(b) \/ \E a \in marked' : b \in Range(children[a])
    /\ \A a \in marked' \ marked :
          Grey(a) /\ \A b \in Range(children[a]) : Coloured(b)'

(* The references of a block are blocks, and so are the coloured things.    *)
LEMMA RangesAreBlocks ==
    ASSUME TypeOK
    PROVE  /\ \A a \in Blocks : Range(children[a]) \subseteq Blocks
           /\ Range(rootList) \subseteq Blocks
           /\ Range(work) \subseteq Blocks
           /\ \A w \in Workers : Held(w) \subseteq Blocks
BY DEF TypeOK, Range, Held

(* Every closed set contains the reachable blocks, which are closed.        *)
LEMMA ReachableIsLeast ==
    ASSUME TypeOK
    PROVE  /\ Range(rootList) \subseteq Reachable
           /\ \A a \in Reachable : Range(children[a]) \subseteq Reachable
           /\ Reachable \subseteq Blocks
           /\ \A S \in SUBSET Blocks :
                 /\ Range(rootList) \subseteq S
                 /\ \A a \in S : Range(children[a]) \subseteq S
                 => Reachable \subseteq S
<1> USE RangesAreBlocks DEF Reachable, Abstract!Reachable, Abstract!IsClosed, childSets
<1>1. Range(rootList) \subseteq Reachable OBVIOUS
<1>2. \A a \in Reachable : Range(children[a]) \subseteq Reachable OBVIOUS
<1>3. Reachable \subseteq Blocks OBVIOUS
<1>4. ASSUME NEW S \in SUBSET Blocks, Range(rootList) \subseteq S,
             \A a \in S : Range(children[a]) \subseteq S
      PROVE  Reachable \subseteq S
  BY <1>4
<1> QED BY <1>1, <1>2, <1>3, <1>4

LEMMA GreyStepColour ==
    ASSUME TypeOK, TypeOK', ColourInv, GreyStep
    PROVE  ColourInv'
<1>1. Reachable' = Reachable
  BY DEF GreyStep, Reachable, Abstract!Reachable, Abstract!IsClosed, childSets
<1>2. NothingLost'
  <2>1. ASSUME NEW b \in Range(rootList') PROVE Coloured(b)'
    BY <2>1, RangesAreBlocks DEF ColourInv, NothingLost, GreyStep, Coloured
  <2>2. ASSUME NEW a \in marked', NEW b \in Range(children'[a]) PROVE Coloured(b)'
    <3>1. CASE a \in marked
      <4>1. a \in Blocks /\ b \in Blocks /\ b \in Range(children[a])
        BY <3>1, RangesAreBlocks DEF TypeOK, GreyStep
      <4>2. Coloured(b) BY <3>1, <4>1 DEF ColourInv, NothingLost, Coloured
      <4> QED BY <4>1, <4>2 DEF GreyStep
    <3>2. CASE a \notin marked BY <3>2 DEF GreyStep
    <3> QED BY <3>1, <3>2
  <2> QED BY <2>1, <2>2 DEF NothingLost, Coloured
<1>3. Grounded'
  <2> SUFFICES ASSUME NEW b \in Blocks, Grey(b)'
               PROVE  b \in Range(rootList) \/ \E a \in marked' : b \in Range(children[a])
    BY DEF Grounded, GreyStep
  <2> QED BY DEF GreyStep, ColourInv, Grounded
<1>4. marked' \subseteq Reachable
  <2> SUFFICES ASSUME NEW a \in marked', a \notin marked PROVE a \in Reachable
    BY DEF ColourInv
  <2>1. a \in Blocks /\ Grey(a) BY DEF GreyStep, TypeOK
  <2>2. a \in Range(rootList) \/ \E c \in marked : a \in Range(children[c])
    BY <2>1 DEF ColourInv, Grounded
  <2> QED BY <2>2, ReachableIsLeast DEF ColourInv
<1> QED BY <1>1, <1>2, <1>3, <1>4 DEF ColourInv

(* A step that moves blocks between the worklist and the hands of w only.   *)
LEMMA NearStep ==
    ASSUME TypeOK, TypeOK', NEW w \in Workers,
           UNCHANGED <<children, rootList>>,
           \A v \in Workers : v # w => Held(v)' = Held(v),
           marked \subseteq marked',
           Near(w) \subseteq marked' \cup Near(w)',
           \A b \in Near(w)' : b \in Near(w) \/ \E a \in marked' : b \in Range(children[a]),
           \A a \in marked' \ marked :
              a \in Near(w) /\ Range(children[a]) \subseteq Near(w)'
    PROVE  GreyStep
<1>1. \A b : Grey(b) <=> b \in Near(w) \/ \E v \in Workers : v # w /\ b \in Held(v)
  BY DEF Grey, Near
<1>2. \A b : Grey(b)' <=> b \in Near(w)' \/ \E v \in Workers : v # w /\ b \in Held(v)'
  BY DEF Grey, Near
<1>3. \A b \in Blocks : Coloured(b) => Coloured(b)' BY <1>1, <1>2 DEF Coloured
<1>4. \A b \in Blocks : Grey(b)' =>
         Grey(b) \/ \E a \in marked' : b \in Range(children[a])
  BY <1>1, <1>2
<1>5. \A a \in marked' \ marked : Grey(a) /\ \A b \in Range(children[a]) : Coloured(b)'
  BY <1>1, <1>2 DEF Coloured
<1> HIDE DEF Coloured
<1> QED BY <1>3, <1>4, <1>5 DEF GreyStep

LEMMA EmptyRange == Range(<<>>) = {}
BY DEF Range

LEMMA AcquireGrey ==
    ASSUME ControlInv, TypeOK', NEW w \in Workers, Acquire(w)
    PROVE  GreyStep
<1> DEFINE all == work \o produced[w]
           start == BatchStart(Len(all))
<1> USE DEF ControlInv
<1>1. /\ all \in Seq(Blocks)
      /\ Range(all) = Range(work) \cup Range(produced[w])
  BY RangeConcat DEF TypeOK
<1>2. Range(all) = Range(SubSeq(all, 1, start)) \cup Range(SubSeq(all, start + 1, Len(all)))
  <2> HIDE DEF all
  <2>1. start \in 0..Len(all) BY <1>1, BatchStartInRange
  <2> QED BY <1>1, <2>1, RangeSplit
<1>3. Near(w) = Range(all)
  BY <1>1, EmptyRange DEF Near, Held, Acquire, HandsInv
<1>4. /\ todo'[w] = <<>> /\ produced'[w] = <<>> /\ marked' = marked
      /\ \A v \in Workers : v # w => Held(v)' = Held(v)
  BY DEF Acquire, HandsInv, Held, TypeOK
<1>5. Near(w)' = Range(work') \cup Range(batch'[w])
  BY <1>4, EmptyRange DEF Near, Held
<1> HIDE DEF all, start
<1>6. CASE /\ work' = SubSeq(all, 1, start)
           /\ batch' = [batch EXCEPT ![w] = SubSeq(all, start + 1, Len(all))]
  <2>1. batch'[w] = SubSeq(all, start + 1, Len(all)) BY <1>6 DEF TypeOK
  <2>2. Near(w)' = Near(w) BY <1>2, <1>3, <1>5, <1>6, <2>1
  <2> QED BY <1>4, <2>2, NearStep DEF Acquire, heapVars
<1>7. CASE all = <<>> /\ UNCHANGED <<work, batch>>
  <2>1. Near(w) = {} BY <1>3, <1>7, EmptyRange
  <2>2. Near(w)' = {}
    BY <1>5, <1>7, <2>1, EmptyRange DEF Near, Acquire
  <2> QED BY <2>1, <2>2, <1>4, NearStep DEF Acquire, heapVars
<1> QED BY <1>6, <1>7 DEF Acquire, all, start

LEMMA RecheckGrey ==
    ASSUME ControlInv, TypeOK', NEW w \in Workers, Recheck(w)
    PROVE  GreyStep
<1> DEFINE start == BatchStart(Len(work))
<1> USE DEF ControlInv
<1>1. Range(work) = Range(SubSeq(work, 1, start)) \cup Range(SubSeq(work, start + 1, Len(work)))
  <2>1. work \in Seq(Blocks) BY DEF TypeOK
  <2>2. start \in 0..Len(work) BY <2>1, BatchStartInRange
  <2> QED BY <2>1, <2>2, RangeSplit
<1>2. EmptyHanded(w) BY DEF HandsInv, Recheck
<1>3. Near(w) = Range(work) BY <1>2, EmptyRange DEF Near, Held, EmptyHanded
<1>4. Near(w)' = Range(work') \cup Range(batch'[w])
  BY <1>2, EmptyRange DEF Near, Held, EmptyHanded, Recheck
<1>5. marked' = marked /\ \A v \in Workers : v # w => Held(v)' = Held(v)
  BY DEF Recheck, Held, TypeOK
<1> HIDE DEF start
<1>6. CASE /\ work' = SubSeq(work, 1, start)
           /\ batch' = [batch EXCEPT ![w] = SubSeq(work, start + 1, Len(work))]
  <2>1. batch'[w] = SubSeq(work, start + 1, Len(work)) BY <1>6 DEF TypeOK
  <2>2. Near(w)' = Near(w) BY <1>1, <1>3, <1>4, <1>6, <2>1
  <2> QED BY <1>5, <2>2, NearStep DEF Recheck, heapVars
<1>7. CASE UNCHANGED <<work, batch>>
  <2>1. Near(w)' = Near(w)
    BY <1>2, <1>3, <1>4, <1>7, EmptyRange DEF EmptyHanded
  <2> QED BY <2>1, <1>5, NearStep DEF Recheck, heapVars
<1> QED BY <1>6, <1>7 DEF Recheck, start

(* Claiming p, wherever it was taken from.                                  *)
LEMMA ClaimGrey ==
    ASSUME ControlInv, TypeOK', NEW w \in Workers, NEW p \in Blocks, claim(w, p),
           todo[w] = <<>>,
           UNCHANGED <<children, rootList, produced>>,
           \A v \in Workers : v # w => batch'[v] = batch[v],
           Range(work) \cup Range(batch[w]) = {p} \cup Range(work') \cup Range(batch'[w])
    PROVE  GreyStep
<1> USE DEF ControlInv
<1>1. Near(w) = {p} \cup Range(work') \cup Range(batch'[w]) \cup Range(produced[w])
  BY EmptyRange DEF Near, Held
<1>2. \A v \in Workers : v # w => Held(v)' = Held(v)
  BY DEF claim, Held, TypeOK
<1>3. CASE p \in marked
  <2>1. marked' = marked /\ todo'[w] = <<>> BY <1>3 DEF claim
  <2>2. Near(w)' = Range(work') \cup Range(batch'[w]) \cup Range(produced[w])
    BY <2>1, EmptyRange DEF Near, Held
  <2> QED BY <1>1, <1>2, <1>3, <2>1, <2>2, NearStep
<1>4. CASE p \notin marked
  <2>1. marked' = marked \cup {p} /\ todo'[w] = children[p]
    BY <1>4 DEF claim, TypeOK
  <2>2. Near(w)' = Range(work') \cup Range(batch'[w]) \cup Range(produced[w])
                   \cup Range(children[p])
    BY <2>1 DEF Near, Held
  <2> QED BY <1>1, <1>2, <2>1, <2>2, NearStep
<1> QED BY <1>3, <1>4

LEMMA ClaimNextGrey ==
    ASSUME ControlInv, TypeOK', NEW w \in Workers, ClaimNext(w)
    PROVE  GreyStep
<1> USE DEF ControlInv
<1>1. /\ Head(batch[w]) \in Blocks
      /\ Range(batch[w]) = {Head(batch[w])} \cup Range(Tail(batch[w]))
  BY RangeHeadTail DEF ClaimNext, TypeOK
<1>2. batch'[w] = Tail(batch[w]) /\ work' = work
  BY DEF ClaimNext, TypeOK, sharedVars
<1>3. todo[w] = <<>> BY DEF ClaimNext, HandsInv
<1>4. \A v \in Workers : v # w => batch'[v] = batch[v] BY DEF ClaimNext, TypeOK
<1> QED BY <1>1, <1>2, <1>3, <1>4, ClaimGrey DEF ClaimNext, heapVars

LEMMA SerialPopGrey ==
    ASSUME ControlInv, TypeOK', NEW w \in Workers, SerialPop(w)
    PROVE  GreyStep
<1> USE DEF ControlInv
<1>1. /\ work[Len(work)] \in Blocks
      /\ Range(work) = Range(SubSeq(work, 1, Len(work) - 1)) \cup {work[Len(work)]}
  BY RangePop DEF SerialPop, TypeOK
<1>2. work' = SubSeq(work, 1, Len(work) - 1) /\ batch' = batch BY DEF SerialPop
<1>3. todo[w] = <<>> BY DEF SerialPop, HandsInv
<1> QED BY <1>1, <1>2, <1>3, ClaimGrey DEF SerialPop, heapVars

LEMMA ScanReferenceGrey ==
    ASSUME ControlInv, TypeOK', TracerInv, NEW w \in Workers, ScanReference(w)
    PROVE  GreyStep
<1> DEFINE p == Head(todo[w])
<1> USE DEF ControlInv
<1>1. p \in Blocks /\ Range(todo[w]) = {p} \cup Range(Tail(todo[w]))
  BY RangeHeadTail DEF ScanReference, TypeOK
<1> HIDE DEF p
<1>2. /\ todo'[w] = Tail(todo[w]) /\ batch' = batch /\ marked' = marked
      /\ \A v \in Workers : v # w => Held(v)' = Held(v)
  BY DEF ScanReference, Push, Held, TypeOK
<1>3. CASE Push(w, p)
  <2>1. Range(work') \cup Range(produced'[w]) = Range(work) \cup Range(produced[w]) \cup {p}
    <3>1. /\ Range(Append(work, p)) = Range(work) \cup {p}
          /\ Range(Append(produced[w], p)) = Range(produced[w]) \cup {p}
      BY <1>1, RangeAppend DEF TypeOK
    <3>2. CASE serial BY <1>3, <3>1, <3>2 DEF Push
    <3>3. CASE ~serial
      <4>1. produced'[w] = Append(produced[w], p) /\ work' = work
        BY <1>3, <3>3 DEF Push, TypeOK
      <4> QED BY <3>1, <4>1
    <3> QED BY <3>2, <3>3
  <2>2. Near(w)' = Near(w) BY <1>1, <1>2, <2>1 DEF Near, Held
  <2> QED BY <1>2, <2>2, NearStep DEF ScanReference, heapVars
<1>4. CASE p \in marked /\ UNCHANGED <<work, produced>>
  <2>1. Near(w) = Near(w)' \cup {p} BY <1>1, <1>2, <1>4 DEF Near, Held
  <2> QED BY <1>2, <1>4, <2>1, NearStep DEF ScanReference, heapVars
<1> QED BY <1>3, <1>4 DEF ScanReference, p

LEMMA QuietGrey ==
    ASSUME TypeOK, TypeOK', UNCHANGED <<children, rootList, marked, work, batch, todo, produced>>
    PROVE  GreyStep
<1>1. \A b : Grey(b)' <=> Grey(b) BY DEF Grey, Held
<1> QED BY <1>1 DEF GreyStep, Coloured

LEMMA NextGrey ==
    ASSUME ControlInv, TypeOK', TracerInv, [Next]_vars
    PROVE  GreyStep
<1>0. TypeOK BY DEF ControlInv
<1>1. ASSUME NEW w \in Workers, Step(w) PROVE GreyStep
  <2>1. CASE TraceReturn(w)
    BY <1>0, <2>1, QuietGrey DEF TraceReturn, heapVars, sharedVars
  <2>2. CASE SerialReturn(w)
    BY <1>0, <2>2, QuietGrey DEF SerialReturn, heapVars, sharedVars
  <2> QED BY <1>1, <2>1, <2>2, AcquireGrey, RecheckGrey, ClaimNextGrey, SerialPopGrey,
             ScanReferenceGrey DEF Step
<1>2. ASSUME NEW w \in Workers, SpuriousWakeup(w) PROVE GreyStep
  BY <1>0, <1>2, QuietGrey DEF SpuriousWakeup, heapVars, sharedVars
<1>3. CASE UNCHANGED vars BY <1>0, <1>3, QuietGrey DEF vars
<1> QED BY <1>1, <1>2, <1>3 DEF Next, Joined

(* A block is claimed by at most one worker: the swap of the mark byte      *)
(* succeeds once, and the claimer's block is marked from then on.           *)
LEMMA NextTracer ==
    ASSUME ControlInv, TracerInv, [Next]_vars
    PROVE  TracerInv'
<1> USE DEF ControlInv
<1>1. ASSUME marked' = marked, \A w \in Workers : cur'[w] \in {cur[w], None}
      PROVE  TracerInv'
  BY <1>1 DEF TracerInv, OneTracer
<1>2. ASSUME NEW w \in Workers, NEW p \in Blocks, claim(w, p) PROVE TracerInv'
  <2>1. CASE p \in marked BY <1>2, <2>1 DEF claim, TracerInv, OneTracer
  <2>2. CASE p \notin marked
    <3>1. /\ marked' = marked \cup {p} /\ cur'[w] = p
          /\ \A v \in Workers : v # w => cur'[v] = cur[v]
      BY <1>2, <2>2 DEF claim, TypeOK
    <3>2. \A v \in Workers : cur[v] # p
      BY <2>2, NoneAssumption DEF TracerInv
    <3> QED BY <3>1, <3>2, NoneAssumption DEF TracerInv, OneTracer
  <2> QED BY <2>1, <2>2
<1>3. ASSUME NEW w \in Workers, Step(w) PROVE TracerInv'
  <2>1. CASE Acquire(w) BY <1>1, <2>1 DEF Acquire
  <2>2. CASE Recheck(w) BY <1>1, <2>2 DEF Recheck
  <2>3. CASE ClaimNext(w)
    <3>1. Head(batch[w]) \in Blocks BY <2>3, RangeHeadTail DEF ClaimNext, TypeOK
    <3> QED BY <1>2, <2>3, <3>1 DEF ClaimNext
  <2>4. CASE SerialPop(w)
    <3>1. work[Len(work)] \in Blocks BY <2>4, RangePop DEF SerialPop, TypeOK
    <3> QED BY <1>2, <2>4, <3>1 DEF SerialPop
  <2>5. CASE ScanReference(w) BY <1>1, <2>5 DEF ScanReference
  <2>6. CASE TraceReturn(w) BY <1>1, <2>6 DEF TraceReturn, TypeOK
  <2>7. CASE SerialReturn(w) BY <1>1, <2>7 DEF SerialReturn
  <2> QED BY <1>3, <2>1, <2>2, <2>3, <2>4, <2>5, <2>6, <2>7 DEF Step
<1>4. ASSUME NEW w \in Workers, SpuriousWakeup(w) PROVE TracerInv'
  BY <1>1, <1>4 DEF SpuriousWakeup
<1>5. CASE UNCHANGED vars BY <1>1, <1>5 DEF vars
<1> QED BY <1>3, <1>4, <1>5 DEF Next, Joined

LEMMA InitColour == Init => TracerInv /\ ColourInv
<1> SUFFICES ASSUME Init PROVE TracerInv /\ ColourInv
  OBVIOUS
<1>0. TypeOK BY InitControl DEF ControlInv
<1>1. TracerInv BY DEF Init, TracerInv, OneTracer
<1>2. \A b : Grey(b) <=> b \in Range(rootList)
  BY EmptyRange DEF Init, Grey, Held
<1>3. ColourInv BY <1>2 DEF Init, ColourInv, NothingLost, Grounded
<1> QED BY <1>1, <1>3

LEMMA InitIInv == Init => IInv
BY InitControl, InitColour DEF IInv

LEMMA NextIInv == IInv /\ [Next]_vars => IInv'
<1> SUFFICES ASSUME IInv, [Next]_vars PROVE IInv'
  OBVIOUS
<1>1. ControlInv' BY NextControl DEF IInv
<1>2. TracerInv' BY NextTracer DEF IInv
<1>3. GreyStep BY <1>1, NextGrey DEF IInv, ControlInv
<1>4. ColourInv' BY <1>1, <1>3, GreyStepColour DEF IInv, ControlInv
<1> QED BY <1>1, <1>2, <1>4 DEF IInv

(* When every worker has returned nothing is grey any more.                 *)
LEMMA FinishedIsBlack ==
    ASSUME ControlInv, Finished
    PROVE  \A b : ~Grey(b)
<1>1. \A w \in Workers : Held(w) = {}
  BY EmptyRange DEF ControlInv, HandsInv, EmptyHanded, Finished, Held
<1>2. work = <<>>
  BY WorkersAssumption DEF ControlInv, SerialInv, IdleInv, Finished
<1> QED BY <1>1, <1>2, EmptyRange DEF Grey

LEMMA FinishedIsClosed == IInv /\ Finished => Abstract!IsClosed(marked)
<1> SUFFICES ASSUME IInv, Finished PROVE Abstract!IsClosed(marked)
  OBVIOUS
<1>1. \A b : ~Grey(b) BY FinishedIsBlack DEF IInv
<1>2. \A a \in marked : childSets[a] = Range(children[a])
  BY DEF childSets, IInv, ControlInv, TypeOK
<1> QED BY <1>1, <1>2 DEF IInv, ColourInv, NothingLost, Abstract!IsClosed

-----------------------------------------------------------------------------
(* ---- results about the marks --------------------------------------------- *)

(* When the mark phase is over, exactly the reachable blocks are marked,    *)
(* for any heap, any roots, any number of workers and any batch size: the   *)
(* sweep that follows frees no reachable block and leaves no garbage.       *)
THEOREM MarkExact == Spec => []MarkIsExact
<1>1. IInv => MarkIsExact
  <2> SUFFICES ASSUME IInv, Finished PROVE marked = Reachable
    BY DEF MarkIsExact
  <2>1. TypeOK /\ marked \in SUBSET Blocks BY DEF IInv, ControlInv, TypeOK
  <2>2. /\ Range(rootList) \subseteq marked
        /\ \A a \in marked : Range(children[a]) \subseteq marked
    BY FinishedIsClosed, <2>1 DEF Abstract!IsClosed, childSets
  <2>3. Reachable \subseteq marked BY <2>1, <2>2, ReachableIsLeast
  <2> QED BY <2>3 DEF IInv, ColourInv
<1> QED BY <1>1, InitIInv, NextIInv, PTL DEF Spec

(* No two workers ever trace the same block, so a block's side storage is   *)
(* read by one thread only.                                                 *)
THEOREM OneTracerCorrect == Spec => []OneTracer
<1>1. IInv => OneTracer BY DEF IInv, TracerInv
<1> QED BY <1>1, InitIInv, NextIInv, PTL DEF Spec

-----------------------------------------------------------------------------
(* ---- no lost wakeup -------------------------------------------------------- *)

(* The blocked workers can rely on being woken: whoever puts a block on the *)
(* worklist or ends the phase notifies them, and whoever finds the worklist *)
(* empty before blocking does so in the same lock section.                  *)
LEMMA NextWakeup ==
    ASSUME ControlInv, NoLostWakeup, [Next]_vars
    PROVE  NoLostWakeup'
<1> USE DEF ControlInv
<1>0. ControlInv' BY NextControl
<1>1. ASSUME done', ~Finished' PROVE \E w \in Workers : pc'[w] \in {"run", "woken"}
  BY <1>0, <1>1 DEF SerialInv, IdleInv, Finished
<1>2. SUFFICES ASSUME work' # <<>> PROVE \E w \in Workers : pc'[w] \in {"run", "woken"}
  BY <1>1 DEF NoLostWakeup
<1>3. ASSUME NEW w \in Workers, pc'[w] = "run"
      PROVE  \E v \in Workers : pc'[v] \in {"run", "woken"}
  BY <1>3
<1>4. ASSUME work' = work, \A v \in Workers : pc'[v] = pc[v] \/ pc'[v] \in {"run", "woken"}
      PROVE  \E w \in Workers : pc'[w] \in {"run", "woken"}
  BY <1>2, <1>4 DEF NoLostWakeup
<1>5. ASSUME NEW w \in Workers, Step(w)
      PROVE  \E v \in Workers : pc'[v] \in {"run", "woken"}
  <2>1. CASE Acquire(w)
    <3>1. work' # <<>> => pc'[w] = "run"
      <4>1. work \o produced[w] = <<>> => work = <<>> BY DEF TypeOK
      <4> QED BY <2>1, <4>1 DEF Acquire, NotifyAll, TypeOK
    <3> QED BY <1>2, <1>3, <3>1
  <2>2. CASE Recheck(w)
    <3>1. CASE done BY <1>0, <1>2, <2>2, <3>1 DEF IdleInv, SerialInv, Recheck, heapVars
    <3>2. CASE ~done
      <4>1. pc'[w] = "run" BY <1>2, <2>2, <3>2 DEF Recheck, TypeOK
      <4> QED BY <1>3, <4>1
    <3> QED BY <3>1, <3>2
  <2>3. CASE ClaimNext(w) BY <1>3, <2>3 DEF ClaimNext
  <2>4. CASE SerialPop(w) BY <1>3, <2>4 DEF SerialPop
  <2>5. CASE ScanReference(w) BY <1>3, <2>5 DEF ScanReference
  <2>6. CASE TraceReturn(w) BY <1>3, <2>6 DEF TraceReturn
  <2>7. CASE SerialReturn(w) BY <1>2, <2>7 DEF SerialReturn, sharedVars
  <2> QED BY <1>5, <2>1, <2>2, <2>3, <2>4, <2>5, <2>6, <2>7 DEF Step
<1>6. ASSUME NEW w \in Workers, SpuriousWakeup(w)
      PROVE  \E v \in Workers : pc'[v] \in {"run", "woken"}
  BY <1>6 DEF SpuriousWakeup, TypeOK
<1>7. CASE UNCHANGED vars BY <1>4, <1>7 DEF vars
<1> QED BY <1>5, <1>6, <1>7 DEF Next, Joined

(* While there is work, or an ended phase some worker has not left, at      *)
(* least one worker is awake: the condition variable never strands them.    *)
THEOREM NoLostWakeupCorrect == Spec => []NoLostWakeup
<1>1. Init => NoLostWakeup
  BY WorkersAssumption DEF Init, NoLostWakeup
<1>2. ControlInv /\ NoLostWakeup /\ [Next]_vars => NoLostWakeup'
  BY NextWakeup
<1> QED BY <1>1, <1>2, InitControl, NextControl, PTL DEF Spec

-----------------------------------------------------------------------------
(* ---- marking implements the abstract mark phase ------------------------- *)

(* A step either leaves the marks alone, or claims one grey block while the *)
(* phase is still running.                                                  *)
LEMMA ClaimEffect ==
    ASSUME IInv, [Next]_vars, marked' # marked
    PROVE  /\ ~Finished /\ ~Finished'
           /\ \E p \in Blocks : p \notin marked /\ marked' = marked \cup {p}
<1> USE DEF IInv, ControlInv
<1>1. ASSUME NEW w \in Workers, NEW p \in Blocks, claim(w, p), pc[w] = "run", pc' = pc
      PROVE  /\ ~Finished /\ ~Finished'
             /\ \E q \in Blocks : q \notin marked /\ marked' = marked \cup {q}
  BY <1>1 DEF claim, Finished
<1>2. PICK w \in Workers : ClaimNext(w) \/ SerialPop(w)
  BY DEF Next, Step, Joined, vars, Acquire, Recheck, ScanReference, TraceReturn,
     SerialReturn, SpuriousWakeup
<1>3. CASE ClaimNext(w)
  <2>1. Head(batch[w]) \in Blocks BY <1>3, RangeHeadTail DEF ClaimNext, TypeOK
  <2> QED BY <1>1, <1>3, <2>1 DEF ClaimNext
<1>4. CASE SerialPop(w)
  <2>1. work[Len(work)] \in Blocks BY <1>4, RangePop DEF SerialPop, TypeOK
  <2> QED BY <1>1, <1>4, <2>1 DEF SerialPop
<1> QED BY <1>2, <1>3, <1>4

LEMMA FinishedIsStable ==
    ASSUME ControlInv, [Next]_vars, Finished
    PROVE  Finished'
<1>1. \A w \in Workers : ~Step(w) /\ ~SpuriousWakeup(w)
  BY DEF Finished, Step, Acquire, Recheck, ClaimNext, SerialPop, ScanReference,
     TraceReturn, SerialReturn, SpuriousWakeup
<1> QED BY <1>1 DEF Next, Joined, vars, Finished

(* parallel_mark and serial_mark both do what the sweep needs of a mark     *)
(* phase: claim one referenced block after another and return only when no  *)
(* reference leads to an unmarked block.                                    *)
THEOREM MarkRefines == Spec => Abstract!Spec
<1>1. Init => Abstract!Init
  <2> SUFFICES ASSUME Init PROVE Abstract!Init
    OBVIOUS
  <2>1. TypeOK BY InitControl DEF ControlInv
  <2>2. childSets \in [Blocks -> SUBSET Blocks]
    BY <2>1, RangesAreBlocks DEF childSets
  <2>3. ~Finished BY WorkersAssumption DEF Init, Finished
  <2> QED BY <2>1, <2>2, <2>3, RangesAreBlocks DEF Init, Abstract!Init
<1>2. IInv' /\ Finished' => Abstract!IsClosed(marked)'
  BY FinishedIsClosed, PTL
<1>3. IInv /\ [Next]_vars => [Abstract!Next]_(Abstract!vars)
  <2> SUFFICES ASSUME IInv, [Next]_vars PROVE [Abstract!Next]_(Abstract!vars)
    OBVIOUS
  <2>1. IInv' BY NextIInv
  <2>2. GreyStep BY <2>1, NextGrey DEF IInv, ControlInv
  <2>3. childSets' = childSets /\ Range(rootList)' = Range(rootList)
    BY <2>2 DEF GreyStep, childSets
  <2>4. CASE marked' # marked
    <3>1. PICK p \in Blocks : p \notin marked /\ marked' = marked \cup {p}
      BY <2>4, ClaimEffect
    <3>2. Grey(p) BY <3>1, <2>2 DEF GreyStep
    <3>3. p \in Range(rootList) \/ \E a \in marked : p \in childSets[a]
      BY <3>2 DEF IInv, ControlInv, ColourInv, Grounded, childSets, TypeOK
    <3>4. ~Finished /\ ~Finished' BY <2>4, ClaimEffect
    <3>5. Finished' = Finished BY <3>4 DEF Finished
    <3>6. Abstract!MarkOne(p) BY <2>3, <3>1, <3>3, <3>4, <3>5 DEF Abstract!MarkOne
    <3> QED BY <3>6 DEF Abstract!Next
  <2>5. CASE marked' = marked /\ Finished' /\ ~Finished
    <3>1. Abstract!IsClosed(marked)
      BY <1>2, <2>1, <2>3, <2>5 DEF Abstract!IsClosed
    <3>2. Abstract!Finish BY <2>3, <2>5, <3>1 DEF Abstract!Finish
    <3> QED BY <3>2 DEF Abstract!Next
  <2>6. CASE marked' = marked /\ (Finished' <=> Finished)
    BY <2>3, <2>6 DEF Abstract!vars
  <2> QED BY <2>4, <2>5, <2>6, FinishedIsStable DEF IInv
<1> QED BY <1>1, <1>3, InitIInv, NextIInv, PTL DEF Spec, Abstract!Spec
=============================================================================
