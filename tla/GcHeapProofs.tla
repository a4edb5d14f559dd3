----------------------------- MODULE GcHeapProofs -----------------------------
(***************************************************************************)
(* Proofs about GcHeap for any number of blocks, frames and references.    *)
(* The bookkeeping facts (types, deferral, free list, debt) hold of the    *)
(* runtime as it is.  The promise of the collector is proved for programs  *)
(* that keep to two rules, and only for them: an Array or Vector element   *)
(* has a tag that mark_any follows, and System.gc() is not called below a  *)
(* native that calls back.                                                 *)
(***************************************************************************)
EXTENDS GcHeap, SeqLemmas, FiniteSetTheorems, TLAPS

(* The natives among the first n frames of fs.                              *)
NativesIn(fs, n) == {j \in 1..n : fs[j].kind = "native"}

(* The depth is the number of natives, every handler was pushed with the    *)
(* number of natives below it, and only natives hold staged elements.       *)
Balanced(fs, d) ==
    /\ d = Cardinality(NativesIn(fs, Len(fs)))
    /\ \A i \in 1..Len(fs) :
          fs[i].kind = "try" => /\ fs[i].depth = Cardinality(NativesIn(fs, i - 1))
                                /\ fs[i].staged = {}

(* Every carved block is either live or on the free list, once.             *)
CarvedInv == live \cap Small \subseteq 1..bumped

(* The books of the allocator: the types of its state and what it claims.   *)
(* Between collections no block is marked.                                  *)
BlockTypes ==
    /\ live \in SUBSET Blocks
    /\ marked = {}
    /\ type \in [Blocks -> Types \cup {None}]
    /\ refs \in [Blocks -> SUBSET Blocks]
    /\ bumped \in 0..MaxSmall
    /\ freeList \in Seq(Small)
    /\ since \in Nat /\ threshold \in Nat
    /\ pending \in BOOLEAN

Books == BlockTypes /\ CarvedInv /\ FreeListExact /\ DebtIsFlagged

(* The state of compiled code and of the natives it is under.               *)
FrameInv ==
    /\ defer \in Nat
    /\ roots \in SUBSET Blocks
    /\ frames \in Seq(Frames)
    /\ Balanced(frames, defer)

IInv == Books /\ FrameInv

(* What the two rules say of the constants.                                 *)
Discipline == Boxable \subseteq TracedTags /\ ~GcInCallbacks

(* The contents of a live block are what its kind can hold.                 *)
WellFormed(b) ==
    /\ type[b] \in Types
    /\ refs[b] \subseteq live
    /\ KindOf(type[b]) = "Array" => \A c \in refs[b] : type[c] \in Boxable
    /\ KindOf(type[b]) = "Leaf" => refs[b] = {}

(* Nothing refers to a dead block: not a root, not what a native holds, not *)
(* a live block.                                                            *)
LiveInv ==
    /\ roots \subseteq live
    /\ \A i \in 1..Len(frames) : \A c \in frames[i].staged :
          c \in live /\ type[c] \in Boxable
    /\ \A b \in live : WellFormed(b)

-----------------------------------------------------------------------------
(* ---- facts about the data ------------------------------------------------ *)

LEMMA BlocksFinite == IsFiniteSet(Blocks) /\ IsFiniteSet(Small)
<1>1. IsFiniteSet(Small) BY SmallAssumption, FS_Interval DEF Small
<1> QED BY <1>1, SmallAssumption, FS_Union DEF Blocks

LEMMA SizeType == \A b : Size(b) \in Nat \ {0}
BY SizesAssumption DEF Size

LEMMA BytesType ==
    ASSUME NEW S \in SUBSET Blocks
    PROVE  liveBytes(S) \in Nat
<1>1. IsFiniteSet(S \cap Small) /\ IsFiniteSet(S \cap Large)
  <2>1. S \cap Small \in SUBSET Small /\ S \cap Large \in SUBSET Large OBVIOUS
  <2> QED BY <2>1, BlocksFinite, SmallAssumption, FS_Subset
<1>2. Cardinality(S \cap Small) \in Nat /\ Cardinality(S \cap Large) \in Nat
  BY <1>1, FS_CardinalityType
<1>3. \A m, n \in Nat : m * n \in Nat OBVIOUS
<1> QED BY <1>2, <1>3, SizesAssumption DEF liveBytes

(* Every kind is one of three.                                              *)
LEMMA Kinds == \A t : KindOf(t) \in {"Raw", "Array", "Leaf"}
BY DEF KindOf

LEMMA ArrayKind == KindOf("Array") = "Array"
BY DEF KindOf

(* The closure of a set is the least closed one that holds it.              *)
LEMMA ClosureIsLeast ==
    ASSUME NEW from \in SUBSET Blocks, NEW edge \in [Blocks -> SUBSET Blocks]
    PROVE  /\ IsClosed(ClosureOf(from, edge), from, edge)
           /\ ClosureOf(from, edge) \subseteq Blocks
           /\ \A S \in SUBSET Blocks :
                 IsClosed(S, from, edge) => ClosureOf(from, edge) \subseteq S
BY DEF IsClosed, ClosureOf

(* A closure depends on the edges of its own blocks only.                   *)
LEMMA ClosureAgrees ==
    ASSUME NEW from \in SUBSET Blocks,
           NEW e1 \in [Blocks -> SUBSET Blocks], NEW e2 \in [Blocks -> SUBSET Blocks],
           \A b \in ClosureOf(from, e1) : e1[b] = e2[b]
    PROVE  ClosureOf(from, e2) = ClosureOf(from, e1)
<1> DEFINE C == ClosureOf(from, e1)
           D == ClosureOf(from, e2)
<1>1. /\ IsClosed(C, from, e1) /\ C \in SUBSET Blocks
      /\ \A S \in SUBSET Blocks : IsClosed(S, from, e1) => C \subseteq S
  BY ClosureIsLeast
<1>2. /\ IsClosed(D, from, e2) /\ D \in SUBSET Blocks
      /\ \A S \in SUBSET Blocks : IsClosed(S, from, e2) => D \subseteq S
  BY ClosureIsLeast
<1>3. \A b \in C : e1[b] = e2[b] OBVIOUS
<1> HIDE DEF C, D
<1>4. IsClosed(C, from, e2) BY <1>1, <1>3 DEF IsClosed
<1>5. D \subseteq C BY <1>1, <1>2, <1>4
<1>6. IsClosed(D, from, e1) BY <1>2, <1>3, <1>5 DEF IsClosed
<1>7. C \subseteq D BY <1>1, <1>2, <1>6
<1> QED BY <1>5, <1>7 DEF C, D

(* The sweep's list of a set holds each of its blocks once.                 *)
LEMMA SweptExactly ==
    ASSUME NEW S \in SUBSET Small, NEW s \in InAddressOrder(S)
    PROVE  /\ s \in Seq(Small)
           /\ Range(s) = S
           /\ \A i, j \in 1..Len(s) : i # j => s[i] # s[j]
<1> DEFINE n == Cardinality(S)
<1>1. IsFiniteSet(S) BY BlocksFinite, FS_Subset
<1>2. n \in Nat BY <1>1, FS_CardinalityType
<1>3. s \in [1..n -> S] /\ \A i, j \in 1..n : i < j => s[i] < s[j]
  BY DEF InAddressOrder
<1>4. S \subseteq Nat BY SmallAssumption DEF Small
<1>5. IsFiniteSet(1..n) /\ Cardinality(1..n) = n
  BY <1>2, FS_Interval
<1> HIDE DEF n
<1>6. \A i, j \in 1..n : i # j => s[i] # s[j]
  <2> SUFFICES ASSUME NEW i \in 1..n, NEW j \in 1..n, i # j PROVE s[i] # s[j]
    OBVIOUS
  <2>1. s[i] \in Nat /\ s[j] \in Nat BY <1>3, <1>4
  <2>2. i < j \/ j < i BY <1>2
  <2> QED BY <2>1, <2>2, <1>3
<1>7. s \in Injection(1..n, S) BY <1>3, <1>6 DEF Injection, IsInjective
<1>8. s \in Surjection(1..n, S) BY <1>1, <1>5, <1>7, FS_Injection DEF n
<1>9. Range(s) = S BY <1>3, <1>8 DEF Surjection, Range
<1>10. s \in Seq(Small) /\ Len(s) = n
  <2>1. s \in [1..n -> Small] BY <1>3
  <2> QED BY <2>1, <1>2
<1> QED BY <1>6, <1>9, <1>10

-----------------------------------------------------------------------------
(* ---- balanced frames ----------------------------------------------------- *)

LEMMA FrameFields ==
    ASSUME NEW fs \in Seq(Frames), NEW i \in 1..Len(fs)
    PROVE  /\ fs[i] \in Frames
           /\ fs[i].kind \in {"native", "try"}
           /\ fs[i].staged \in SUBSET Blocks
           /\ fs[i].depth \in Nat
<1>1. fs[i] \in Frames OBVIOUS
<1> QED BY <1>1 DEF Frames

LEMMA NativesFinite ==
    ASSUME NEW fs, NEW n \in Int
    PROVE  IsFiniteSet(NativesIn(fs, n)) /\ Cardinality(NativesIn(fs, n)) \in Nat
<1>1. NativesIn(fs, n) \in SUBSET (1..n) BY DEF NativesIn
<1>2. IsFiniteSet(NativesIn(fs, n)) BY <1>1, FS_Interval, FS_Subset
<1> QED BY <1>2, FS_CardinalityType

(* Counting one frame more.                                                 *)
LEMMA NativesStep ==
    ASSUME NEW fs, NEW n \in Nat \ {0}
    PROVE  Cardinality(NativesIn(fs, n)) =
              Cardinality(NativesIn(fs, n - 1)) + (IF fs[n].kind = "native" THEN 1 ELSE 0)
<1>1. IsFiniteSet(NativesIn(fs, n - 1)) /\ Cardinality(NativesIn(fs, n - 1)) \in Nat
  BY NativesFinite
<1>2. n \notin NativesIn(fs, n - 1) BY DEF NativesIn
<1>3. 1..n = (1..(n - 1)) \cup {n} OBVIOUS
<1>4. NativesIn(fs, n) =
        NativesIn(fs, n - 1) \cup (IF fs[n].kind = "native" THEN {n} ELSE {})
  BY <1>3 DEF NativesIn
<1>5. CASE fs[n].kind = "native"
  <2>1. NativesIn(fs, n) = NativesIn(fs, n - 1) \cup {n} BY <1>4, <1>5
  <2> QED BY <2>1, <1>1, <1>2, <1>5, FS_AddElement
<1>6. CASE fs[n].kind # "native" BY <1>4, <1>6, <1>1
<1> QED BY <1>5, <1>6

(* Only the frames counted matter.                                          *)
LEMMA NativesSame ==
    ASSUME NEW fs, NEW gs, NEW n \in Int, \A j \in 1..n : fs[j].kind = gs[j].kind
    PROVE  NativesIn(gs, n) = NativesIn(fs, n)
BY DEF NativesIn

LEMMA BalancedPush ==
    ASSUME NEW fs \in Seq(Frames), NEW d \in Nat, Balanced(fs, d), NEW f \in Frames,
           f.kind = "try" => f.depth = d /\ f.staged = {}
    PROVE  Balanced(Append(fs, f), IF f.kind = "native" THEN d + 1 ELSE d)
<1> DEFINE gs == Append(fs, f)
           n == Len(fs)
<1>1. n \in Nat /\ Len(gs) = n + 1 /\ gs[n + 1] = f /\ \A i \in 1..n : gs[i] = fs[i]
  OBVIOUS
<1> HIDE DEF gs, n
<1>2. \A i \in 0..n : NativesIn(gs, i) = NativesIn(fs, i)
  BY <1>1, NativesSame
<1>3. Cardinality(NativesIn(gs, n)) = d BY <1>1, <1>2 DEF Balanced, n
<1>4. Cardinality(NativesIn(gs, n + 1)) = d + (IF f.kind = "native" THEN 1 ELSE 0)
  <2>1. n + 1 \in Nat \ {0} /\ (n + 1) - 1 = n BY <1>1
  <2> QED BY <2>1, <1>1, <1>3, NativesStep
<1>5. ASSUME NEW i \in 1..(n + 1), gs[i].kind = "try"
      PROVE  gs[i].depth = Cardinality(NativesIn(gs, i - 1)) /\ gs[i].staged = {}
  <2>1. CASE i = n + 1
    <3>1. i - 1 = n BY <2>1, <1>1
    <3> QED BY <3>1, <2>1, <1>1, <1>3, <1>5
  <2>2. CASE i \in 1..n
    <3>1. i - 1 \in 0..n BY <2>2, <1>1
    <3>2. NativesIn(gs, i - 1) = NativesIn(fs, i - 1) BY <3>1, <1>2
    <3> QED BY <3>2, <2>2, <1>1, <1>5 DEF Balanced, n
  <2> QED BY <2>1, <2>2, <1>1
<1>6. Len(gs) = n + 1 /\ (IF f.kind = "native" THEN d + 1 ELSE d)
                          = Cardinality(NativesIn(gs, Len(gs)))
  BY <1>1, <1>4
<1> QED BY <1>5, <1>6 DEF Balanced, gs

(* Cutting the frames back leaves them balanced at the depth of the cut.    *)
LEMMA BalancedCut ==
    ASSUME NEW fs \in Seq(Frames), NEW d \in Nat, Balanced(fs, d), NEW k \in 0..Len(fs)
    PROVE  /\ SubSeq(fs, 1, k) \in Seq(Frames)
           /\ Balanced(SubSeq(fs, 1, k), Cardinality(NativesIn(fs, k)))
<1> DEFINE gs == SubSeq(fs, 1, k)
<1>1. gs \in Seq(Frames) /\ Len(gs) = k /\ \A i \in 1..k : gs[i] = fs[i] OBVIOUS
<1> HIDE DEF gs
<1>2. \A i \in 0..k : NativesIn(gs, i) = NativesIn(fs, i)
  BY <1>1, NativesSame
<1>3. \A i \in 1..k : i - 1 \in 0..k /\ i \in 1..Len(fs) OBVIOUS
<1>4. k \in 0..k OBVIOUS
<1> QED BY <1>1, <1>2, <1>3, <1>4 DEF Balanced, gs

(* Leaving the innermost frame.                                             *)
LEMMA BalancedPop ==
    ASSUME NEW fs \in Seq(Frames), NEW d \in Nat, Balanced(fs, d), fs # <<>>
    PROVE  LET gs == SubSeq(fs, 1, Len(fs) - 1)
               f == fs[Len(fs)]
           IN  /\ gs \in Seq(Frames)
               /\ f.kind = "native" => d - 1 \in Nat /\ Balanced(gs, d - 1)
               /\ f.kind = "try" => Balanced(gs, d)
<1> DEFINE n == Len(fs)
<1>1. n \in Nat \ {0} /\ n - 1 \in 0..Len(fs) OBVIOUS
<1>2. d = Cardinality(NativesIn(fs, n)) BY DEF Balanced
<1>3. Cardinality(NativesIn(fs, n - 1)) \in Nat BY <1>1, NativesFinite
<1>4. d = Cardinality(NativesIn(fs, n - 1)) + (IF fs[n].kind = "native" THEN 1 ELSE 0)
  BY <1>1, <1>2, NativesStep
<1>5. /\ SubSeq(fs, 1, n - 1) \in Seq(Frames)
      /\ Balanced(SubSeq(fs, 1, n - 1), Cardinality(NativesIn(fs, n - 1)))
  BY <1>1, BalancedCut
<1>6. CASE fs[n].kind = "native"
  <2>1. d - 1 = Cardinality(NativesIn(fs, n - 1)) BY <1>3, <1>4, <1>6
  <2> QED BY <2>1, <1>3, <1>5, <1>6
<1>7. CASE fs[n].kind = "try" BY <1>3, <1>4, <1>5, <1>7
<1>8. fs[n].kind \in {"native", "try"}
  <2>1. n \in 1..Len(fs) BY <1>1
  <2> QED BY <2>1, FrameFields
<1> QED BY <1>5, <1>6, <1>7, <1>8

(* Rewriting what the innermost native holds changes no depth.              *)
LEMMA BalancedRestage ==
    ASSUME NEW fs \in Seq(Frames), NEW d \in Nat, Balanced(fs, d), fs # <<>>,
           NEW c \in Blocks, fs[Len(fs)].kind = "native"
    PROVE  LET gs == [fs EXCEPT ![Len(fs)].staged = @ \cup {c}]
           IN  gs \in Seq(Frames) /\ Balanced(gs, d)
<1> DEFINE n == Len(fs)
           top == [fs[n] EXCEPT !.staged = @ \cup {c}]
           gs == [fs EXCEPT ![n] = top]
<1>1. n \in Nat \ {0} /\ n \in 1..n OBVIOUS
<1>2. fs[n] \in Frames BY <1>1
<1>3. top \in Frames /\ top.kind = "native" BY <1>2 DEF Frames
<1> HIDE DEF top
<1>4. gs \in Seq(Frames) /\ Len(gs) = n BY <1>1, <1>3
<1>5. gs[n] = top /\ \A i \in 1..n : i # n => gs[i] = fs[i] BY <1>1
<1>6. \A i \in 0..n : NativesIn(gs, i) = NativesIn(fs, i)
  <2>1. \A i \in 1..n : gs[i].kind = fs[i].kind BY <1>3, <1>5
  <2> QED BY <2>1 DEF NativesIn
<1>7. Balanced(gs, d)
  <2>1. n \in 0..n /\ \A i \in 1..n : i - 1 \in 0..n BY <1>1
  <2>2. d = Cardinality(NativesIn(gs, Len(gs))) BY <2>1, <1>4, <1>6 DEF Balanced
  <2>3. ASSUME NEW i \in 1..n, gs[i].kind = "try"
        PROVE  gs[i].depth = Cardinality(NativesIn(gs, i - 1)) /\ gs[i].staged = {}
    <3>1. i # n BY <2>3, <1>3, <1>5
    <3>2. gs[i] = fs[i] BY <3>1, <1>5
    <3> QED BY <3>2, <2>1, <2>3, <1>6 DEF Balanced
  <2> QED BY <2>2, <2>3, <1>4 DEF Balanced
<1> QED BY <1>4, <1>7 DEF top

(* Outside every native nothing is staged.                                  *)
LEMMA NothingStaged ==
    ASSUME TypeOK, Balanced(frames, defer), defer = 0
    PROVE  staged = {}
<1>1. IsFiniteSet(NativesIn(frames, Len(frames)))
  <2>1. Len(frames) \in Int BY DEF TypeOK
  <2> QED BY <2>1, NativesFinite
<1>2. NativesIn(frames, Len(frames)) = {} BY <1>1, FS_EmptySet DEF Balanced
<1>3. \A i \in 1..Len(frames) : frames[i].kind \in {"native", "try"}
  BY FrameFields DEF TypeOK
<1>4. \A i \in 1..Len(frames) : frames[i].staged = {}
  BY <1>2, <1>3 DEF NativesIn, Balanced
<1> QED BY <1>4 DEF staged

LEMMA StagedType ==
    ASSUME TypeOK
    PROVE  staged \in SUBSET Blocks
BY FrameFields DEF TypeOK, staged

(* With no marks left over, the workers claim live blocks, and all that the *)
(* roots and the marker's edges lead to.                                    *)
LEMMA ClaimedType ==
    ASSUME TypeOK, marked = {}
    PROVE  Claimed \subseteq live /\ IsClosed(Claimed, roots \cap live, traceRefs)
<1>1. found = live BY DEF found
<1>2. traceRefs \in [Blocks -> SUBSET Blocks] /\ \A b \in Blocks : traceRefs[b] \subseteq live
  BY <1>1 DEF traceRefs, TypeOK
<1>3. roots \cap live \in SUBSET Blocks /\ live \in SUBSET Blocks BY DEF TypeOK
<1>4. IsClosed(live, roots \cap live, traceRefs) BY <1>2, <1>3 DEF IsClosed
<1> QED BY <1>1, <1>2, <1>3, <1>4, ClosureIsLeast DEF Claimed

-----------------------------------------------------------------------------
(* ---- allocation and collection keep the books ---------------------------- *)

(* The block that alloc_small hands out was dead, and is off the list.      *)
LEMMA AllocSmallStep ==
    ASSUME Books, NEW b \in Small, alloc_small(b), live' = live \cup {b}
    PROVE  /\ b \notin live
           /\ bumped' \in 0..MaxSmall /\ freeList' \in Seq(Small)
           /\ CarvedInv' /\ FreeListExact'
<1> USE DEF Books, BlockTypes
<1>1. CASE /\ freeList # <<>>
           /\ b = freeList[Len(freeList)]
           /\ freeList' = SubSeq(freeList, 1, Len(freeList) - 1)
           /\ UNCHANGED bumped
  <2> DEFINE n == Len(freeList)
  <2>1. n \in Nat \ {0} BY <1>1
  <2>2. /\ freeList' \in Seq(Small)
        /\ Range(freeList) = Range(freeList') \cup {b}
    BY <1>1, RangePop
  <2>3. Len(freeList') = n - 1 /\ \A i \in 1..(n - 1) : freeList'[i] = freeList[i]
    <3>1. ASSUME NEW k \in 0..Len(freeList)
          PROVE  LET s == SubSeq(freeList, 1, k)
                 IN  Len(s) = k /\ \A i \in 1..k : s[i] = freeList[i]
      OBVIOUS
    <3>2. n - 1 \in 0..Len(freeList) BY <2>1
    <3> QED BY <3>1, <3>2, <1>1
  <2>4. b \notin Range(freeList')
    <3>1. \A i \in 1..(n - 1) : freeList[i] # freeList[n]
      BY <2>1 DEF FreeListExact
    <3> QED BY <3>1, <2>3, <1>1 DEF Range
  <2>5. b \in (1..bumped) \ live BY <2>2 DEF FreeListExact
  <2>6. Range(freeList') = (1..bumped) \ (live \cup {b})
    BY <2>2, <2>4 DEF FreeListExact
  <2>7. \A i, j \in 1..Len(freeList') : i # j => freeList'[i] # freeList'[j]
    <3>1. \A i \in 1..(n - 1) : i \in 1..n BY <2>1
    <3>2. \A i, j \in 1..(n - 1) : i # j => freeList[i] # freeList[j]
      BY <3>1 DEF FreeListExact
    <3> HIDE DEF n
    <3> QED BY <2>3, <3>2
  <2> QED BY <1>1, <2>2, <2>5, <2>6, <2>7 DEF CarvedInv, FreeListExact
<1>2. CASE /\ freeList = <<>>
           /\ bumped < MaxSmall
           /\ b = bumped + 1
           /\ bumped' = bumped + 1
           /\ UNCHANGED freeList
  <2>1. bumped \in Nat /\ MaxSmall \in Nat BY SmallAssumption
  <2>2. b \notin live BY <2>1, <1>2 DEF CarvedInv
  <2>3. Range(freeList) = {} BY <1>2 DEF Range
  <2>4. 1..bumped \subseteq live BY <2>3 DEF FreeListExact
  <2>5. 1..(bumped + 1) = (1..bumped) \cup {b} BY <2>1, <1>2
  <2>6. (1..bumped') \ live' = {} BY <2>4, <2>5, <1>2
  <2>7. bumped' \in 0..MaxSmall BY <2>1, <1>2
  <2>8. CarvedInv' BY <2>5, <1>2 DEF CarvedInv
  <2>9. FreeListExact' BY <2>3, <2>6, <1>2 DEF FreeListExact
  <2> QED BY <2>2, <2>7, <2>8, <2>9, <1>2
<1> QED BY <1>1, <1>2 DEF alloc_small

LEMMA AllocStep ==
    ASSUME Books, NEW b \in Blocks, NEW t \in Types, NEW init \in SUBSET Blocks,
           alloc(b, t, init)
    PROVE  /\ b \notin live
           /\ Books'
           /\ since' # 0
<1> USE DEF Books, BlockTypes
<1>1. /\ live' = live \cup {b}
      /\ marked' = marked \ {b}
      /\ type' = [type EXCEPT ![b] = t]
      /\ refs' = [refs EXCEPT ![b] = init]
      /\ since' = since + Size(b)
      /\ pending' = (pending \/ since' > threshold)
      /\ threshold' = threshold
  BY DEF alloc, InitBlock
<1>2. /\ b \notin live
      /\ bumped' \in 0..MaxSmall /\ freeList' \in Seq(Small)
      /\ CarvedInv' /\ FreeListExact'
  <2>1. CASE b \in Small /\ alloc_small(b) BY <2>1, <1>1, AllocSmallStep
  <2>2. CASE alloc_large(b)
    <3>1. b \in Large \ live /\ bumped' = bumped /\ freeList' = freeList
      BY <2>2 DEF alloc_large
    <3>2. b \notin Small BY <3>1, SmallAssumption
    <3>3. live' \cap Small = live \cap Small BY <1>1, <3>2
    <3>4. CarvedInv' BY <3>1, <3>3 DEF CarvedInv
    <3>5. 1..bumped \subseteq Small BY SmallAssumption DEF Small
    <3>6. (1..bumped) \ live' = (1..bumped) \ live BY <1>1, <3>2, <3>5
    <3>7. FreeListExact' BY <3>1, <3>6 DEF FreeListExact
    <3> QED BY <3>1, <3>4, <3>7
  <2> QED BY <2>1, <2>2 DEF alloc
<1>3. live' \in SUBSET Blocks /\ marked' = {} BY <1>1
<1>4. type' \in [Blocks -> Types \cup {None}] BY <1>1
<1>5. refs' \in [Blocks -> SUBSET Blocks] BY <1>1
<1>6. since' \in Nat /\ since' # 0
  <2>1. Size(b) \in Nat \ {0} BY SizeType
  <2> QED BY <1>1, <2>1
<1>7. pending' \in BOOLEAN
  <2>1. CASE since' > threshold BY <2>1, <1>1
  <2>2. CASE ~(since' > threshold)
    <3>1. pending' = (pending \/ FALSE) BY <2>2, <1>1
    <3> QED BY <3>1
  <2> QED BY <2>1, <2>2
<1>8. DebtIsFlagged' BY <1>1 DEF DebtIsFlagged
<1> QED BY <1>1, <1>2, <1>3, <1>4, <1>5, <1>6, <1>7, <1>8

LEMMA CollectStep ==
    ASSUME Books, roots \in SUBSET Blocks, Claimed \subseteq live, collect
    PROVE  /\ Books'
           /\ live' = live \cap Claimed
           /\ type' = [b \in Blocks |-> IF b \in live \ Claimed THEN None ELSE type[b]]
           /\ refs' = [b \in Blocks |-> IF b \in live \ Claimed THEN {} ELSE refs[b]]
           /\ since' = 0 /\ pending' = FALSE
           /\ UNCHANGED <<bumped, defer, roots, frames>>
<1> USE DEF Books, BlockTypes
<1> DEFINE dead == live \ Claimed
<1>1. /\ live' = live \ dead
      /\ marked' = Claimed \ live
      /\ type' = [b \in Blocks |-> IF b \in dead THEN None ELSE type[b]]
      /\ refs' = [b \in Blocks |-> IF b \in dead THEN {} ELSE refs[b]]
      /\ \E swept \in InAddressOrder(dead \cap Small) : freeList' = freeList \o swept
      /\ since' = 0
      /\ threshold' = Larger(INITIAL_THRESHOLD, 2 * liveBytes(live \ dead))
      /\ pending' = FALSE
      /\ UNCHANGED <<bumped, defer, roots, frames>>
  <2>1. marked \cup Claimed = Claimed OBVIOUS
  <2> QED BY <2>1 DEF collect, Sweep
<1>2. dead \subseteq live OBVIOUS
<1>3. live \ dead = live \cap Claimed OBVIOUS
<1>4. threshold' \in Nat
  <2>1. liveBytes(live \ dead) \in Nat BY BytesType
  <2>2. 2 * liveBytes(live \ dead) \in Nat BY <2>1
  <2> HIDE DEF dead
  <2> QED BY <1>1, <2>2, SizesAssumption DEF Larger
<1>5. PICK swept \in InAddressOrder(dead \cap Small) : freeList' = freeList \o swept
  BY <1>1
<1>6. /\ swept \in Seq(Small)
      /\ Range(swept) = dead \cap Small
      /\ \A i, j \in 1..Len(swept) : i # j => swept[i] # swept[j]
  <2>1. dead \cap Small \in SUBSET Small OBVIOUS
  <2> HIDE DEF dead
  <2> QED BY <2>1, SweptExactly
<1> HIDE DEF dead
<1>7. /\ freeList' \in Seq(Small)
      /\ Range(freeList') = Range(freeList) \cup (dead \cap Small)
  BY <1>5, <1>6, RangeConcat
<1>8. Range(freeList') = (1..bumped) \ (live \ dead)
  <2>1. dead \cap Small \subseteq 1..bumped BY <1>2 DEF CarvedInv
  <2>2. 1..bumped \subseteq Small BY SmallAssumption DEF Small
  <2> QED BY <1>7, <2>1, <2>2, <1>2 DEF FreeListExact
<1>9. \A i, j \in 1..Len(freeList') : i # j => freeList'[i] # freeList'[j]
  <2> DEFINE n == Len(freeList)
             m == Len(swept)
  <2>1. n \in Nat /\ m \in Nat /\ Len(freeList') = n + m BY <1>5, <1>6
  <2>2. \A i \in 1..n : freeList'[i] = freeList[i] /\ freeList[i] \notin dead
    <3>1. \A i \in 1..n : freeList'[i] = freeList[i] BY <1>5, <1>6
    <3>2. \A i \in 1..n : freeList[i] \notin live BY InRange DEF FreeListExact
    <3> QED BY <3>1, <3>2, <1>2
  <2>3. \A i \in 1..m : freeList'[n + i] = swept[i] /\ swept[i] \in dead
    <3>1. \A i \in 1..m : freeList'[n + i] = swept[i] BY <1>5, <1>6
    <3>2. \A i \in 1..m : swept[i] \in dead BY <1>6, InRange
    <3> QED BY <3>1, <3>2
  <2> HIDE DEF n, m
  <2>4. ASSUME NEW i \in 1..(n + m), NEW j \in 1..(n + m), i < j
        PROVE  freeList'[i] # freeList'[j]
    <3>1. CASE j \leq n
      <4>1. i \in 1..n /\ j \in 1..n /\ i # j BY <3>1, <2>1, <2>4
      <4> QED BY <4>1, <2>2 DEF FreeListExact, n
    <3>2. CASE i > n
      <4>1. PICK k \in 1..m : i = n + k
        <5>1. i - n \in 1..m /\ i = n + (i - n) BY <3>2, <2>1
        <5> QED BY <5>1
      <4>2. PICK l \in 1..m : j = n + l
        <5>1. j - n \in 1..m /\ j = n + (j - n) BY <3>2, <2>1, <2>4
        <5> QED BY <5>1
      <4>3. k # l BY <4>1, <4>2, <2>4
      <4> QED BY <4>1, <4>2, <4>3, <2>3, <1>6 DEF m
    <3>3. CASE i \leq n /\ j > n
      <4>1. i \in 1..n BY <3>3, <2>1
      <4>2. PICK l \in 1..m : j = n + l
        <5>1. j - n \in 1..m /\ j = n + (j - n) BY <3>3, <2>1
        <5> QED BY <5>1
      <4> QED BY <4>1, <4>2, <2>2, <2>3
    <3> QED BY <3>1, <3>2, <3>3, <2>1
  <2>5. \A i, j \in 1..(n + m) : i # j => i < j \/ j < i BY <2>1
  <2> QED BY <2>1, <2>4, <2>5
<1>10. CarvedInv' BY <1>1, <1>2 DEF CarvedInv
<1>11. FreeListExact' BY <1>1, <1>8, <1>9 DEF FreeListExact
<1>12. DebtIsFlagged'
  <2>1. ~(since' > threshold') BY <1>1, <1>4
  <2> QED BY <2>1 DEF DebtIsFlagged
<1>13. live' \in SUBSET Blocks /\ marked' = {} BY <1>1
<1>14. type' \in [Blocks -> Types \cup {None}] BY <1>1
<1>15. refs' \in [Blocks -> SUBSET Blocks] BY <1>1
<1>16. Books' BY <1>1, <1>4, <1>7, <1>10, <1>11, <1>12, <1>13, <1>14, <1>15
<1> QED BY <1>1, <1>3, <1>16 DEF dead

-----------------------------------------------------------------------------
(* ---- the books and the depths are an inductive invariant ----------------- *)

LEMMA InvImplies == IInv => TypeOK /\ FreeListExact /\ DeferIsNativeDepth /\ DebtIsFlagged
BY DEF IInv, Books, BlockTypes, FrameInv, TypeOK, DeferIsNativeDepth, Balanced, NativesIn

LEMMA InitInv == Init => IInv
<1> SUFFICES ASSUME Init PROVE IInv
  OBVIOUS
<1> USE DEF Init
<1>1. BlockTypes
  <2>1. bumped \in 0..MaxSmall /\ freeList \in Seq(Small) BY SmallAssumption
  <2>2. type \in [Blocks -> Types \cup {None}] OBVIOUS
  <2>3. refs \in [Blocks -> SUBSET Blocks]
    <3>1. {} \in SUBSET Blocks OBVIOUS
    <3> QED BY <3>1
  <2>4. since \in Nat /\ threshold \in Nat /\ pending \in BOOLEAN /\ live \in SUBSET Blocks
    BY SizesAssumption
  <2> QED BY <2>1, <2>2, <2>3, <2>4 DEF BlockTypes
<1>2. CarvedInv BY DEF CarvedInv
<1>3. FreeListExact BY DEF FreeListExact, Range
<1>4. DebtIsFlagged BY SizesAssumption DEF DebtIsFlagged
<1>5. FrameInv
  <2>1. NativesIn(frames, Len(frames)) = {} BY DEF NativesIn
  <2>2. Balanced(frames, defer) BY <2>1, FS_EmptySet DEF Balanced
  <2> QED BY <2>2 DEF FrameInv
<1> QED BY <1>1, <1>2, <1>3, <1>4, <1>5 DEF IInv, Books

(* Steps that touch neither the free list nor the debt keep the books.      *)
LEMMA BooksUnchanged ==
    ASSUME Books, UNCHANGED <<live, marked, bumped, freeList, since, threshold, pending>>,
           type' = type, refs' \in [Blocks -> SUBSET Blocks]
    PROVE  Books'
BY DEF Books, BlockTypes, CarvedInv, FreeListExact, DebtIsFlagged

LEMMA StoreInv ==
    ASSUME IInv, NEW a \in roots, NEW c \in roots, NEW old \in SUBSET refs[a],
           Store(a, c, old)
    PROVE  IInv'
<1>1. a \in Blocks /\ c \in Blocks BY DEF IInv, FrameInv
<1>2. refs' \in [Blocks -> SUBSET Blocks]
  BY <1>1 DEF IInv, Books, BlockTypes, Store
<1>3. Books' BY <1>2, BooksUnchanged DEF IInv, Store, debtVars
<1>4. FrameInv' BY DEF IInv, FrameInv, Store
<1> QED BY <1>3, <1>4 DEF IInv

(* Entering a native or a try statement.                                    *)
LEMMA PushInv ==
    ASSUME IInv, NEW f \in Frames, Push(f), f.kind = "try" => f.depth = defer /\ f.staged = {},
           defer' = IF f.kind = "native" THEN defer + 1 ELSE defer,
           UNCHANGED <<blockVars, debtVars, roots>>
    PROVE  IInv'
<1>1. Books' BY BooksUnchanged DEF IInv, Books, BlockTypes, blockVars, debtVars
<1>2. frames' = Append(frames, f) BY DEF Push
<1>3. Balanced(frames', defer') BY <1>2, BalancedPush DEF IInv, FrameInv
<1>4. frames' \in Seq(Frames) /\ defer' \in Nat /\ roots' = roots
  BY <1>2 DEF IInv, FrameInv
<1> QED BY <1>1, <1>3, <1>4 DEF IInv, FrameInv

(* Leaving one, on the normal path.                                         *)
LEMMA PopFrames ==
    ASSUME FrameInv, frames # <<>>, frames' = Popped, roots' \in SUBSET Blocks,
           defer' = IF Top.kind = "native" THEN defer - 1 ELSE defer
    PROVE  FrameInv'
<1>1. Top.kind \in {"native", "try"}
  <2>1. Len(frames) \in 1..Len(frames) BY DEF FrameInv
  <2> QED BY <2>1, FrameFields DEF FrameInv, Top
<1>2. /\ Popped \in Seq(Frames)
      /\ Top.kind = "native" => defer - 1 \in Nat /\ Balanced(Popped, defer - 1)
      /\ Top.kind = "try" => Balanced(Popped, defer)
  BY BalancedPop DEF FrameInv, Top, Popped
<1> QED BY <1>1, <1>2 DEF FrameInv

LEMMA ThrowInv ==
    ASSUME IInv, NEW i \in Handlers, throw(i)
    PROVE  IInv'
<1>1. Books' BY BooksUnchanged DEF IInv, Books, BlockTypes, throw, blockVars, debtVars
<1>2. i \in 1..Len(frames) /\ frames[i].kind = "try" BY DEF Handlers
<1>3. i - 1 \in 0..Len(frames) BY <1>2 DEF IInv, FrameInv
<1>4. /\ frames' = SubSeq(frames, 1, i - 1)
      /\ defer' = Cardinality(NativesIn(frames, i - 1))
      /\ roots' = roots
  BY <1>2 DEF throw, IInv, FrameInv, Balanced
<1>5. frames' \in Seq(Frames) /\ Balanced(frames', defer')
  BY <1>3, <1>4, BalancedCut DEF IInv, FrameInv
<1>6. defer' \in Nat BY <1>3, <1>4, NativesFinite
<1> QED BY <1>1, <1>4, <1>5, <1>6 DEF IInv, FrameInv

LEMMA StageInv ==
    ASSUME IInv, NEW c \in roots, StageResult(c)
    PROVE  IInv'
<1>1. Books' BY BooksUnchanged DEF IInv, Books, BlockTypes, StageResult, blockVars, debtVars
<1>2. c \in Blocks BY DEF IInv, FrameInv
<1>3. /\ frames # <<>> /\ frames[Len(frames)].kind = "native"
      /\ frames' = [frames EXCEPT ![Len(frames)].staged = @ \cup {c}]
      /\ defer' = defer /\ roots' = roots
  BY DEF StageResult, Top
<1>4. frames' \in Seq(Frames) /\ Balanced(frames', defer)
  BY <1>2, <1>3, BalancedRestage DEF IInv, FrameInv
<1> QED BY <1>1, <1>3, <1>4 DEF IInv, FrameInv

LEMMA ReturnArrayInv ==
    ASSUME IInv, NEW b \in Blocks, ReturnArray(b)
    PROVE  IInv'
<1>1. frames # <<>> /\ Top.kind = "native" BY DEF ReturnArray
<1>2. Top.staged \in SUBSET Blocks
  <2>1. Len(frames) \in 1..Len(frames) BY <1>1 DEF IInv, FrameInv
  <2> QED BY <2>1, FrameFields DEF IInv, FrameInv, Top
<1>3. alloc(b, "Array", Top.staged) BY DEF ReturnArray
<1>4. Books' BY <1>2, <1>3, AllocStep, TypesAssumption DEF IInv
<1>5. FrameInv'
  <2>1. /\ frames' = Popped /\ defer' = defer - 1 /\ roots' = roots \cup {b}
    BY DEF ReturnArray
  <2>2. roots' \in SUBSET Blocks BY <2>1 DEF IInv, FrameInv
  <2> QED BY <1>1, <2>1, <2>2, PopFrames DEF IInv
<1> QED BY <1>4, <1>5 DEF IInv

LEMMA CollectInv ==
    ASSUME IInv, collect
    PROVE  IInv'
<1>1. Claimed \subseteq live BY InvImplies, ClaimedType DEF IInv, Books, BlockTypes
<1>2. Books' /\ UNCHANGED <<defer, roots, frames>>
  BY <1>1, CollectStep DEF IInv, FrameInv
<1> QED BY <1>2 DEF IInv, FrameInv

LEMMA NewInv ==
    ASSUME IInv, NEW b \in Blocks, NEW t \in Types, NEW init \in SUBSET roots,
           New(b, t, init)
    PROVE  IInv'
<1>1. init \in SUBSET Blocks /\ alloc(b, t, init) BY DEF IInv, FrameInv, New
<1>2. Books' BY <1>1, AllocStep DEF IInv
<1>3. roots' = roots \cup {b} /\ UNCHANGED <<defer, frames>> BY DEF New
<1>4. FrameInv' BY <1>3 DEF IInv, FrameInv
<1> QED BY <1>2, <1>4 DEF IInv

LEMMA EnterInv ==
    ASSUME IInv, NEW a \in roots, EnterNative(a)
    PROVE  IInv'
<1> DEFINE f == [kind |-> "native", staged |-> refs[a], depth |-> 0]
<1>1. f \in Frames BY DEF IInv, Books, BlockTypes, FrameInv, Frames
<1>2. f.kind = "native" OBVIOUS
<1>3. Push(f) /\ defer' = defer + 1 /\ UNCHANGED <<blockVars, debtVars, roots>>
  BY DEF EnterNative
<1> HIDE DEF f
<1> QED BY <1>1, <1>2, <1>3, PushInv

LEMMA TryInv ==
    ASSUME IInv, push_handler
    PROVE  IInv'
<1> DEFINE f == [kind |-> "try", staged |-> {}, depth |-> defer]
<1>1. f \in Frames BY DEF IInv, FrameInv, Frames
<1>2. f.kind = "try" /\ f.depth = defer /\ f.staged = {} OBVIOUS
<1>3. Push(f) /\ defer' = defer /\ UNCHANGED <<blockVars, debtVars, roots>>
  BY DEF push_handler
<1> HIDE DEF f
<1> QED BY <1>1, <1>2, <1>3, PushInv

LEMMA LeaveInv ==
    ASSUME IInv, ReturnValue \/ pop_handler
    PROVE  IInv'
<1>1. UNCHANGED <<blockVars, debtVars, roots>> BY DEF ReturnValue, pop_handler
<1>2. Books' BY <1>1, BooksUnchanged DEF IInv, Books, BlockTypes, blockVars, debtVars
<1>3. /\ frames # <<>> /\ frames' = Popped
      /\ defer' = IF Top.kind = "native" THEN defer - 1 ELSE defer
  BY DEF ReturnValue, pop_handler
<1>4. roots' \in SUBSET Blocks BY <1>1 DEF IInv, FrameInv
<1>5. FrameInv' BY <1>3, <1>4, PopFrames DEF IInv
<1> QED BY <1>2, <1>5 DEF IInv

(* Loads, arguments and dead slots only change what the program holds.      *)
LEMMA RootsInv ==
    ASSUME IInv, roots' \in SUBSET Blocks, UNCHANGED <<blockVars, debtVars, defer, frames>>
    PROVE  IInv'
<1>1. Books' BY BooksUnchanged DEF IInv, Books, BlockTypes, blockVars, debtVars
<1>2. FrameInv' BY DEF IInv, FrameInv
<1> QED BY <1>1, <1>2 DEF IInv

LEMMA NextInv == IInv /\ [Next]_vars => IInv'
<1> SUFFICES ASSUME IInv, [Next]_vars PROVE IInv'
  OBVIOUS
<1>1. ASSUME NEW b \in Blocks, NEW t \in Types, NEW init \in {{}} \cup {{c} : c \in roots},
             New(b, t, init)
      PROVE  IInv'
  <2>1. init \in SUBSET roots OBVIOUS
  <2> QED BY <1>1, <2>1, NewInv
<1>2. ASSUME NEW a \in roots, NEW c \in roots, NEW old \in SUBSET refs[a], Store(a, c, old)
      PROVE  IInv'
  BY <1>2, StoreInv
<1>3. ASSUME NEW a \in roots, NEW c \in refs[a], Load(a, c) PROVE IInv'
  BY <1>3, RootsInv DEF Load, IInv, FrameInv, Books, BlockTypes
<1>4. ASSUME NEW b \in roots, Forget(b) PROVE IInv'
  BY <1>4, RootsInv DEF Forget, IInv, FrameInv
<1>5. ASSUME NEW a \in roots, EnterNative(a) PROVE IInv'
  BY <1>5, EnterInv
<1>6. ASSUME NEW c \in staged, PassElement(c) PROVE IInv'
  <2>1. c \in Blocks BY InvImplies, StagedType
  <2> QED BY <1>6, <2>1, RootsInv DEF PassElement, IInv, FrameInv
<1>7. ASSUME NEW c \in roots, StageResult(c) PROVE IInv'
  BY <1>7, StageInv
<1>8. ASSUME NEW b \in Blocks, ReturnArray(b) PROVE IInv'
  BY <1>8, ReturnArrayInv
<1>9. ASSUME ReturnValue \/ pop_handler PROVE IInv'
  BY <1>9, LeaveInv
<1>10. ASSUME push_handler PROVE IInv'
  BY <1>10, TryInv
<1>11. ASSUME NEW i \in Handlers, throw(i) PROVE IInv'
  BY <1>11, ThrowInv
<1>12. ASSUME safepoint \/ SystemGc PROVE IInv'
  BY <1>12, CollectInv DEF safepoint, SystemGc
<1>13. ASSUME UNCHANGED vars PROVE IInv'
  <2>1. UNCHANGED <<blockVars, debtVars, defer, frames>> /\ roots' = roots
    BY <1>13 DEF vars, blockVars, debtVars
  <2> QED BY <2>1, RootsInv DEF IInv, FrameInv
<1> QED
  BY <1>1, <1>2, <1>3, <1>4, <1>5, <1>6, <1>7, <1>8, <1>9, <1>10, <1>11, <1>12, <1>13
     DEF Next

-----------------------------------------------------------------------------
(* ---- the promise of the collector, under the discipline ------------------ *)

(* What can hold a reference is laid out as words or as boxed values.       *)
LEMMA KindAgain ==
    ASSUME NEW t, NEW c, CanHold(t, c)
    PROVE  /\ KindOf(t) \in {"Raw", "Array"}
           /\ KindOf(t) = "Array" => type[c] \in Boxable
<1>1. CASE t = "RegExp"
  <2>1. KindOf(t) = "Raw" BY <1>1 DEF KindOf
  <2> QED BY <2>1
<1>2. CASE t # "RegExp"
  <2>1. CASE KindOf(t) = "Raw" BY <2>1
  <2>2. CASE KindOf(t) = "Array" BY <1>2, <2>2 DEF CanHold
  <2>3. CASE KindOf(t) = "Leaf"
    <3>1. ~CanHold(t, c) BY <1>2, <2>3 DEF CanHold
    <3> QED BY <3>1
  <2> QED BY <2>1, <2>2, <2>3, Kinds
<1> QED BY <1>1, <1>2

LEMMA LiveAlloc ==
    ASSUME IInv, LiveInv, NEW b \in Blocks, NEW t \in Types, NEW init \in SUBSET live,
           \A c \in init : CanHold(t, c), alloc(b, t, init)
    PROVE  /\ live' = live \cup {b}
           /\ \A c \in live : type'[c] = type[c]
           /\ \A a \in live' : WellFormed(a)'
<1> USE DEF IInv, Books, BlockTypes
<1>1. init \in SUBSET Blocks OBVIOUS
<1>2. b \notin live BY <1>1, AllocStep
<1>3. /\ live' = live \cup {b}
      /\ type' = [type EXCEPT ![b] = t]
      /\ refs' = [refs EXCEPT ![b] = init]
  BY DEF alloc, InitBlock
<1>4. \A c \in live : type'[c] = type[c] /\ refs'[c] = refs[c] BY <1>2, <1>3
<1>5. type'[b] = t /\ refs'[b] = init BY <1>3
<1>6. ASSUME NEW a \in live PROVE WellFormed(a)'
  <2>1. WellFormed(a) BY DEF LiveInv
  <2> QED BY <2>1, <1>3, <1>4 DEF WellFormed
<1>7. WellFormed(b)'
  <2>1. KindOf(t) = "Array" => \A c \in init : type'[c] \in Boxable
    BY <1>4, KindAgain
  <2>2. KindOf(t) = "Leaf" => init = {}
    <3>1. \A c \in init : KindOf(t) \in {"Raw", "Array"} BY KindAgain
    <3> QED BY <3>1
  <2> QED BY <2>1, <2>2, <1>3, <1>5 DEF WellFormed
<1> QED BY <1>3, <1>4, <1>6, <1>7

(* Steps that change no block: what is held must stay within what was.      *)
LEMMA LiveHeld ==
    ASSUME LiveInv, UNCHANGED <<live, type, refs>>, roots' \subseteq live,
           \A i \in 1..Len(frames') : \A c \in frames'[i].staged :
              c \in live /\ type[c] \in Boxable
    PROVE  LiveInv'
BY DEF LiveInv, WellFormed

(* Frames that are kept keep what they hold.                                *)
LEMMA LiveCut ==
    ASSUME LiveInv, NEW k \in 0..Len(frames), frames \in Seq(Frames)
    PROVE  LET gs == SubSeq(frames, 1, k)
           IN  \A i \in 1..Len(gs) : \A c \in gs[i].staged :
                  c \in live /\ type[c] \in Boxable
<1> DEFINE gs == SubSeq(frames, 1, k)
<1>1. Len(gs) = k /\ \A i \in 1..k : gs[i] = frames[i] /\ i \in 1..Len(frames)
  OBVIOUS
<1> HIDE DEF gs
<1>2. \A i \in 1..Len(gs) : \A c \in gs[i].staged : c \in live /\ type[c] \in Boxable
  BY <1>1 DEF LiveInv
<1> QED BY <1>2 DEF gs

LEMMA LivePush ==
    ASSUME LiveInv, frames \in Seq(Frames), NEW f \in Frames, Push(f),
           UNCHANGED <<live, type, refs, roots>>,
           \A c \in f.staged : c \in live /\ type[c] \in Boxable
    PROVE  LiveInv'
<1>1. frames' = Append(frames, f) BY DEF Push
<1>2. /\ Len(frames') = Len(frames) + 1
      /\ \A i \in 1..Len(frames) : frames'[i] = frames[i]
      /\ frames'[Len(frames) + 1] = f
  BY <1>1
<1>3. \A i \in 1..(Len(frames) + 1) : i \in 1..Len(frames) \/ i = Len(frames) + 1
  OBVIOUS
<1>4. \A i \in 1..Len(frames') : \A c \in frames'[i].staged :
         c \in live /\ type[c] \in Boxable
  BY <1>2, <1>3 DEF LiveInv
<1> QED BY <1>4, LiveHeld DEF LiveInv

(* The marker follows every reference, so the marked blocks are closed.     *)
LEMMA TracesAll ==
    ASSUME IInv, LiveInv, Discipline
    PROVE  \A b \in live : traceRefs[b] = refs[b]
<1> SUFFICES ASSUME NEW b \in live PROVE traceRefs[b] = refs[b]
  OBVIOUS
<1> USE DEF IInv, Books, BlockTypes
<1>1. WellFormed(b) /\ b \in Blocks BY DEF LiveInv
<1>2. type[b] # None BY <1>1, TypesAssumption DEF WellFormed
<1>0. found = live BY DEF found
<1>3. refs[b] \subseteq live BY <1>1 DEF WellFormed
<1>4. CASE KindOf(type[b]) = "Raw" BY <1>0, <1>1, <1>2, <1>3, <1>4 DEF traceRefs
<1>5. CASE KindOf(type[b]) = "Array"
  <2>1. {c \in refs[b] : type[c] \in TracedTags} = refs[b]
    BY <1>1, <1>5 DEF WellFormed, Discipline
  <2>2. traceRefs[b] = live \cap {c \in refs[b] : type[c] \in TracedTags}
    BY <1>0, <1>1, <1>2, <1>5 DEF traceRefs
  <2> QED BY <1>3, <2>1, <2>2
<1>6. CASE KindOf(type[b]) = "Leaf"
  <2>1. traceRefs[b] = {} BY <1>1, <1>2, <1>6 DEF traceRefs
  <2> QED BY <2>1, <1>1, <1>6 DEF WellFormed
<1> QED BY <1>4, <1>5, <1>6, Kinds

(* A collection marks exactly what the program can reach.                   *)
LEMMA ClaimedIsReach ==
    ASSUME IInv, LiveInv, Discipline, defer = 0
    PROVE  /\ Claimed = ProgramReach
           /\ Claimed \subseteq live
           /\ roots \subseteq Claimed
           /\ \A b \in Claimed : refs[b] \subseteq Claimed
<1> USE DEF IInv, Books, BlockTypes, FrameInv
<1>1. TypeOK BY InvImplies
<1>2. Claimed \subseteq live /\ IsClosed(Claimed, roots \cap live, traceRefs)
  BY <1>1, ClaimedType
<1>3. \A b \in Claimed : traceRefs[b] = refs[b] BY <1>2, TracesAll
<1>4. roots \cap live = roots /\ found = live BY DEF LiveInv, found
<1>5. staged = {} BY <1>1, NothingStaged
<1>6. traceRefs \in [Blocks -> SUBSET Blocks] BY DEF traceRefs
<1>7. ClosureOf(roots, refs) = ClosureOf(roots, traceRefs)
  <2>1. Claimed = ClosureOf(roots, traceRefs) BY <1>4 DEF Claimed
  <2> QED BY <2>1, <1>3, <1>6, ClosureAgrees
<1>8. Claimed = ProgramReach
  <2>1. roots \cup staged = roots BY <1>5
  <2> QED BY <2>1, <1>4, <1>7 DEF Claimed, ProgramReach
<1> QED BY <1>2, <1>3, <1>4, <1>8 DEF IsClosed

LEMMA LiveCollect ==
    ASSUME IInv, LiveInv, Discipline, defer = 0, collect
    PROVE  /\ LiveInv'
           /\ live' = Claimed
           /\ \A b \in Claimed : type'[b] = type[b] /\ refs'[b] = refs[b]
<1> USE DEF IInv, Books, BlockTypes, FrameInv
<1>1. /\ live' = live \cap Claimed
      /\ type' = [b \in Blocks |-> IF b \in live \ Claimed THEN None ELSE type[b]]
      /\ refs' = [b \in Blocks |-> IF b \in live \ Claimed THEN {} ELSE refs[b]]
      /\ UNCHANGED <<bumped, defer, roots, frames>>
  BY ClaimedIsReach, CollectStep
<1>2. /\ Claimed \subseteq live /\ roots \subseteq Claimed
      /\ \A b \in Claimed : refs[b] \subseteq Claimed
  BY ClaimedIsReach
<1>3. live' = Claimed BY <1>1, <1>2
<1>4. \A b \in Claimed : type'[b] = type[b] /\ refs'[b] = refs[b] BY <1>1, <1>2
<1>5. \A i \in 1..Len(frames) : frames[i].staged = {}
  <2>1. staged = {} BY InvImplies, NothingStaged
  <2> QED BY <2>1 DEF staged
<1>6. ASSUME NEW b \in Claimed PROVE WellFormed(b)'
  <2>1. WellFormed(b) BY <1>2 DEF LiveInv
  <2>2. \A c \in refs[b] : type'[c] = type[c] BY <1>2, <1>4
  <2> QED BY <2>1, <2>2, <1>2, <1>3, <1>4 DEF WellFormed
<1>7. LiveInv' BY <1>1, <1>2, <1>3, <1>5, <1>6 DEF LiveInv
<1> QED BY <1>3, <1>4, <1>7

LEMMA InitLive == Init => LiveInv
BY DEF Init, LiveInv

LEMMA StoreLive ==
    ASSUME IInv, LiveInv, NEW a \in roots, NEW c \in roots, NEW old \in SUBSET refs[a],
           Store(a, c, old)
    PROVE  LiveInv'
<1> USE DEF IInv, Books, BlockTypes, FrameInv
<1>1. a \in live /\ c \in live BY DEF LiveInv
<1>2. CanHold(type[a], c) BY DEF Store
<1>3. /\ refs' = [refs EXCEPT ![a] = (refs[a] \ old) \cup {c}]
      /\ UNCHANGED <<live, type, roots, frames>>
  BY DEF Store, debtVars
<1>4. ASSUME NEW b \in live PROVE WellFormed(b)'
  <2>1. WellFormed(b) BY DEF LiveInv
  <2>2. CASE b # a
    <3>1. refs'[b] = refs[b] BY <1>3, <2>2
    <3> QED BY <3>1, <2>1, <1>3 DEF WellFormed
  <2>3. CASE b = a
    <3>1. refs'[b] = (refs[b] \ old) \cup {c} BY <1>1, <1>3, <2>3
    <3>2. KindOf(type[b]) # "Leaf" BY <1>2, <2>3, KindAgain
    <3>3. KindOf(type[b]) = "Array" => type[c] \in Boxable BY <1>2, <2>3, KindAgain
    <3> QED BY <3>1, <3>2, <3>3, <2>1, <1>1, <1>3 DEF WellFormed
  <2> QED BY <2>2, <2>3
<1> QED BY <1>3, <1>4 DEF LiveInv

LEMMA NewLive ==
    ASSUME IInv, LiveInv, NEW b \in Blocks, NEW t \in Types, NEW init \in SUBSET roots,
           New(b, t, init)
    PROVE  LiveInv'
<1>1. /\ \A c \in init : CanHold(t, c)
      /\ alloc(b, t, init)
      /\ roots' = roots \cup {b}
      /\ frames' = frames
  BY DEF New
<1>2. init \in SUBSET live BY DEF LiveInv
<1>3. /\ live' = live \cup {b}
      /\ \A c \in live : type'[c] = type[c]
      /\ \A a \in live' : WellFormed(a)'
  BY <1>1, <1>2, LiveAlloc
<1> QED BY <1>1, <1>3 DEF LiveInv

LEMMA ReturnArrayLive ==
    ASSUME IInv, LiveInv, NEW b \in Blocks, ReturnArray(b)
    PROVE  LiveInv'
<1>1. /\ frames # <<>>
      /\ alloc(b, "Array", Top.staged)
      /\ roots' = roots \cup {b}
      /\ frames' = Popped
  BY DEF ReturnArray
<1>2. frames \in Seq(Frames) BY DEF IInv, FrameInv
<1>3. Len(frames) \in 1..Len(frames) BY <1>1, <1>2
<1>4. \A c \in Top.staged : c \in live /\ type[c] \in Boxable
  BY <1>3 DEF LiveInv, Top
<1>5. \A c \in Top.staged : CanHold("Array", c)
  BY <1>4, ArrayKind DEF CanHold
<1>6. Top.staged \in SUBSET live BY <1>4
<1>7. /\ live' = live \cup {b}
      /\ \A c \in live : type'[c] = type[c]
      /\ \A a \in live' : WellFormed(a)'
  BY <1>1, <1>5, <1>6, LiveAlloc, TypesAssumption
<1>8. Len(frames) - 1 \in 0..Len(frames) BY <1>3, <1>2
<1>9. \A i \in 1..Len(Popped) : \A c \in Popped[i].staged :
         c \in live /\ type[c] \in Boxable
  BY <1>2, <1>8, LiveCut DEF Popped
<1> QED BY <1>1, <1>7, <1>9 DEF LiveInv

LEMMA StageLive ==
    ASSUME IInv, LiveInv, NEW c \in roots, StageResult(c)
    PROVE  LiveInv'
<1>1. /\ frames # <<>> /\ type[c] \in Boxable
      /\ frames' = [frames EXCEPT ![Len(frames)].staged = @ \cup {c}]
      /\ UNCHANGED <<live, type, refs, roots>>
  BY DEF StageResult, blockVars
<1>2. frames \in Seq(Frames) BY DEF IInv, FrameInv
<1>3. Len(frames) \in 1..Len(frames) BY <1>1, <1>2
<1>4. frames[Len(frames)] \in Frames BY <1>2, <1>3, FrameFields
<1>5. c \in live BY DEF LiveInv
<1>6. /\ Len(frames') = Len(frames)
      /\ \A i \in 1..Len(frames) : i # Len(frames) => frames'[i] = frames[i]
      /\ frames'[Len(frames)].staged = frames[Len(frames)].staged \cup {c}
  BY <1>1, <1>2, <1>3, <1>4 DEF Frames
<1>7. \A i \in 1..Len(frames') : \A d \in frames'[i].staged :
         d \in live /\ type[d] \in Boxable
  BY <1>1, <1>3, <1>5, <1>6 DEF LiveInv
<1> QED BY <1>1, <1>7, LiveHeld DEF LiveInv

LEMMA EnterLive ==
    ASSUME IInv, LiveInv, NEW a \in roots, EnterNative(a)
    PROVE  LiveInv'
<1> DEFINE f == [kind |-> "native", staged |-> refs[a], depth |-> 0]
<1>1. f \in Frames BY DEF IInv, Books, BlockTypes, FrameInv, Frames
<1>2. /\ type[a] \in {"Array", "Vector"} /\ Push(f)
      /\ UNCHANGED <<live, type, refs, roots>>
  BY DEF EnterNative, blockVars
<1>7. KindOf(type[a]) = "Array" BY <1>2 DEF KindOf
<1>3. WellFormed(a) BY DEF LiveInv
<1>4. f.staged = refs[a] OBVIOUS
<1>5. \A c \in f.staged : c \in live /\ type[c] \in Boxable
  BY <1>3, <1>4, <1>7 DEF WellFormed
<1>6. frames \in Seq(Frames) BY DEF IInv, FrameInv
<1> HIDE DEF f
<1> QED BY <1>1, <1>2, <1>5, <1>6, LivePush

(* Dropping frames and holding only what was live already.                  *)
LEMMA CutLive ==
    ASSUME IInv, LiveInv, NEW k \in 0..Len(frames), frames' = SubSeq(frames, 1, k),
           UNCHANGED <<live, type, refs, roots>>
    PROVE  LiveInv'
<1>1. frames \in Seq(Frames) BY DEF IInv, FrameInv
<1>2. \A i \in 1..Len(frames') : \A c \in frames'[i].staged :
         c \in live /\ type[c] \in Boxable
  BY <1>1, LiveCut
<1> QED BY <1>2, LiveHeld DEF LiveInv

LEMMA NextLive == IInv /\ LiveInv /\ Discipline /\ [Next]_vars => LiveInv'
<1> SUFFICES ASSUME IInv, LiveInv, Discipline, [Next]_vars PROVE LiveInv'
  OBVIOUS
<1>0. frames \in Seq(Frames) /\ staged \subseteq live
  BY DEF IInv, FrameInv, LiveInv, staged
<1>1. ASSUME NEW b \in Blocks, NEW t \in Types, NEW init \in {{}} \cup {{c} : c \in roots},
             New(b, t, init)
      PROVE  LiveInv'
  <2>1. init \in SUBSET roots OBVIOUS
  <2> QED BY <1>1, <2>1, NewLive
<1>2. ASSUME NEW a \in roots, NEW c \in roots, NEW old \in SUBSET refs[a], Store(a, c, old)
      PROVE  LiveInv'
  BY <1>2, StoreLive
<1>3. ASSUME NEW a \in roots, NEW c \in refs[a], Load(a, c) PROVE LiveInv'
  <2>1. c \in live BY DEF LiveInv, WellFormed
  <2> QED BY <1>3, <2>1 DEF Load, LiveInv, WellFormed, blockVars
<1>4. ASSUME NEW b \in roots, Forget(b) PROVE LiveInv'
  BY <1>4 DEF Forget, LiveInv, WellFormed, blockVars
<1>5. ASSUME NEW a \in roots, EnterNative(a) PROVE LiveInv'
  BY <1>5, EnterLive
<1>6. ASSUME NEW c \in staged, PassElement(c) PROVE LiveInv'
  BY <1>0, <1>6 DEF PassElement, LiveInv, WellFormed, blockVars
<1>7. ASSUME NEW c \in roots, StageResult(c) PROVE LiveInv'
  BY <1>7, StageLive
<1>8. ASSUME NEW b \in Blocks, ReturnArray(b) PROVE LiveInv'
  BY <1>8, ReturnArrayLive
<1>9. ASSUME ReturnValue \/ pop_handler PROVE LiveInv'
  <2>1. /\ frames # <<>> /\ frames' = SubSeq(frames, 1, Len(frames) - 1)
        /\ UNCHANGED <<live, type, refs, roots>>
    BY <1>9 DEF ReturnValue, pop_handler, Popped, blockVars
  <2>2. Len(frames) - 1 \in 0..Len(frames) BY <2>1, <1>0
  <2> QED BY <2>1, <2>2, CutLive
<1>10. ASSUME push_handler PROVE LiveInv'
  <2> DEFINE f == [kind |-> "try", staged |-> {}, depth |-> defer]
  <2>1. f \in Frames /\ f.staged = {} BY DEF IInv, FrameInv, Frames
  <2>2. Push(f) /\ UNCHANGED <<live, type, refs, roots>>
    BY <1>10 DEF push_handler, blockVars
  <2> HIDE DEF f
  <2> QED BY <2>1, <2>2, <1>0, LivePush
<1>11. ASSUME NEW i \in Handlers, throw(i) PROVE LiveInv'
  <2>1. /\ frames' = SubSeq(frames, 1, i - 1)
        /\ UNCHANGED <<live, type, refs, roots>>
    BY <1>11 DEF throw, blockVars
  <2>2. i - 1 \in 0..Len(frames) BY <1>0 DEF Handlers
  <2> QED BY <2>1, <2>2, CutLive
<1>12. ASSUME safepoint \/ SystemGc PROVE LiveInv'
  BY <1>12, LiveCollect DEF safepoint, SystemGc, Discipline
<1>13. ASSUME UNCHANGED vars PROVE LiveInv'
  BY <1>13, LiveHeld DEF vars, LiveInv
<1> QED
  BY <1>1, <1>2, <1>3, <1>4, <1>5, <1>6, <1>7, <1>8, <1>9, <1>10, <1>11, <1>12, <1>13
     DEF Next

(* The debt falls only in a collection, and that runs below no native.      *)
LEMMA DebtPaidByCollect ==
    ASSUME IInv, Discipline, [Next]_vars, since' = 0, since # 0
    PROVE  collect /\ defer = 0
<1>1. ASSUME NEW b \in Blocks, NEW t \in Types, NEW init \in {{}} \cup {{c} : c \in roots},
             New(b, t, init)
      PROVE  FALSE
  <2>1. init \in SUBSET Blocks /\ alloc(b, t, init)
    BY <1>1 DEF New, IInv, FrameInv
  <2> QED BY <2>1, AllocStep DEF IInv
<1>2. ASSUME NEW b \in Blocks, ReturnArray(b) PROVE FALSE
  <2>1. frames # <<>> /\ alloc(b, "Array", Top.staged) BY <1>2 DEF ReturnArray
  <2>2. frames \in Seq(Frames) BY DEF IInv, FrameInv
  <2>3. Len(frames) \in 1..Len(frames) BY <2>1, <2>2
  <2>4. Top.staged \in SUBSET Blocks BY <2>2, <2>3, FrameFields DEF Top
  <2> QED BY <2>1, <2>4, AllocStep, TypesAssumption DEF IInv
<1>3. CASE safepoint \/ SystemGc
  BY <1>3 DEF safepoint, SystemGc, Discipline
<1>4. CASE UNCHANGED since
  BY <1>4
<1> QED
  BY <1>1, <1>2, <1>3, <1>4
     DEF Next, vars, debtVars, Store, Load, Forget, EnterNative, PassElement, StageResult,
         ReturnValue, push_handler, pop_handler, throw

-----------------------------------------------------------------------------
(* ---- theorems ------------------------------------------------------------ *)

(* The books of the heap stay consistent in every run, whatever the program *)
(* does: gc.rs keeps its types, ...                                         *)
THEOREM TypeCorrect == Spec => []TypeOK
<1>1. Spec => []IInv BY InitInv, NextInv, PTL DEF Spec
<1> QED BY <1>1, InvImplies, PTL

(* ... a block is never on the free list twice, nor while it is live, ...   *)
THEOREM FreeListCorrect == Spec => []FreeListExact
<1>1. Spec => []IInv BY InitInv, NextInv, PTL DEF Spec
<1> QED BY <1>1, InvImplies, PTL

(* ... deferral is balanced across every longjmp (exc.rs), ...              *)
THEOREM DeferCorrect == Spec => []DeferIsNativeDepth
<1>1. Spec => []IInv BY InitInv, NextInv, PTL DEF Spec
<1> QED BY <1>1, InvImplies, PTL

(* ... and a debt past the threshold is always flagged.                     *)
THEOREM DebtCorrect == Spec => []DebtIsFlagged
<1>1. Spec => []IInv BY InitInv, NextInv, PTL DEF Spec
<1> QED BY <1>1, InvImplies, PTL

(* Programs that keep to the discipline never meet a recycled block.        *)
THEOREM NothingDangles ==
    ASSUME Discipline
    PROVE  Spec => []NoDangling
<1>1. Init => IInv /\ LiveInv BY InitInv, InitLive
<1>2. IInv /\ LiveInv /\ [Next]_vars => (IInv /\ LiveInv)'
  BY NextInv, NextLive
<1>3. IInv /\ LiveInv => NoDangling
  <2> SUFFICES ASSUME IInv, LiveInv PROVE NoDangling
    OBVIOUS
  <2>1. live \in SUBSET Blocks /\ roots \in SUBSET Blocks /\ refs \in [Blocks -> SUBSET Blocks]
    BY DEF IInv, Books, BlockTypes, FrameInv
  <2>2. staged \subseteq live BY DEF LiveInv, staged
  <2>3. IsClosed(live, roots \cup staged, refs)
    BY <2>2 DEF LiveInv, WellFormed, IsClosed
  <2>4. roots \cup staged \in SUBSET Blocks BY <2>1, <2>2
  <2> QED BY <2>1, <2>3, <2>4, ClosureIsLeast DEF NoDangling, ProgramReach
<1> QED BY <1>1, <1>2, <1>3, PTL DEF Spec

LEMMA CollectionStep ==
    ASSUME IInv, LiveInv, Discipline, [Next]_vars, since' = 0, since # 0
    PROVE  /\ live' = ProgramReach'
           /\ ProgramReach' = ProgramReach
           /\ \A b \in ProgramReach : type'[b] = type[b] /\ refs'[b] = refs[b]
<1>1. collect /\ defer = 0 BY DebtPaidByCollect
<1>2. Claimed = ProgramReach BY <1>1, ClaimedIsReach
<1>3. /\ live' = Claimed
      /\ \A b \in Claimed : type'[b] = type[b] /\ refs'[b] = refs[b]
  BY <1>1, LiveCollect
<1>4. roots' = roots /\ frames' = frames BY <1>1 DEF collect, Sweep
<1>5. staged' = staged BY <1>4 DEF staged
<1>6. refs \in [Blocks -> SUBSET Blocks] /\ roots \cup staged \in SUBSET Blocks
  BY InvImplies, StagedType DEF TypeOK
<1>7. refs' \in [Blocks -> SUBSET Blocks]
  <2>1. IInv' BY NextInv
  <2> QED BY <2>1 DEF IInv, Books, BlockTypes
<1>8. \A b \in ClosureOf(roots \cup staged, refs) : refs[b] = refs'[b]
  BY <1>2, <1>3 DEF ProgramReach
<1>9. ClosureOf(roots \cup staged, refs') = ClosureOf(roots \cup staged, refs)
  BY <1>6, <1>7, <1>8, ClosureAgrees
<1>10. ProgramReach' = ProgramReach BY <1>4, <1>5, <1>9 DEF ProgramReach
<1> QED BY <1>2, <1>3, <1>10

(* Nor do they see a collection happen, ...                                 *)
THEOREM CollectorInvisible ==
    ASSUME Discipline
    PROVE  Spec => GcIsInvisible
<1>1. Init => IInv /\ LiveInv BY InitInv, InitLive
<1>2. IInv /\ LiveInv /\ [Next]_vars => (IInv /\ LiveInv)'
  BY NextInv, NextLive
<1>3. IInv /\ LiveInv /\ [Next]_vars =>
        [(since' = 0 /\ since # 0) =>
          /\ ProgramReach' = ProgramReach
          /\ \A b \in ProgramReach : type'[b] = type[b] /\ refs'[b] = refs[b]]_vars
  BY CollectionStep
<1> QED BY <1>1, <1>2, <1>3, PTL DEF Spec, GcIsInvisible

(* ... and what it leaves is what they can reach, nothing more.             *)
THEOREM CollectionComplete ==
    ASSUME Discipline
    PROVE  Spec => CollectionIsExact
<1>1. Init => IInv /\ LiveInv BY InitInv, InitLive
<1>2. IInv /\ LiveInv /\ [Next]_vars => (IInv /\ LiveInv)'
  BY NextInv, NextLive
<1>3. IInv /\ LiveInv /\ [Next]_vars =>
        [(since' = 0 /\ since # 0) => live' = ProgramReach']_vars
  BY CollectionStep
<1> QED BY <1>1, <1>2, <1>3, PTL DEF Spec, CollectionIsExact
=============================================================================
