---------------------------- MODULE ReentryProofs ----------------------------
(***************************************************************************)
(* Proofs about Reentry for any number of arrays, sockets, nested frames   *)
(* and lost borrows: the handler stack, the deferral depth and the borrow  *)
(* flags always agree with the frames on the stack, however natives are    *)
(* nested, re-entered and left by exceptions.                              *)
(***************************************************************************)
EXTENDS Reentry, FiniteSetTheorems, TLAPS

(* The frames among the first n that keep a borrow of c, hold a DeferGuard, *)
(* or are try statements.                                                   *)
KeepersIn(fs, c, n, how) ==
    {i \in 1..n : IsNative(fs[i]) /\ fs[i].cell = c /\ KeptBorrow(fs[i].op) = how}
GuardsIn(fs, n) == {i \in 1..n : Guarded(fs[i].op)}
TriesIn(fs, n) == {i \in 1..n : ~IsNative(fs[i])}

(* A cell is shared, by the readers on the stack and the ones lost; or it   *)
(* is held by one writer, on the stack or lost, and by no reader.           *)
CellInv(x, lost, writers, readers) ==
    \/ writers = 0 /\ lost >= 0 /\ x = lost + readers
    \/ x = Excl /\ readers = 0 /\ lost \in {-1, 0} /\ writers = 1 + lost

BorrowInv(fs, fl, lk) ==
    \A c \in Cells : CellInv(fl[c], lk[c], Cardinality(KeepersIn(fs, c, Len(fs), Excl)),
                             Cardinality(KeepersIn(fs, c, Len(fs), Shared)))

(* The handlers are the try statements on the stack, in order, each with    *)
(* the number of guards below it.                                           *)
HandlerInv(fs, hs) ==
    /\ hs \in Seq([at : Nat, depth : Nat])
    /\ {hs[k].at : k \in 1..Len(hs)} = TriesIn(fs, Len(fs))
    /\ \A k \in 1..Len(hs) :
          /\ \A m \in 1..(k - 1) : hs[m].at < hs[k].at
          /\ hs[k].depth = Cardinality(GuardsIn(fs, hs[k].at - 1))

Types ==
    /\ frames \in Seq(Frames) /\ Len(frames) <= MaxFrames
    /\ flag \in [Cells -> Int]
    /\ leaked \in [Cells -> Int] /\ \A c \in Cells : leaked[c] <= MaxLeaks
    /\ pending \in BOOLEAN
    /\ closed \in SUBSET Sockets
    /\ status \in {"running", "exited"} \cup Aborts

Books ==
    /\ Types
    /\ defer = Cardinality(GuardsIn(frames, Len(frames)))
    /\ HandlerInv(frames, handlers)
    /\ BorrowInv(frames, flag, leaked)

IInv == Books /\ AbortsExplained

-----------------------------------------------------------------------------
(* ---- counting frames ----------------------------------------------------- *)

LEMMA FrameKinds ==
    ASSUME NEW fs \in Seq(Frames), NEW i \in 1..Len(fs)
    PROVE  /\ fs[i] \in Frames
           /\ IsNative(fs[i]) => fs[i].op \in Natives /\ fs[i].cell \in Arrays
           /\ ~IsNative(fs[i]) => ~Guarded(fs[i].op)
<1>1. fs[i] \in Frames OBVIOUS
<1> QED BY <1>1 DEF Frames, IsNative, Natives, Guarded

(* The counts are natural numbers, and at most the number of frames.        *)
LEMMA CountsFinite ==
    ASSUME NEW fs, NEW n \in Nat, NEW S \in SUBSET (1..n)
    PROVE  IsFiniteSet(S) /\ Cardinality(S) \in 0..n
<1>1. IsFiniteSet(1..n) /\ Cardinality(1..n) = n BY FS_Interval
<1>2. IsFiniteSet(S) /\ Cardinality(S) <= n BY <1>1, FS_Subset
<1> QED BY <1>2, FS_CardinalityType

LEMMA AreSubsets ==
    ASSUME NEW fs, NEW n \in Nat
    PROVE  /\ GuardsIn(fs, n) \in SUBSET (1..n)
           /\ \A c, how : KeepersIn(fs, c, n, how) \in SUBSET (1..n)
BY DEF GuardsIn, KeepersIn

(* Counting one frame more.                                                 *)
LEMMA CountStep ==
    ASSUME NEW n \in Nat \ {0}, NEW S \in SUBSET (1..n), NEW T \in SUBSET (1..(n - 1)),
           S = T \cup (IF n \in S THEN {n} ELSE {})
    PROVE  Cardinality(S) = Cardinality(T) + (IF n \in S THEN 1 ELSE 0)
<1>1. n - 1 \in Nat /\ n \notin T OBVIOUS
<1>2. IsFiniteSet(T) /\ Cardinality(T) \in Nat BY <1>1, CountsFinite
<1>3. CASE n \in S
  <2>1. S = T \cup {n} BY <1>3
  <2> QED BY <2>1, <1>1, <1>2, <1>3, FS_AddElement
<1>4. CASE n \notin S BY <1>2, <1>4
<1> QED BY <1>3, <1>4

LEMMA GuardsStep ==
    ASSUME NEW fs, NEW n \in Nat \ {0}
    PROVE  Cardinality(GuardsIn(fs, n)) =
              Cardinality(GuardsIn(fs, n - 1)) + (IF Guarded(fs[n].op) THEN 1 ELSE 0)
<1>1. 1..n = (1..(n - 1)) \cup {n} /\ n - 1 \in Nat OBVIOUS
<1>2. n \in GuardsIn(fs, n) <=> Guarded(fs[n].op) BY DEF GuardsIn
<1>3. GuardsIn(fs, n) = GuardsIn(fs, n - 1) \cup (IF n \in GuardsIn(fs, n) THEN {n} ELSE {})
  BY <1>1 DEF GuardsIn
<1>4. GuardsIn(fs, n) \in SUBSET (1..n) /\ GuardsIn(fs, n - 1) \in SUBSET (1..(n - 1))
  BY DEF GuardsIn
<1> HIDE DEF GuardsIn
<1> QED BY <1>2, <1>3, <1>4, CountStep

LEMMA KeepersStep ==
    ASSUME NEW fs, NEW n \in Nat \ {0}, NEW c, NEW how
    PROVE  Cardinality(KeepersIn(fs, c, n, how)) =
              Cardinality(KeepersIn(fs, c, n - 1, how))
                + (IF IsNative(fs[n]) /\ fs[n].cell = c /\ KeptBorrow(fs[n].op) = how THEN 1 ELSE 0)
<1>1. 1..n = (1..(n - 1)) \cup {n} /\ n - 1 \in Nat OBVIOUS
<1>2. n \in KeepersIn(fs, c, n, how)
        <=> IsNative(fs[n]) /\ fs[n].cell = c /\ KeptBorrow(fs[n].op) = how
  BY DEF KeepersIn
<1>3. KeepersIn(fs, c, n, how) =
        KeepersIn(fs, c, n - 1, how) \cup (IF n \in KeepersIn(fs, c, n, how) THEN {n} ELSE {})
  BY <1>1 DEF KeepersIn
<1>4. KeepersIn(fs, c, n, how) \in SUBSET (1..n)
        /\ KeepersIn(fs, c, n - 1, how) \in SUBSET (1..(n - 1))
  BY DEF KeepersIn
<1> QED BY <1>2, <1>3, <1>4, CountStep

(* Only the frames counted matter.                                          *)
LEMMA CountsAgree ==
    ASSUME NEW fs, NEW gs, NEW n \in Nat, \A i \in 1..n : fs[i] = gs[i]
    PROVE  /\ GuardsIn(gs, n) = GuardsIn(fs, n)
           /\ TriesIn(gs, n) = TriesIn(fs, n)
BY DEF GuardsIn, TriesIn

LEMMA KeepersAgree ==
    ASSUME NEW fs, NEW gs, NEW n \in Nat, \A i \in 1..n : fs[i] = gs[i], NEW c, NEW how
    PROVE  KeepersIn(gs, c, n, how) = KeepersIn(fs, c, n, how)
BY DEF KeepersIn

(* The borrows of frames 1..m are those of 1..k and of k+1..m.              *)
LEMMA KeepersSplit ==
    ASSUME NEW m \in Nat, NEW k \in 0..m, NEW c, NEW how
    PROVE  Cardinality(KeepersIn(frames, c, m, how)) =
              Cardinality(KeepersIn(frames, c, k, how)) + Cardinality(Keeping(c, k + 1, m, how))
<1> DEFINE A == KeepersIn(frames, c, k, how)
           B == Keeping(c, k + 1, m, how)
<1>1. A \cup B = KeepersIn(frames, c, m, how) /\ A \cap B = {}
  BY DEF KeepersIn, Keeping
<1>2. A \in SUBSET (1..m) /\ B \in SUBSET (1..m) BY DEF KeepersIn, Keeping
<1>3. IsFiniteSet(A) /\ IsFiniteSet(B) BY <1>2, CountsFinite
<1>4. Cardinality(A) \in Nat /\ Cardinality(B) \in Nat BY <1>3, FS_CardinalityType
<1>5. Cardinality(A \cup B) = Cardinality(A) + Cardinality(B) - Cardinality(A \cap B)
  BY <1>3, FS_Union
<1>6. Cardinality(A \cap B) = 0 BY <1>1, FS_EmptySet
<1> HIDE DEF A, B
<1>7. Cardinality(A \cup B) = Cardinality(A) + Cardinality(B) BY <1>4, <1>5, <1>6
<1> QED BY <1>1, <1>7 DEF A, B

(* No frame keeps a borrow of a socket.                                     *)
LEMMA SocketsUnkept ==
    ASSUME NEW fs \in Seq(Frames), NEW s \in Sockets, NEW how
    PROVE  Cardinality(KeepersIn(fs, s, Len(fs), how)) = 0
<1>1. \A i \in 1..Len(fs) : IsNative(fs[i]) => fs[i].cell # s
  BY FrameKinds, CellsAssumption
<1>2. KeepersIn(fs, s, Len(fs), how) = {} BY <1>1 DEF KeepersIn
<1> QED BY <1>2, FS_EmptySet

-----------------------------------------------------------------------------
(* ---- pushing and cutting frames ------------------------------------------ *)

LEMMA PushedFrames ==
    ASSUME NEW fs \in Seq(Frames), NEW f \in Frames
    PROVE  LET gs == Append(fs, f)
               n == Len(fs)
           IN  /\ gs \in Seq(Frames) /\ Len(gs) = n + 1 /\ gs[n + 1] = f
               /\ \A i \in 1..n : fs[i] = gs[i]
               /\ n \in Nat /\ n + 1 \in Nat \ {0} /\ (n + 1) - 1 = n
OBVIOUS

LEMMA CutFrames ==
    ASSUME NEW fs \in Seq(Frames), NEW k \in 0..Len(fs)
    PROVE  LET gs == SubSeq(fs, 1, k)
           IN  /\ gs \in Seq(Frames) /\ Len(gs) = k /\ k \in Nat
               /\ \A i \in 1..k : gs[i] = fs[i] /\ fs[i] = gs[i]
OBVIOUS

LEMMA CutLast ==
    ASSUME NEW S, NEW s \in Seq(S), s # <<>>
    PROVE  LET r == SubSeq(s, 1, Len(s) - 1)
           IN  /\ Len(s) - 1 \in Nat /\ Len(s) = (Len(s) - 1) + 1
               /\ r \in Seq(S) /\ Len(r) = Len(s) - 1
               /\ \A j \in 1..(Len(s) - 1) : r[j] = s[j]
<1>1. Len(s) \in Nat \ {0} OBVIOUS
<1>2. Len(s) - 1 \in Nat /\ Len(s) - 1 \in 0..Len(s) /\ Len(s) = (Len(s) - 1) + 1 BY <1>1
<1> QED BY <1>2

LEMMA HandlerTypes ==
    ASSUME NEW fs \in Seq(Frames), NEW hs, HandlerInv(fs, hs)
    PROVE  /\ hs \in Seq([at : Nat, depth : Nat]) /\ Len(hs) \in Nat
           /\ \A k \in 1..Len(hs) : hs[k].at \in Nat /\ hs[k].at \in 1..Len(fs)
<1>1. hs \in Seq([at : Nat, depth : Nat]) BY DEF HandlerInv
<1>2. \A k \in 1..Len(hs) : hs[k].at \in TriesIn(fs, Len(fs)) BY DEF HandlerInv
<1>3. Len(hs) \in Nat /\ Len(fs) \in Nat BY <1>1
<1> QED BY <1>1, <1>2, <1>3 DEF TriesIn

(* Entering a native changes no handler.                                    *)
LEMMA HandlersUnderNative ==
    ASSUME NEW fs \in Seq(Frames), NEW hs, HandlerInv(fs, hs), NEW f \in Frames, IsNative(f)
    PROVE  HandlerInv(Append(fs, f), hs)
<1> DEFINE gs == Append(fs, f)
           n == Len(fs)
<1>1. /\ Len(gs) = n + 1 /\ gs[n + 1] = f /\ \A i \in 1..n : fs[i] = gs[i]
      /\ n \in Nat
  BY PushedFrames
<1> HIDE DEF gs, n
<1>2. TriesIn(gs, n + 1) = TriesIn(fs, n) BY <1>1 DEF TriesIn
<1>3. ASSUME NEW k \in 1..Len(hs)
      PROVE  GuardsIn(gs, hs[k].at - 1) = GuardsIn(fs, hs[k].at - 1)
  <2>1. hs[k].at \in 1..n BY DEF HandlerInv, TriesIn, n
  <2>2. hs[k].at - 1 \in Nat /\ \A i \in 1..(hs[k].at - 1) : fs[i] = gs[i] BY <1>1, <2>1
  <2> QED BY <2>2, CountsAgree
<1> QED BY <1>1, <1>2, <1>3 DEF HandlerInv, gs, n

(* push_handler saves the number of guards around the new try statement.    *)
LEMMA HandlersUnderTry ==
    ASSUME NEW fs \in Seq(Frames), NEW hs, HandlerInv(fs, hs), NEW f \in Frames, ~IsNative(f),
           NEW d, d = Cardinality(GuardsIn(fs, Len(fs)))
    PROVE  HandlerInv(Append(fs, f), Append(hs, [at |-> Len(fs) + 1, depth |-> d]))
<1> DEFINE gs == Append(fs, f)
           n == Len(fs)
           h == [at |-> n + 1, depth |-> d]
           is == Append(hs, h)
           m == Len(hs)
<1>1. /\ Len(gs) = n + 1 /\ gs[n + 1] = f /\ \A i \in 1..n : fs[i] = gs[i]
      /\ n \in Nat
  BY PushedFrames
<1>2. d \in Nat
  <2>1. GuardsIn(fs, n) \in SUBSET (1..n) BY DEF GuardsIn
  <2> QED BY <2>1, <1>1, CountsFinite
<1>3. /\ is \in Seq([at : Nat, depth : Nat]) /\ Len(is) = m + 1 /\ m \in Nat
      /\ is[m + 1] = h /\ \A k \in 1..m : is[k] = hs[k]
  <2>1. h \in [at : Nat, depth : Nat] BY <1>1, <1>2
  <2>2. hs \in Seq([at : Nat, depth : Nat]) BY DEF HandlerInv
  <2> HIDE DEF h
  <2> QED BY <2>1, <2>2
<1>4. h.at = n + 1 /\ h.depth = d OBVIOUS
<1> HIDE DEF gs, n, h, is, m
<1>5. TriesIn(gs, n + 1) = TriesIn(fs, n) \cup {n + 1} BY <1>1 DEF TriesIn
<1>6. {is[k].at : k \in 1..(m + 1)} = {hs[k].at : k \in 1..m} \cup {n + 1}
  <2>1. 1..(m + 1) = (1..m) \cup {m + 1} BY <1>3
  <2>2. is[m + 1].at = n + 1 BY <1>3, <1>4
  <2> QED BY <2>1, <2>2, <1>3
<1>7. {is[k].at : k \in 1..Len(is)} = TriesIn(gs, Len(gs))
  BY <1>1, <1>3, <1>5, <1>6 DEF HandlerInv, n, m
<1>8. \A k \in 1..m : hs[k].at \in 1..n BY DEF HandlerInv, TriesIn, n, m
<1>9. ASSUME NEW k \in 1..(m + 1)
      PROVE  /\ \A j \in 1..(k - 1) : is[j].at < is[k].at
             /\ is[k].depth = Cardinality(GuardsIn(gs, is[k].at - 1))
  <2>1. CASE k = m + 1
    <3>1. is[k].at - 1 = n BY <2>1, <1>1, <1>3, <1>4
    <3>2. GuardsIn(gs, n) = GuardsIn(fs, n) BY <1>1, CountsAgree
    <3>3. \A j \in 1..m : is[j].at < n + 1
      <4> SUFFICES ASSUME NEW j \in 1..m PROVE is[j].at < n + 1 OBVIOUS
      <4>1. is[j] = hs[j] BY <1>3
      <4>2. hs[j].at \in 1..n BY <1>8
      <4> QED BY <4>1, <4>2, <1>1
    <3> QED BY <3>1, <3>2, <3>3, <2>1, <1>3, <1>4 DEF n
  <2>2. CASE k \in 1..m
    <3>1. hs[k].at - 1 \in Nat /\ \A i \in 1..(hs[k].at - 1) : fs[i] = gs[i]
      BY <2>2, <1>1, <1>8
    <3>2. GuardsIn(gs, hs[k].at - 1) = GuardsIn(fs, hs[k].at - 1) BY <3>1, CountsAgree
    <3>3. \A j \in 1..(k - 1) : j \in 1..m BY <2>2, <1>3
    <3> QED BY <3>2, <3>3, <2>2, <1>3 DEF HandlerInv, m
  <2> QED BY <2>1, <2>2, <1>3
<1> QED BY <1>3, <1>7, <1>9 DEF HandlerInv, gs, n, h, is

(* Leaving a native changes no handler.                                     *)
LEMMA HandlersAfterNative ==
    ASSUME NEW fs \in Seq(Frames), NEW hs, HandlerInv(fs, hs), Len(fs) > 0, IsNative(fs[Len(fs)])
    PROVE  HandlerInv(SubSeq(fs, 1, Len(fs) - 1), hs)
<1> DEFINE k == Len(fs) - 1
           gs == SubSeq(fs, 1, k)
<1>1. k \in 0..Len(fs) /\ k \in Nat /\ Len(fs) = k + 1 OBVIOUS
<1>2. Len(gs) = k /\ \A i \in 1..k : gs[i] = fs[i] BY <1>1, CutFrames
<1> HIDE DEF gs, k
<1>3. TriesIn(gs, k) = TriesIn(fs, k + 1) BY <1>1, <1>2 DEF TriesIn
<1>4. ASSUME NEW j \in 1..Len(hs)
      PROVE  GuardsIn(gs, hs[j].at - 1) = GuardsIn(fs, hs[j].at - 1)
  <2>1. hs[j].at \in 1..k BY <1>1, <1>3 DEF HandlerInv, TriesIn
  <2>2. hs[j].at - 1 \in Nat /\ \A i \in 1..(hs[j].at - 1) : fs[i] = gs[i] BY <1>1, <1>2, <2>1
  <2> QED BY <2>2, CountsAgree
<1> QED BY <1>1, <1>2, <1>3, <1>4 DEF HandlerInv, gs, k

(* The last handler belongs to the innermost try statement.                 *)
LEMMA LastHandler ==
    ASSUME NEW fs \in Seq(Frames), NEW hs, HandlerInv(fs, hs), hs # <<>>
    PROVE  LET h == hs[Len(hs)]
           IN  /\ h.at \in 1..Len(fs) /\ h.at - 1 \in 0..Len(fs)
               /\ h.depth = Cardinality(GuardsIn(fs, h.at - 1))
               /\ \A i \in TriesIn(fs, Len(fs)) : i <= h.at
<1> DEFINE m == Len(hs)
<1>1. m \in Nat \ {0} /\ m \in 1..m /\ Len(fs) \in Nat
  BY HandlerTypes
<1>2. \A k \in 1..m : hs[k].at \in Nat BY HandlerTypes
<1>3. \A k \in 1..m : hs[k].at <= hs[m].at
  <2> SUFFICES ASSUME NEW k \in 1..m PROVE hs[k].at <= hs[m].at OBVIOUS
  <2>1. k = m \/ k \in 1..(m - 1) BY <1>1
  <2>2. \A j \in 1..(m - 1) : hs[j].at < hs[m].at BY <1>1 DEF HandlerInv, m
  <2> HIDE DEF m
  <2> QED BY <2>1, <2>2, <1>1, <1>2
<1>4. \A i \in TriesIn(fs, Len(fs)) : \E k \in 1..m : i = hs[k].at BY DEF HandlerInv
<1>5. hs[m].at \in TriesIn(fs, Len(fs)) /\ hs[m].depth = Cardinality(GuardsIn(fs, hs[m].at - 1))
  BY <1>1 DEF HandlerInv
<1>6. hs[m].at \in 1..Len(fs) BY <1>5 DEF TriesIn
<1> QED BY <1>1, <1>3, <1>4, <1>5, <1>6

(* A throw, or the end of a try statement, takes its handler and the frames *)
(* from its own on.                                                         *)
LEMMA HandlersAfterCut ==
    ASSUME NEW fs \in Seq(Frames), NEW hs, HandlerInv(fs, hs), hs # <<>>
    PROVE  HandlerInv(SubSeq(fs, 1, hs[Len(hs)].at - 1), SubSeq(hs, 1, Len(hs) - 1))
<1> DEFINE m == Len(hs) - 1
           k == hs[Len(hs)].at - 1
           gs == SubSeq(fs, 1, k)
           is == SubSeq(hs, 1, m)
<1>1. k \in 0..Len(fs) /\ \A i \in TriesIn(fs, Len(fs)) : i <= k + 1
  <2>1. hs[Len(hs)].at \in 1..Len(fs) /\ \A i \in TriesIn(fs, Len(fs)) : i <= hs[Len(hs)].at
    BY LastHandler
  <2> QED BY <2>1
<1>2. Len(gs) = k /\ k \in Nat /\ \A i \in 1..k : gs[i] = fs[i] /\ fs[i] = gs[i]
  BY <1>1, CutFrames
<1>3. /\ m \in Nat /\ Len(hs) = m + 1 /\ is \in Seq([at : Nat, depth : Nat]) /\ Len(is) = m
      /\ \A j \in 1..m : is[j] = hs[j]
  <2>1. hs \in Seq([at : Nat, depth : Nat]) BY HandlerTypes
  <2> QED BY <2>1, CutLast
<1>4. hs[m + 1].at = k + 1
  <2>1. hs[Len(hs)].at \in 1..Len(fs) BY LastHandler
  <2> QED BY <1>3, <2>1
<1>5. \A j \in 1..m : hs[j].at <= k
  <2> SUFFICES ASSUME NEW j \in 1..m PROVE hs[j].at <= k OBVIOUS
  <2>1. m + 1 \in 1..Len(hs) /\ j \in 1..((m + 1) - 1) /\ j \in 1..Len(hs) BY <1>3
  <2> HIDE DEF m, k
  <2>2. hs[j].at < hs[m + 1].at BY <2>1 DEF HandlerInv
  <2>3. hs[j].at \in Nat BY <2>1, HandlerTypes
  <2> QED BY <2>2, <2>3, <1>2, <1>4
<1> HIDE DEF gs, is, m, k
<1>6. TriesIn(gs, k) = TriesIn(fs, Len(fs)) \ {k + 1}
  <2>1. \A i \in 1..Len(fs) : i \in 1..k \/ i > k BY <1>2
  <2>2. TriesIn(fs, Len(fs)) \subseteq (1..k) \cup {k + 1}
    <3> SUFFICES ASSUME NEW i \in TriesIn(fs, Len(fs)) PROVE i \in (1..k) \cup {k + 1} OBVIOUS
    <3>1. i \in 1..Len(fs) BY DEF TriesIn
    <3> QED BY <3>1, <1>1, <1>2
  <2>3. k + 1 \notin 1..k /\ 1..k \subseteq 1..Len(fs) BY <1>1, <1>2
  <2> QED BY <2>2, <2>3, <1>2 DEF TriesIn
<1>7. {is[j].at : j \in 1..m} = {hs[j].at : j \in 1..Len(hs)} \ {k + 1}
  <2>1. 1..Len(hs) = (1..m) \cup {m + 1} BY <1>3
  <2>2. \A j \in 1..m : hs[j].at # k + 1
    <3> SUFFICES ASSUME NEW j \in 1..m PROVE hs[j].at # k + 1 OBVIOUS
    <3>1. hs[j].at <= k BY <1>5
    <3> QED BY <3>1, <1>2
  <2>3. {is[j].at : j \in 1..m} = {hs[j].at : j \in 1..m} BY <1>3
  <2>4. {hs[j].at : j \in 1..Len(hs)} = {hs[j].at : j \in 1..m} \cup {k + 1}
    BY <2>1, <1>4
  <2> QED BY <2>2, <2>3, <2>4
<1>8. {is[j].at : j \in 1..Len(is)} = TriesIn(gs, Len(gs))
  BY <1>2, <1>3, <1>6, <1>7 DEF HandlerInv
<1>9. ASSUME NEW j \in 1..m
      PROVE  /\ \A l \in 1..(j - 1) : is[l].at < is[j].at
             /\ is[j].depth = Cardinality(GuardsIn(gs, is[j].at - 1))
  <2>1. j \in 1..Len(hs) /\ \A l \in 1..(j - 1) : l \in 1..m BY <1>3
  <2>2. hs[j].at \in 1..Len(fs) BY <2>1 DEF HandlerInv, TriesIn
  <2>3. hs[j].at - 1 \in Nat /\ \A i \in 1..(hs[j].at - 1) : fs[i] = gs[i]
    BY <2>2, <1>2, <1>5
  <2>4. GuardsIn(gs, hs[j].at - 1) = GuardsIn(fs, hs[j].at - 1) BY <2>3, CountsAgree
  <2> QED BY <2>1, <2>4, <1>3 DEF HandlerInv
<1> QED BY <1>3, <1>8, <1>9 DEF HandlerInv, gs, is, m, k

-----------------------------------------------------------------------------
(* ---- borrows -------------------------------------------------------------- *)

LEMMA KeeperCounts ==
    ASSUME NEW fs, NEW n \in Nat, NEW c, NEW how
    PROVE  Cardinality(KeepersIn(fs, c, n, how)) \in Nat
<1>1. KeepersIn(fs, c, n, how) \in SUBSET (1..n) BY AreSubsets
<1> QED BY <1>1, CountsFinite

LEMMA KeptKinds == \A op \in Natives : KeptBorrow(op) \in {Excl, Shared, Released}
BY DEF KeptBorrow, Natives

(* What borrowing, giving back and losing a borrow do to one cell.          *)
LEMMA CellTaken ==
    ASSUME NEW x \in Int, NEW lost \in Int, NEW e \in Nat, NEW s \in Nat, CellInv(x, lost, e, s)
    PROVE  /\ x = 0 => CellInv(x + Excl, lost, e + 1, s)
           /\ x # Excl => CellInv(x + Shared, lost, e, s + 1)
           /\ CellInv(x + Released, lost, e, s)
BY DEF CellInv, Excl, Shared, Released

LEMMA CellGiven ==
    ASSUME NEW x \in Int, NEW lost \in Int, NEW e \in Nat, NEW s \in Nat
    PROVE  /\ CellInv(x, lost, e + 1, s) => CellInv(x - Excl, lost, e, s)
           /\ CellInv(x, lost, e, s + 1) => CellInv(x - Shared, lost, e, s)
           /\ CellInv(x, lost, e, s) => CellInv(x - Released, lost, e, s)
BY DEF CellInv, Excl, Shared, Released

LEMMA CellLost ==
    ASSUME NEW x \in Int, NEW lost \in Int, NEW o \in {-1, 0, 1},
           NEW d \in Nat, NEW r \in Nat, NEW ue \in Nat, NEW us \in Nat,
           CellInv(x, lost, d + ue, r + us), o = -1 => x = 0, o = 1 => x # -1
    PROVE  CellInv(x + o, lost + (o + (us - ue)), d, r)
BY DEF CellInv, Excl

LEMMA KindsDiffer == Excl # Shared /\ Excl # Released /\ Shared # Released
BY DEF Excl, Shared, Released

(* A native borrows a cell that is free for it.                             *)
LEMMA BorrowsPush ==
    ASSUME NEW fs \in Seq(Frames), NEW fl \in [Cells -> Int], NEW lk \in [Cells -> Int],
           BorrowInv(fs, fl, lk), NEW op \in Natives, NEW a \in Arrays,
           IF KeptBorrow(op) = Excl THEN fl[a] = 0 ELSE fl[a] # Excl
    PROVE  BorrowInv(Append(fs, [op |-> op, cell |-> a]), [fl EXCEPT ![a] = @ + KeptBorrow(op)], lk)
<1> DEFINE f == [op |-> op, cell |-> a]
           gs == Append(fs, f)
           n == Len(fs)
           gl == [fl EXCEPT ![a] = @ + KeptBorrow(op)]
<1>1. f \in Frames /\ f.op = op /\ f.cell = a /\ IsNative(f)
  BY DEF Frames, IsNative, Natives
<1>2. /\ Len(gs) = n + 1 /\ gs[n + 1] = f /\ \A i \in 1..n : fs[i] = gs[i]
      /\ n \in Nat /\ n + 1 \in Nat \ {0} /\ (n + 1) - 1 = n
  BY <1>1, PushedFrames
<1>3. a \in Cells /\ \A c \in Cells : gl[c] = IF c = a THEN fl[c] + KeptBorrow(op) ELSE fl[c]
  BY DEF Cells
<1> HIDE DEF f, gs, n, gl
<1> SUFFICES ASSUME NEW c \in Cells
             PROVE  CellInv(gl[c], lk[c], Cardinality(KeepersIn(gs, c, Len(gs), Excl)),
                            Cardinality(KeepersIn(gs, c, Len(gs), Shared)))
  BY DEF BorrowInv, f, gs, n, gl
<1> DEFINE e == Cardinality(KeepersIn(fs, c, n, Excl))
           s == Cardinality(KeepersIn(fs, c, n, Shared))
           d == Cardinality(KeepersIn(gs, c, n + 1, Excl))
           r == Cardinality(KeepersIn(gs, c, n + 1, Shared))
<1>4. e \in Nat /\ s \in Nat BY <1>2, KeeperCounts
<1>5. CellInv(fl[c], lk[c], e, s) BY DEF BorrowInv, n
<1>6. /\ d = e + (IF a = c /\ KeptBorrow(op) = Excl THEN 1 ELSE 0)
      /\ r = s + (IF a = c /\ KeptBorrow(op) = Shared THEN 1 ELSE 0)
  <2>1. KeepersIn(gs, c, n, Excl) = KeepersIn(fs, c, n, Excl) BY <1>2, KeepersAgree
  <2>2. KeepersIn(gs, c, n, Shared) = KeepersIn(fs, c, n, Shared) BY <1>2, KeepersAgree
  <2>3. d = Cardinality(KeepersIn(gs, c, (n + 1) - 1, Excl))
              + (IF IsNative(gs[n + 1]) /\ gs[n + 1].cell = c /\ KeptBorrow(gs[n + 1].op) = Excl
                 THEN 1 ELSE 0)
    BY <1>2, KeepersStep
  <2>4. r = Cardinality(KeepersIn(gs, c, (n + 1) - 1, Shared))
              + (IF IsNative(gs[n + 1]) /\ gs[n + 1].cell = c /\ KeptBorrow(gs[n + 1].op) = Shared
                 THEN 1 ELSE 0)
    BY <1>2, KeepersStep
  <2> QED BY <2>1, <2>2, <2>3, <2>4, <1>1, <1>2
<1>7. fl[c] \in Int /\ lk[c] \in Int OBVIOUS
<1> HIDE DEF e, s, d, r
<1>8. CellInv(gl[c], lk[c], d, r)
  <2>1. CASE c # a BY <2>1, <1>3, <1>4, <1>5, <1>6
  <2>2. CASE c = a
    <3>1. KeptBorrow(op) \in {Excl, Shared, Released} BY KeptKinds
    <3>2. CASE KeptBorrow(op) = Excl
      <4>1. d = e + 1 /\ r = s BY <3>2, <2>2, <1>4, <1>6, KindsDiffer
      <4>2. gl[c] = fl[c] + Excl BY <3>2, <2>2, <1>3
      <4>3. fl[c] = 0 BY <3>2, <2>2, KindsDiffer
      <4>4. CellInv(fl[c] + Excl, lk[c], e + 1, s) BY <4>3, <1>4, <1>5, <1>7, CellTaken
      <4> QED BY <4>1, <4>2, <4>4
    <3>3. CASE KeptBorrow(op) = Shared
      <4>1. d = e /\ r = s + 1 BY <3>3, <2>2, <1>4, <1>6, KindsDiffer
      <4>2. gl[c] = fl[c] + Shared BY <3>3, <2>2, <1>3
      <4>3. fl[c] # Excl BY <3>3, <2>2, KindsDiffer
      <4>4. CellInv(fl[c] + Shared, lk[c], e, s + 1) BY <4>3, <1>4, <1>5, <1>7, CellTaken
      <4> QED BY <4>1, <4>2, <4>4
    <3>4. CASE KeptBorrow(op) = Released
      <4>1. d = e /\ r = s BY <3>4, <2>2, <1>4, <1>6, KindsDiffer
      <4>2. gl[c] = fl[c] + Released BY <3>4, <2>2, <1>3
      <4>3. fl[c] # Excl BY <3>4, <2>2, KindsDiffer
      <4>4. CellInv(fl[c] + Released, lk[c], e, s) BY <4>3, <1>4, <1>5, <1>7, CellTaken
      <4> QED BY <4>1, <4>2, <4>4
    <3> QED BY <3>1, <3>2, <3>3, <3>4
  <2> QED BY <2>1, <2>2
<1> QED BY <1>2, <1>8 DEF d, r

(* A native that returns gives back what it borrowed.                       *)
LEMMA BorrowsPop ==
    ASSUME NEW fs \in Seq(Frames), NEW fl \in [Cells -> Int], NEW lk \in [Cells -> Int],
           BorrowInv(fs, fl, lk), Len(fs) > 0, IsNative(fs[Len(fs)])
    PROVE  LET f == fs[Len(fs)]
           IN  BorrowInv(SubSeq(fs, 1, Len(fs) - 1), [fl EXCEPT ![f.cell] = @ - KeptBorrow(f.op)], lk)
<1> DEFINE n == Len(fs)
           f == fs[n]
           k == n - 1
           gs == SubSeq(fs, 1, k)
           gl == [fl EXCEPT ![f.cell] = @ - KeptBorrow(f.op)]
<1>1. n \in Nat \ {0} /\ n \in 1..n /\ k \in Nat /\ k \in 0..Len(fs) OBVIOUS
<1>2. Len(gs) = k /\ \A i \in 1..k : fs[i] = gs[i] BY <1>1, CutFrames
<1>3. f.op \in Natives /\ f.cell \in Arrays BY <1>1, FrameKinds
<1>4. f.cell \in Cells BY <1>3 DEF Cells
<1>5. \A c \in Cells : gl[c] = IF c = f.cell THEN fl[c] - KeptBorrow(f.op) ELSE fl[c]
  BY <1>4
<1> HIDE DEF f, gs, gl, k, n
<1> SUFFICES ASSUME NEW c \in Cells
             PROVE  CellInv(gl[c], lk[c], Cardinality(KeepersIn(gs, c, Len(gs), Excl)),
                            Cardinality(KeepersIn(gs, c, Len(gs), Shared)))
  BY DEF BorrowInv, f, gs, n, k, gl
<1> DEFINE e == Cardinality(KeepersIn(fs, c, n, Excl))
           s == Cardinality(KeepersIn(fs, c, n, Shared))
           d == Cardinality(KeepersIn(gs, c, k, Excl))
           r == Cardinality(KeepersIn(gs, c, k, Shared))
<1>6. d \in Nat /\ r \in Nat BY <1>1, KeeperCounts
<1>7. CellInv(fl[c], lk[c], e, s) BY DEF BorrowInv, n
<1>8. /\ e = d + (IF f.cell = c /\ KeptBorrow(f.op) = Excl THEN 1 ELSE 0)
      /\ s = r + (IF f.cell = c /\ KeptBorrow(f.op) = Shared THEN 1 ELSE 0)
  <2>1. KeepersIn(gs, c, k, Excl) = KeepersIn(fs, c, k, Excl) BY <1>1, <1>2, KeepersAgree
  <2>2. KeepersIn(gs, c, k, Shared) = KeepersIn(fs, c, k, Shared) BY <1>1, <1>2, KeepersAgree
  <2>3. IsNative(f) /\ f = fs[n] BY DEF f, n
  <2>4. e = Cardinality(KeepersIn(fs, c, n - 1, Excl))
              + (IF IsNative(fs[n]) /\ fs[n].cell = c /\ KeptBorrow(fs[n].op) = Excl THEN 1 ELSE 0)
    BY <1>1, KeepersStep
  <2>5. s = Cardinality(KeepersIn(fs, c, n - 1, Shared))
              + (IF IsNative(fs[n]) /\ fs[n].cell = c /\ KeptBorrow(fs[n].op) = Shared THEN 1 ELSE 0)
    BY <1>1, KeepersStep
  <2>6. n - 1 = k BY DEF k
  <2> QED BY <2>1, <2>2, <2>3, <2>4, <2>5, <2>6
<1>9. fl[c] \in Int /\ lk[c] \in Int OBVIOUS
<1> HIDE DEF e, s, d, r
<1>10. CellInv(gl[c], lk[c], d, r)
  <2>1. CASE c # f.cell BY <2>1, <1>5, <1>6, <1>7, <1>8
  <2>2. CASE c = f.cell
    <3>1. KeptBorrow(f.op) \in {Excl, Shared, Released} BY <1>3, KeptKinds
    <3>2. CASE KeptBorrow(f.op) = Excl
      <4>1. e = d + 1 /\ s = r BY <3>2, <2>2, <1>6, <1>8, KindsDiffer
      <4>2. gl[c] = fl[c] - Excl BY <3>2, <2>2, <1>5
      <4>3. CellInv(fl[c], lk[c], d + 1, r) BY <4>1, <1>7
      <4> QED BY <4>2, <4>3, <1>6, <1>9, CellGiven
    <3>3. CASE KeptBorrow(f.op) = Shared
      <4>1. e = d /\ s = r + 1 BY <3>3, <2>2, <1>6, <1>8, KindsDiffer
      <4>2. gl[c] = fl[c] - Shared BY <3>3, <2>2, <1>5
      <4>3. CellInv(fl[c], lk[c], d, r + 1) BY <4>1, <1>7
      <4> QED BY <4>2, <4>3, <1>6, <1>9, CellGiven
    <3>4. CASE KeptBorrow(f.op) = Released
      <4>1. e = d /\ s = r BY <3>4, <2>2, <1>6, <1>8, KindsDiffer
      <4>2. gl[c] = fl[c] - Released BY <3>4, <2>2, <1>5
      <4>3. CellInv(fl[c], lk[c], d, r) BY <4>1, <1>7
      <4> QED BY <4>2, <4>3, <1>6, <1>9, CellGiven
    <3> QED BY <3>1, <3>2, <3>3, <3>4
  <2> QED BY <2>1, <2>2
<1> QED BY <1>2, <1>10 DEF d, r

(* Try statements keep no borrow.                                           *)
LEMMA BorrowsUnderTry ==
    ASSUME NEW fs \in Seq(Frames), NEW fl, NEW lk, BorrowInv(fs, fl, lk),
           NEW f \in Frames, ~IsNative(f)
    PROVE  BorrowInv(Append(fs, f), fl, lk)
<1> DEFINE gs == Append(fs, f)
           n == Len(fs)
<1>1. Len(gs) = n + 1 /\ gs[n + 1] = f /\ n \in Nat /\ \A i \in 1..n : fs[i] = gs[i]
  BY PushedFrames
<1>2. 1..(n + 1) = (1..n) \cup {n + 1} BY <1>1
<1> HIDE DEF gs, n
<1>3. \A c, how : KeepersIn(gs, c, n + 1, how) = KeepersIn(fs, c, n, how)
  BY <1>1, <1>2 DEF KeepersIn
<1> QED BY <1>1, <1>3 DEF BorrowInv, gs, n

LEMMA BorrowsAfterTry ==
    ASSUME NEW fs \in Seq(Frames), NEW fl, NEW lk, BorrowInv(fs, fl, lk),
           Len(fs) > 0, ~IsNative(fs[Len(fs)])
    PROVE  BorrowInv(SubSeq(fs, 1, Len(fs) - 1), fl, lk)
<1> DEFINE k == Len(fs) - 1
           gs == SubSeq(fs, 1, k)
<1>1. k \in Nat /\ k \in 0..Len(fs) /\ Len(fs) = k + 1 OBVIOUS
<1>2. Len(gs) = k /\ \A i \in 1..k : fs[i] = gs[i] BY <1>1, CutFrames
<1>3. 1..(k + 1) = (1..k) \cup {k + 1} BY <1>1
<1> HIDE DEF gs, k
<1>4. \A c, how : KeepersIn(fs, c, k + 1, how) = KeepersIn(gs, c, k, how)
  BY <1>1, <1>2, <1>3 DEF KeepersIn
<1> QED BY <1>1, <1>2, <1>4 DEF BorrowInv, gs, k

(* An exception cuts the frames back to the first k: what they kept, and    *)
(* the borrow of the native that throws, is lost.                           *)
LEMMA BorrowsCut ==
    ASSUME frames \in Seq(Frames), flag \in [Cells -> Int], leaked \in [Cells -> Int],
           BorrowInv(frames, flag, leaked), NEW k \in 0..Len(frames),
           NEW own \in [Cells -> {Excl, Shared, Released}],
           \A c \in Cells : /\ own[c] = Excl => flag[c] = 0
                            /\ own[c] = Shared => flag[c] # Excl
    PROVE  LET lk == [c \in Cells |-> leaked[c] + (own[c] + Kept(c, k + 1, Len(frames)))]
           IN  /\ lk \in [Cells -> Int]
               /\ BorrowInv(SubSeq(frames, 1, k), [c \in Cells |-> flag[c] + own[c]], lk)
<1> DEFINE n == Len(frames)
           gs == SubSeq(frames, 1, k)
           up(c, how) == Cardinality(Keeping(c, k + 1, n, how))
           lk == [c \in Cells |-> leaked[c] + (own[c] + Kept(c, k + 1, n))]
           gl == [c \in Cells |-> flag[c] + own[c]]
<1>1. Len(gs) = k /\ k \in Nat /\ n \in Nat /\ \A i \in 1..k : frames[i] = gs[i]
  BY CutFrames
<1>2. \A c, how : up(c, how) \in Nat
  <2> SUFFICES ASSUME NEW c, NEW how PROVE up(c, how) \in Nat OBVIOUS
  <2>1. Keeping(c, k + 1, n, how) \in SUBSET (1..n) BY <1>1 DEF Keeping
  <2> QED BY <2>1, <1>1, CountsFinite
<1>3. \A c \in Cells : Kept(c, k + 1, n) = up(c, Shared) - up(c, Excl) BY DEF Kept
<1>4. \A c \in Cells : own[c] \in {-1, 0, 1} BY DEF Excl, Shared, Released
<1>5. lk \in [Cells -> Int]
  <2> SUFFICES ASSUME NEW c \in Cells
               PROVE  leaked[c] + (own[c] + Kept(c, k + 1, n)) \in Int
    OBVIOUS
  <2>1. up(c, Shared) \in Nat /\ up(c, Excl) \in Nat BY <1>2
  <2>2. leaked[c] \in Int OBVIOUS
  <2>3. own[c] \in Int
    <3>1. own[c] \in {-1, 0, 1} BY <1>4
    <3> QED BY <3>1
  <2> HIDE DEF up
  <2> QED BY <2>1, <2>2, <2>3, <1>3
<1>6. ASSUME NEW c \in Cells
      PROVE  CellInv(gl[c], lk[c], Cardinality(KeepersIn(gs, c, Len(gs), Excl)),
                     Cardinality(KeepersIn(gs, c, Len(gs), Shared)))
  <2> DEFINE e == Cardinality(KeepersIn(frames, c, n, Excl))
             s == Cardinality(KeepersIn(frames, c, n, Shared))
             d == Cardinality(KeepersIn(gs, c, k, Excl))
             r == Cardinality(KeepersIn(gs, c, k, Shared))
             ue == up(c, Excl)
             us == up(c, Shared)
  <2>1. d \in Nat /\ r \in Nat BY <1>1, KeeperCounts
  <2>2. ue \in Nat /\ us \in Nat BY <1>2
  <2>3. e = d + ue /\ s = r + us
    <3>1. KeepersIn(gs, c, k, Excl) = KeepersIn(frames, c, k, Excl)
      BY <1>1 DEF KeepersIn
    <3>2. KeepersIn(gs, c, k, Shared) = KeepersIn(frames, c, k, Shared)
      BY <1>1 DEF KeepersIn
    <3>3. e = Cardinality(KeepersIn(frames, c, k, Excl)) + ue BY <1>1, KeepersSplit
    <3>4. s = Cardinality(KeepersIn(frames, c, k, Shared)) + us BY <1>1, KeepersSplit
    <3> QED BY <3>1, <3>2, <3>3, <3>4
  <2>4. CellInv(flag[c], leaked[c], e, s) BY DEF BorrowInv
  <2>5. lk[c] = leaked[c] + (own[c] + (us - ue)) /\ gl[c] = flag[c] + own[c] BY <1>3
  <2>6. flag[c] \in Int /\ leaked[c] \in Int OBVIOUS
  <2>7. own[c] \in {-1, 0, 1} /\ (own[c] = -1 => flag[c] = 0) /\ (own[c] = 1 => flag[c] # -1)
    BY <1>4 DEF Excl, Shared
  <2> HIDE DEF e, s, d, r, ue, us, lk, gl
  <2>8. CellInv(flag[c], leaked[c], d + ue, r + us) BY <2>3, <2>4
  <2>9. CellInv(flag[c] + own[c], leaked[c] + (own[c] + (us - ue)), d, r)
    BY <2>1, <2>2, <2>6, <2>7, <2>8, CellLost
  <2>10. CellInv(gl[c], lk[c], d, r) BY <2>5, <2>9
  <2> QED BY <2>10, <1>1 DEF d, r
<1> QED BY <1>5, <1>6 DEF BorrowInv

-----------------------------------------------------------------------------
(* ---- steps ---------------------------------------------------------------- *)

(* As long as the process runs nothing has aborted.                         *)
LEMMA RunningExplains ==
    ASSUME status \in {"running", "exited"}
    PROVE  AbortsExplained
BY DEF AbortsExplained

LEMMA CellKept ==
    ASSUME Books, NEW c \in Cells
    PROVE  LET e == Cardinality(Keeping(c, 1, Depth, Excl))
               s == Cardinality(Keeping(c, 1, Depth, Shared))
           IN  /\ e \in Nat /\ s \in Nat
               /\ CellInv(flag[c], leaked[c], e, s)
               /\ Kept(c, 1, Depth) = s - e
               /\ flag[c] \in Int /\ leaked[c] \in Int
<1>1. Len(frames) \in Nat BY DEF Books, Types
<1>2. /\ KeepersIn(frames, c, Len(frames), Excl) = Keeping(c, 1, Depth, Excl)
      /\ KeepersIn(frames, c, Len(frames), Shared) = Keeping(c, 1, Depth, Shared)
  BY DEF KeepersIn, Keeping, Depth
<1>3. /\ Cardinality(KeepersIn(frames, c, Len(frames), Excl)) \in Nat
      /\ Cardinality(KeepersIn(frames, c, Len(frames), Shared)) \in Nat
  BY <1>1, KeeperCounts
<1>4. flag[c] \in Int /\ leaked[c] \in Int BY DEF Books, Types
<1>5. Kept(c, 1, Depth) = Cardinality(Keeping(c, 1, Depth, Shared))
                            - Cardinality(Keeping(c, 1, Depth, Excl))
  BY DEF Kept
<1> QED BY <1>2, <1>3, <1>4, <1>5 DEF Books, BorrowInv

(* The flag counts the borrows kept and lost.                               *)
LEMMA FlagIsSum ==
    ASSUME Books, NEW c \in Cells
    PROVE  flag[c] = leaked[c] + Kept(c, 1, Depth)
BY CellKept DEF CellInv, Excl

(* No native keeps the borrow of a socket, so a socket in use was left by   *)
(* an exception.                                                            *)
LEMMA SocketFlag ==
    ASSUME Books, NEW s \in Sockets
    PROVE  s \in Cells /\ leaked[s] = flag[s]
<1>1. s \in Cells BY DEF Cells
<1>2. /\ Cardinality(KeepersIn(frames, s, Len(frames), Excl)) = 0
      /\ Cardinality(KeepersIn(frames, s, Len(frames), Shared)) = 0
  BY SocketsUnkept DEF Books, Types
<1>3. CellInv(flag[s], leaked[s], 0, 0) BY <1>1, <1>2 DEF Books, BorrowInv
<1>4. flag[s] \in Int /\ leaked[s] \in Int BY <1>1 DEF Books, Types
<1> QED BY <1>1, <1>3, <1>4 DEF CellInv, Excl

(* A panic changes nothing else, so what explains it stays.                 *)
LEMMA AbortKeepsBooks ==
    ASSUME Books, NEW where \in Aborts, Abort(where)
    PROVE  Books'
BY DEF Books, Types, Abort, BorrowInv, Aborts

LEMMA ArrayAbort ==
    ASSUME Books, NEW a \in Arrays, flag[a] # 0, Abort("array")
    PROVE  IInv'
<1>1. Books' BY AbortKeepsBooks DEF Aborts
<1>2. a \in Cells BY DEF Cells
<1>3. leaked[a] # 0 \/ Kept(a, 1, Depth) # 0
  <2>1. flag[a] = leaked[a] + Kept(a, 1, Depth) BY <1>2, FlagIsSum
  <2> QED BY <2>1
<1>4. AbortsExplained' BY <1>3 DEF AbortsExplained, Abort, Kept, Keeping, Depth
<1> QED BY <1>1, <1>4 DEF IInv

LEMMA SocketAbort ==
    ASSUME Books, NEW s \in Sockets, flag[s] # 0, Abort("socket")
    PROVE  IInv'
<1>1. Books' BY AbortKeepsBooks DEF Aborts
<1>2. leaked[s] # 0 BY SocketFlag
<1>3. AbortsExplained' BY <1>2 DEF AbortsExplained, Abort
<1> QED BY <1>1, <1>3 DEF IInv

LEMMA EnterNativeStep ==
    ASSUME IInv, NEW op \in Natives, NEW a \in Arrays, EnterNative(op, a)
    PROVE  IInv'
<1> USE DEF IInv
<1>1. CASE CanBorrow(a, KeptBorrow(op))
  <2> DEFINE f == [op |-> op, cell |-> a]
  <2>1. /\ Running /\ Depth < MaxFrames
        /\ frames' = Append(frames, f)
        /\ flag' = [flag EXCEPT ![a] = @ + KeptBorrow(op)]
        /\ defer' = IF Guarded(op) THEN defer + 1 ELSE defer
        /\ UNCHANGED <<handlers, pending, closed, status, leaked>>
    BY <1>1 DEF EnterNative
  <2>2. f \in Frames /\ IsNative(f) /\ f.op = op BY DEF Frames, IsNative, Natives
  <2>3. /\ frames' \in Seq(Frames) /\ Len(frames') = Len(frames) + 1 /\ frames'[Len(frames) + 1] = f
        /\ \A i \in 1..Len(frames) : frames[i] = frames'[i]
        /\ Len(frames) \in Nat /\ Len(frames) + 1 \in Nat \ {0} /\ (Len(frames) + 1) - 1 = Len(frames)
    BY <2>1, <2>2, PushedFrames DEF Books, Types
  <2>4. defer' = Cardinality(GuardsIn(frames', Len(frames')))
    <3>1. GuardsIn(frames', Len(frames)) = GuardsIn(frames, Len(frames)) BY <2>3, CountsAgree
    <3>2. defer = Cardinality(GuardsIn(frames, Len(frames))) BY DEF Books
    <3>3. Cardinality(GuardsIn(frames', Len(frames) + 1)) =
             Cardinality(GuardsIn(frames', (Len(frames) + 1) - 1))
               + (IF Guarded(frames'[Len(frames) + 1].op) THEN 1 ELSE 0)
      BY <2>3, GuardsStep
    <3>4. Cardinality(GuardsIn(frames, Len(frames))) \in Nat
      BY <2>3, AreSubsets, CountsFinite
    <3> QED BY <2>1, <2>2, <2>3, <3>1, <3>2, <3>3, <3>4
  <2>5. HandlerInv(frames', handlers')
    BY <2>1, <2>2, HandlersUnderNative DEF Books, Types
  <2>6. BorrowInv(frames', flag', leaked')
    <3>1. IF KeptBorrow(op) = Excl THEN flag[a] = 0 ELSE flag[a] # Excl
      BY <1>1 DEF CanBorrow, borrowOk, borrowMutOk
    <3>2. frames \in Seq(Frames) /\ flag \in [Cells -> Int] /\ leaked \in [Cells -> Int]
            /\ BorrowInv(frames, flag, leaked)
      BY DEF Books, Types
    <3>3. BorrowInv(Append(frames, f), [flag EXCEPT ![a] = @ + KeptBorrow(op)], leaked)
      BY <3>1, <3>2, BorrowsPush
    <3> QED BY <2>1, <3>3
  <2>7. Types'
    <3>1. KeptBorrow(op) \in Int BY KeptKinds DEF Excl, Shared, Released
    <3>2. flag' \in [Cells -> Int]
      <4>1. a \in Cells /\ flag \in [Cells -> Int] BY DEF Cells, Books, Types
      <4>2. flag[a] + KeptBorrow(op) \in Int BY <3>1, <4>1
      <4> QED BY <4>1, <4>2, <2>1
    <3>3. Len(frames') <= MaxFrames BY <2>1, <2>3, BoundsAssumption DEF Depth
    <3> QED BY <2>1, <2>3, <3>2, <3>3 DEF Books, Types
  <2>8. AbortsExplained'
    <3>1. status' = "running" BY <2>1 DEF Running
    <3> QED BY <3>1 DEF AbortsExplained
  <2> QED BY <2>4, <2>5, <2>6, <2>7, <2>8 DEF Books
<1>2. CASE ~CanBorrow(a, KeptBorrow(op))
  <2>1. Abort("array") BY <1>2 DEF EnterNative
  <2>2. flag[a] # 0 BY <1>2 DEF CanBorrow, borrowOk, borrowMutOk, Excl
  <2> QED BY <2>1, <2>2, ArrayAbort
<1> QED BY <1>1, <1>2

LEMMA ReturnNativeStep ==
    ASSUME IInv, ReturnNative
    PROVE  IInv'
<1> USE DEF IInv
<1> DEFINE n == Len(frames)
           f == frames[n]
<1>1. /\ Running /\ n > 0 /\ IsNative(f)
      /\ frames' = SubSeq(frames, 1, n - 1)
      /\ flag' = [flag EXCEPT ![f.cell] = @ - KeptBorrow(f.op)]
      /\ defer' = IF Guarded(f.op) THEN defer - 1 ELSE defer
      /\ UNCHANGED <<handlers, pending, closed, status, leaked>>
  BY DEF ReturnNative, Top, Depth
<1>2. /\ frames \in Seq(Frames) /\ flag \in [Cells -> Int] /\ leaked \in [Cells -> Int]
      /\ BorrowInv(frames, flag, leaked) /\ HandlerInv(frames, handlers)
      /\ n <= MaxFrames
  BY DEF Books, Types
<1>3. n \in Nat \ {0} /\ n - 1 \in 0..n /\ n \in 1..n /\ n - 1 \in Nat BY <1>1, <1>2
<1>4. /\ frames' \in Seq(Frames) /\ Len(frames') = n - 1
      /\ \A i \in 1..(n - 1) : frames[i] = frames'[i]
  BY <1>1, <1>2, <1>3, CutFrames
<1>5. f.op \in Natives /\ f.cell \in Arrays BY <1>1, <1>2, <1>3, FrameKinds
<1>6. defer' = Cardinality(GuardsIn(frames', Len(frames')))
  <2>1. GuardsIn(frames', n - 1) = GuardsIn(frames, n - 1) BY <1>3, <1>4, CountsAgree
  <2>2. defer = Cardinality(GuardsIn(frames, n)) BY DEF Books
  <2>3. Cardinality(GuardsIn(frames, n)) =
           Cardinality(GuardsIn(frames, n - 1)) + (IF Guarded(frames[n].op) THEN 1 ELSE 0)
    BY <1>3, GuardsStep
  <2>4. Cardinality(GuardsIn(frames, n - 1)) \in Nat BY <1>3, AreSubsets, CountsFinite
  <2> QED BY <1>1, <1>4, <2>1, <2>2, <2>3, <2>4
<1>7. HandlerInv(frames', handlers') BY <1>1, <1>2, HandlersAfterNative
<1>8. BorrowInv(frames', flag', leaked') BY <1>1, <1>2, BorrowsPop
<1>9. Types'
  <2>1. f.cell \in Cells BY <1>5 DEF Cells
  <2>2. KeptBorrow(f.op) \in Int BY <1>5, KeptKinds DEF Excl, Shared, Released
  <2>3. flag[f.cell] - KeptBorrow(f.op) \in Int BY <1>2, <2>1, <2>2
  <2>4. flag' \in [Cells -> Int] BY <1>1, <1>2, <2>3
  <2>5. Len(frames') <= MaxFrames BY <1>2, <1>3, <1>4, BoundsAssumption
  <2> QED BY <1>1, <1>4, <2>4, <2>5 DEF Books, Types
<1>10. AbortsExplained'
  <2>1. status' = "running" BY <1>1 DEF Running
  <2> QED BY <2>1 DEF AbortsExplained
<1> QED BY <1>6, <1>7, <1>8, <1>9, <1>10 DEF Books

LEMMA PushHandlerStep ==
    ASSUME IInv, push_handler
    PROVE  IInv'
<1> USE DEF IInv
<1> DEFINE f == [op |-> "try"]
           n == Len(frames)
<1>1. /\ Running /\ n < MaxFrames
      /\ frames' = Append(frames, f)
      /\ handlers' = Append(handlers, [at |-> n + 1, depth |-> defer])
      /\ UNCHANGED <<flag, defer, pending, closed, status, leaked>>
  BY DEF push_handler, Depth
<1>2. f \in Frames /\ ~IsNative(f) /\ ~Guarded(f.op) BY DEF Frames, IsNative, Guarded
<1>3. /\ frames \in Seq(Frames) /\ defer = Cardinality(GuardsIn(frames, n))
      /\ BorrowInv(frames, flag, leaked) /\ HandlerInv(frames, handlers)
  BY DEF Books, Types
<1>4. /\ frames' \in Seq(Frames) /\ Len(frames') = n + 1 /\ frames'[n + 1] = f
      /\ \A i \in 1..n : frames[i] = frames'[i]
      /\ n \in Nat /\ n + 1 \in Nat \ {0} /\ (n + 1) - 1 = n
  BY <1>1, <1>2, <1>3, PushedFrames
<1>5. defer' = Cardinality(GuardsIn(frames', Len(frames')))
  <2>1. GuardsIn(frames', n) = GuardsIn(frames, n) BY <1>4, CountsAgree
  <2>2. Cardinality(GuardsIn(frames', n + 1)) =
           Cardinality(GuardsIn(frames', (n + 1) - 1))
             + (IF Guarded(frames'[n + 1].op) THEN 1 ELSE 0)
    BY <1>4, GuardsStep
  <2>3. Cardinality(GuardsIn(frames, n)) \in Nat BY <1>4, AreSubsets, CountsFinite
  <2> QED BY <1>1, <1>2, <1>3, <1>4, <2>1, <2>2, <2>3
<1>6. HandlerInv(frames', handlers') BY <1>1, <1>2, <1>3, HandlersUnderTry
<1>7. BorrowInv(frames', flag', leaked') BY <1>1, <1>2, <1>3, BorrowsUnderTry
<1>8. Types' BY <1>1, <1>4, BoundsAssumption DEF Books, Types
<1>9. AbortsExplained'
  <2>1. status' = "running" BY <1>1 DEF Running
  <2> QED BY <2>1 DEF AbortsExplained
<1> QED BY <1>5, <1>6, <1>7, <1>8, <1>9 DEF Books

LEMMA PopHandlerStep ==
    ASSUME IInv, pop_handler
    PROVE  IInv'
<1> USE DEF IInv
<1> DEFINE n == Len(frames)
           h == handlers[Len(handlers)]
<1>1. /\ Running /\ n > 0 /\ frames[n].op = "try"
      /\ frames' = SubSeq(frames, 1, n - 1)
      /\ handlers' = SubSeq(handlers, 1, Len(handlers) - 1)
      /\ UNCHANGED <<flag, defer, pending, closed, status, leaked>>
  BY DEF pop_handler, Top, Depth
<1>2. /\ frames \in Seq(Frames) /\ defer = Cardinality(GuardsIn(frames, n)) /\ n <= MaxFrames
      /\ BorrowInv(frames, flag, leaked) /\ HandlerInv(frames, handlers)
  BY DEF Books, Types
<1>3. ~IsNative(frames[n]) /\ ~Guarded(frames[n].op) BY <1>1 DEF IsNative, Guarded
<1>4. n \in Nat \ {0} /\ n - 1 \in 0..n /\ n \in 1..n /\ n - 1 \in Nat BY <1>1, <1>2
<1>5. /\ frames' \in Seq(Frames) /\ Len(frames') = n - 1
      /\ \A i \in 1..(n - 1) : frames[i] = frames'[i]
  BY <1>1, <1>2, <1>4, CutFrames
<1>6. n \in TriesIn(frames, n) BY <1>3, <1>4 DEF TriesIn
<1>7. handlers # <<>> /\ h.at = n
  <2>1. handlers # <<>>
    <3>1. n \in {handlers[k].at : k \in 1..Len(handlers)} BY <1>2, <1>6 DEF HandlerInv
    <3>2. \E k \in 1..Len(handlers) : TRUE BY <3>1
    <3> QED BY <3>2
  <2>2. h.at \in 1..n /\ n <= h.at BY <1>2, <1>6, <2>1, LastHandler
  <2>3. h.at = n BY <1>4, <2>2
  <2> QED BY <2>1, <2>3
<1>8. HandlerInv(frames', handlers') BY <1>1, <1>2, <1>7, HandlersAfterCut
<1>9. defer' = Cardinality(GuardsIn(frames', Len(frames')))
  <2>1. GuardsIn(frames', n - 1) = GuardsIn(frames, n - 1) BY <1>4, <1>5, CountsAgree
  <2>2. Cardinality(GuardsIn(frames, n)) =
           Cardinality(GuardsIn(frames, n - 1)) + (IF Guarded(frames[n].op) THEN 1 ELSE 0)
    BY <1>4, GuardsStep
  <2>3. Cardinality(GuardsIn(frames, n - 1)) \in Nat BY <1>4, AreSubsets, CountsFinite
  <2> QED BY <1>1, <1>2, <1>3, <1>5, <2>1, <2>2, <2>3
<1>10. BorrowInv(frames', flag', leaked') BY <1>1, <1>2, <1>3, BorrowsAfterTry
<1>11. Types' BY <1>1, <1>2, <1>4, <1>5, BoundsAssumption DEF Books, Types
<1>12. AbortsExplained'
  <2>1. status' = "running" BY <1>1 DEF Running
  <2> QED BY <2>1 DEF AbortsExplained
<1> QED BY <1>8, <1>9, <1>10, <1>11, <1>12 DEF Books

(* A throw: every exception of the program and of the natives.              *)
LEMMA ThrowStep ==
    ASSUME IInv, Running, NEW own \in [Cells -> {Excl, Shared, Released}], throw(own),
           \A c \in Cells : /\ own[c] = Excl => flag[c] = 0
                            /\ own[c] = Shared => flag[c] # Excl
    PROVE  IInv'
<1> USE DEF IInv
<1>1. CASE handlers = <<>>
  <2>1. status' = "exited" /\ UNCHANGED <<frames, handlers, flag, defer, pending, closed, leaked>>
    BY <1>1 DEF throw
  <2>2. Books' BY <2>1 DEF Books, Types, BorrowInv
  <2>3. AbortsExplained' BY <2>1 DEF AbortsExplained
  <2> QED BY <2>2, <2>3
<1>2. CASE handlers # <<>>
  <2> DEFINE h == handlers[Len(handlers)]
             k == h.at - 1
             lk == [c \in Cells |-> leaked[c] + (own[c] + Kept(c, k + 1, Len(frames)))]
  <2>1. /\ frames \in Seq(Frames) /\ Len(frames) <= MaxFrames
        /\ flag \in [Cells -> Int] /\ leaked \in [Cells -> Int]
        /\ BorrowInv(frames, flag, leaked) /\ HandlerInv(frames, handlers)
    BY DEF Books, Types
  <2>2. h.at \in 1..Len(frames) /\ k \in 0..Len(frames) /\ h.depth = Cardinality(GuardsIn(frames, k))
    BY <1>2, <2>1, LastHandler
  <2>3. k + 1 = h.at /\ k \in Nat BY <2>1, <2>2
  <2>4. /\ frames' = SubSeq(frames, 1, k)
        /\ handlers' = SubSeq(handlers, 1, Len(handlers) - 1)
        /\ defer' = h.depth
        /\ flag' = [c \in Cells |-> flag[c] + own[c]]
        /\ UNCHANGED <<pending, closed, status>>
    BY <1>2 DEF throw, unwind
  <2>5. leaked' = lk /\ \A c \in Cells : lk[c] <= MaxLeaks
    <3>1. unwind(own) BY <1>2 DEF throw
    <3> QED BY <3>1, <2>3 DEF unwind, Depth
  <2>6. /\ frames' \in Seq(Frames) /\ Len(frames') = k
        /\ \A i \in 1..k : frames[i] = frames'[i]
    BY <2>1, <2>2, <2>4, CutFrames
  <2>7. defer' = Cardinality(GuardsIn(frames', Len(frames')))
    <3>1. GuardsIn(frames', k) = GuardsIn(frames, k) BY <2>3, <2>6, CountsAgree
    <3> QED BY <2>2, <2>4, <2>6, <3>1
  <2>8. HandlerInv(frames', handlers') BY <1>2, <2>1, <2>4, HandlersAfterCut
  <2>9. lk \in [Cells -> Int] /\ BorrowInv(frames', flag', lk)
    <3> HIDE DEF k, h
    <3> QED BY <2>1, <2>2, <2>4, BorrowsCut
  <2>10. flag' \in [Cells -> Int]
    <3> SUFFICES ASSUME NEW c \in Cells PROVE flag[c] + own[c] \in Int BY <2>4
    <3>1. own[c] \in {-1, 0, 1} BY DEF Excl, Shared, Released
    <3> QED BY <3>1, <2>1
  <2>11. Types'
    <3>1. Len(frames') <= MaxFrames BY <2>1, <2>2, <2>6, BoundsAssumption
    <3> HIDE DEF lk
    <3> QED BY <2>4, <2>5, <2>6, <2>9, <2>10, <3>1 DEF Books, Types
  <2>12. AbortsExplained'
    <3>1. status' = "running" BY <2>4 DEF Running
    <3> QED BY <3>1 DEF AbortsExplained
  <2> HIDE DEF lk
  <2> QED BY <2>5, <2>7, <2>8, <2>9, <2>11, <2>12 DEF Books
<1> QED BY <1>1, <1>2

(* A safepoint that finds an array mutably borrowed is below the default    *)
(* sort, or an exception left one: every other writer holds a guard.        *)
LEMMA SafepointAbort ==
    ASSUME Books, defer = 0, NEW a \in Arrays, flag[a] = Excl
    PROVE  leaked[a] = Excl \/ \E i \in 1..Depth : frames[i] = [op |-> "sort", cell |-> a]
<1>1. a \in Cells BY DEF Cells
<1> DEFINE W == Keeping(a, 1, Depth, Excl)
<1>2. /\ Cardinality(W) \in Nat /\ CellInv(flag[a], leaked[a], Cardinality(W),
                                           Cardinality(Keeping(a, 1, Depth, Shared)))
      /\ Cardinality(Keeping(a, 1, Depth, Shared)) \in Nat /\ leaked[a] \in Int
  BY <1>1, CellKept
<1> HIDE DEF W
<1>3. leaked[a] = Excl \/ Cardinality(W) = 1 BY <1>2 DEF CellInv, Excl
<1>4. CASE Cardinality(W) = 1
  <2>1. W # {} BY <1>4, FS_EmptySet
  <2>2. PICK i \in 1..Depth :
           IsNative(frames[i]) /\ frames[i].cell = a /\ KeptBorrow(frames[i].op) = Excl
    BY <2>1 DEF W, Keeping
  <2>3. Len(frames) \in Nat /\ frames \in Seq(Frames) /\ i \in 1..Len(frames)
    BY <2>2 DEF Books, Types, Depth
  <2>4. GuardsIn(frames, Len(frames)) = {}
    <3>1. IsFiniteSet(GuardsIn(frames, Len(frames))) BY <2>3, AreSubsets, CountsFinite
    <3>2. Cardinality(GuardsIn(frames, Len(frames))) = 0 BY DEF Books
    <3> QED BY <3>1, <3>2, FS_EmptySet
  <2>5. ~Guarded(frames[i].op) BY <2>3, <2>4 DEF GuardsIn
  <2>6. frames[i] \in Frames /\ frames[i].op \in Natives BY <2>2, <2>3, FrameKinds
  <2>7. frames[i].op = "sort"
    BY <2>2, <2>5, <2>6 DEF Natives, KeptBorrow, Guarded, Excl, Shared, Released
  <2>8. frames[i] = [op |-> "sort", cell |-> a]
    <3>1. frames[i] \in [op : Natives, cell : Arrays] BY <2>6 DEF Frames, Natives
    <3> QED BY <3>1, <2>2, <2>7
  <2> QED BY <2>2, <2>8
<1> QED BY <1>3, <1>4

LEMMA CollectStep ==
    ASSUME IInv, Running, NEW where \in {"safepoint", "System.gc"}, collect(where),
           where = "safepoint" => defer = 0
    PROVE  IInv'
<1> USE DEF IInv
<1>1. PICK traced \in SUBSET Arrays :
         IF \A a \in traced : borrowOk(a)
         THEN /\ pending' = FALSE
              /\ UNCHANGED <<frames, handlers, flag, defer, closed, status, leaked>>
         ELSE Abort(where)
  BY DEF collect
<1>2. CASE \A a \in traced : borrowOk(a)
  <2>1. pending' = FALSE /\ UNCHANGED <<frames, handlers, flag, defer, closed, status, leaked>>
    BY <1>1, <1>2
  <2>2. Books' BY <2>1 DEF Books, Types, BorrowInv
  <2>3. status' = "running" BY <2>1 DEF Running
  <2>4. AbortsExplained' BY <2>3 DEF AbortsExplained
  <2> QED BY <2>2, <2>4
<1>3. CASE \E a \in traced : ~borrowOk(a)
  <2>1. Abort(where) BY <1>1, <1>3
  <2>2. PICK a \in Arrays : flag[a] = Excl BY <1>3 DEF borrowOk
  <2>3. Books' BY <2>1, AbortKeepsBooks DEF Aborts
  <2>4. CASE where = "safepoint"
    <3>1. leaked[a] = Excl \/ \E i \in 1..Depth : frames[i] = [op |-> "sort", cell |-> a]
      BY <2>2, <2>4, SafepointAbort
    <3>2. AbortsExplained' BY <2>1, <2>4, <3>1 DEF AbortsExplained, Abort, Depth
    <3> QED BY <2>3, <3>2
  <2>5. CASE where = "System.gc"
    <3>1. status' = "System.gc" BY <2>1, <2>5 DEF Abort
    <3>2. AbortsExplained' BY <3>1 DEF AbortsExplained
    <3> QED BY <2>3, <3>2
  <2> QED BY <2>4, <2>5
<1> QED BY <1>2, <1>3

LEMMA SocketOpStep ==
    ASSUME IInv, NEW s \in Sockets, StreamOp(s) \/ accept(s) \/ local_port(s) \/ close(s)
    PROVE  IInv'
<1> USE DEF IInv
<1>1. Running BY DEF StreamOp, accept, local_port, close
<1>2. CASE Abort("socket") /\ flag[s] # 0 BY <1>2, SocketAbort
<1>3. CASE throw(Borrowing(s, Excl)) /\ flag[s] = 0
  <2>1. Borrowing(s, Excl) \in [Cells -> {Excl, Shared, Released}]
        /\ \A c \in Cells : /\ Borrowing(s, Excl)[c] = Excl => flag[c] = 0
                            /\ Borrowing(s, Excl)[c] = Shared => flag[c] # Excl
    BY <1>3 DEF Borrowing, Excl, Shared, Released
  <2> QED BY <1>1, <1>3, <2>1, ThrowStep
<1>4. CASE throw(Borrowing(s, Shared)) /\ flag[s] # Excl
  <2>1. Borrowing(s, Shared) \in [Cells -> {Excl, Shared, Released}]
        /\ \A c \in Cells : /\ Borrowing(s, Shared)[c] = Excl => flag[c] = 0
                            /\ Borrowing(s, Shared)[c] = Shared => flag[c] # Excl
    BY <1>4 DEF Borrowing, Excl, Shared, Released
  <2> QED BY <1>1, <1>4, <2>1, ThrowStep
<1>5. CASE /\ closed' = closed \cup {s}
           /\ UNCHANGED <<frames, handlers, flag, defer, pending, status, leaked>>
  <2>1. Books' BY <1>5 DEF Books, Types, BorrowInv
  <2>2. status' = "running" BY <1>1, <1>5 DEF Running
  <2>3. AbortsExplained' BY <2>2 DEF AbortsExplained
  <2> QED BY <2>1, <2>3
<1>6. StreamOp(s) => (throw(Borrowing(s, Excl)) /\ flag[s] = 0) \/ (Abort("socket") /\ flag[s] # 0)
  BY DEF StreamOp, borrowMutOk
<1>7. accept(s) => (throw(Borrowing(s, Shared)) /\ flag[s] # Excl) \/ (Abort("socket") /\ flag[s] # 0)
  BY DEF accept, borrowOk, Excl
<1>8. local_port(s) => Abort("socket") /\ flag[s] # 0
  BY DEF local_port, borrowOk, Excl
<1>9. close(s) => \/ Abort("socket") /\ flag[s] # 0
                  \/ /\ closed' = closed \cup {s}
                     /\ UNCHANGED <<frames, handlers, flag, defer, pending, status, leaked>>
  BY DEF close, borrowMutOk
<1> QED BY <1>2, <1>3, <1>4, <1>5, <1>6, <1>7, <1>8, <1>9

-----------------------------------------------------------------------------
(* ---- the theorems ---------------------------------------------------------- *)

LEMMA InitHolds == Init => IInv
<1> SUFFICES ASSUME Init PROVE IInv OBVIOUS
<1>1. /\ frames = <<>> /\ handlers = <<>> /\ flag = [c \in Cells |-> 0] /\ defer = 0
      /\ pending = FALSE /\ closed = {} /\ status = "running" /\ leaked = [c \in Cells |-> 0]
  BY DEF Init
<1>2. Len(frames) = 0 /\ frames \in Seq(Frames) BY <1>1
<1>3. Types
  <2>1. Len(frames) <= MaxFrames /\ MaxLeaks >= 0 BY <1>2, BoundsAssumption
  <2>2. flag \in [Cells -> Int] /\ leaked \in [Cells -> Int] BY <1>1
  <2>3. \A c \in Cells : leaked[c] <= MaxLeaks BY <1>1, <2>1
  <2>4. pending \in BOOLEAN /\ closed \in SUBSET Sockets /\ status \in {"running", "exited"} \cup Aborts
    BY <1>1
  <2> QED BY <1>2, <2>1, <2>2, <2>3, <2>4 DEF Types
<1>4. GuardsIn(frames, 0) = {} /\ TriesIn(frames, 0) = {} BY DEF GuardsIn, TriesIn
<1>5. defer = Cardinality(GuardsIn(frames, Len(frames))) BY <1>1, <1>2, <1>4, FS_EmptySet
<1>6. HandlerInv(frames, handlers)
  <2>1. handlers \in Seq([at : Nat, depth : Nat]) /\ Len(handlers) = 0 BY <1>1
  <2>2. {handlers[k].at : k \in 1..Len(handlers)} = {} BY <2>1
  <2> QED BY <2>1, <2>2, <1>2, <1>4 DEF HandlerInv
<1>7. BorrowInv(frames, flag, leaked)
  <2> SUFFICES ASSUME NEW c \in Cells
               PROVE  CellInv(flag[c], leaked[c], Cardinality(KeepersIn(frames, c, Len(frames), Excl)),
                              Cardinality(KeepersIn(frames, c, Len(frames), Shared)))
    BY DEF BorrowInv
  <2>1. KeepersIn(frames, c, 0, Excl) = {} /\ KeepersIn(frames, c, 0, Shared) = {} BY DEF KeepersIn
  <2>2. /\ Cardinality(KeepersIn(frames, c, Len(frames), Excl)) = 0
        /\ Cardinality(KeepersIn(frames, c, Len(frames), Shared)) = 0
    BY <2>1, <1>2, FS_EmptySet
  <2>3. flag[c] = 0 /\ leaked[c] = 0 BY <1>1
  <2>4. CellInv(0, 0, 0, 0) BY DEF CellInv
  <2> QED BY <2>2, <2>3, <2>4
<1>8. AbortsExplained BY <1>1, RunningExplains
<1> QED BY <1>3, <1>5, <1>6, <1>7, <1>8 DEF IInv, Books

LEMMA NextKeeps == IInv /\ [Next]_vars => IInv'
<1> SUFFICES ASSUME IInv, [Next]_vars PROVE IInv' OBVIOUS
<1> USE DEF IInv
<1>1. ASSUME NEW a \in Arrays, ReadArray(a) PROVE IInv'
  BY <1>1, ArrayAbort DEF ReadArray, borrowOk, Excl
<1>2. ASSUME NEW a \in Arrays, WriteArray(a) PROVE IInv'
  BY <1>2, ArrayAbort DEF WriteArray, borrowMutOk
<1>3. ASSUME NEW op \in Natives, NEW a \in Arrays, EnterNative(op, a) PROVE IInv'
  BY <1>3, EnterNativeStep
<1>4. CASE ReturnNative BY <1>4, ReturnNativeStep
<1>5. CASE push_handler BY <1>5, PushHandlerStep
<1>6. CASE pop_handler BY <1>6, PopHandlerStep
<1>7. CASE Throw
  <2>1. NoBorrow \in [Cells -> {Excl, Shared, Released}]
        /\ \A c \in Cells : NoBorrow[c] # Excl /\ NoBorrow[c] # Shared
    BY DEF NoBorrow, Excl, Shared, Released
  <2> QED BY <1>7, <2>1, ThrowStep DEF Throw
<1>8. ASSUME NEW s \in Sockets, StreamOp(s) \/ accept(s) \/ local_port(s) \/ close(s) PROVE IInv'
  BY <1>8, SocketOpStep
<1>9. CASE CrossThreshold
  <2>1. pending' = TRUE /\ UNCHANGED <<frames, handlers, flag, defer, closed, status, leaked>>
    BY <1>9 DEF CrossThreshold
  <2>2. Books' BY <2>1 DEF Books, Types, BorrowInv
  <2>3. status' = "running" BY <1>9, <2>1 DEF CrossThreshold, Running
  <2>4. AbortsExplained' BY <2>3 DEF AbortsExplained
  <2> QED BY <2>2, <2>4
<1>10. CASE safepoint BY <1>10, CollectStep DEF safepoint
<1>11. CASE SystemGc BY <1>11, CollectStep DEF SystemGc
<1>12. CASE UNCHANGED vars
  BY <1>12 DEF vars, Books, Types, BorrowInv, AbortsExplained, Kept, Keeping, Depth
<1>13. Streams \subseteq Sockets /\ Listeners \subseteq Sockets BY DEF Sockets
<1> QED
  BY <1>1, <1>2, <1>3, <1>4, <1>5, <1>6, <1>7, <1>8, <1>9, <1>10, <1>11, <1>12, <1>13 DEF Next

LEMMA BooksImplyHandlers == Books => HandlersAreLive
<1> SUFFICES ASSUME Books PROVE HandlersAreLive OBVIOUS
<1>1. HandlerInv(frames, handlers) BY DEF Books
<1> QED BY <1>1 DEF HandlerInv, HandlersAreLive, TriesIn, GuardsIn, Depth

LEMMA BooksImplyBorrows == Books => BorrowsAccounted
<1> SUFFICES ASSUME Books, NEW c \in Cells
             PROVE  /\ flag[c] = leaked[c] + Kept(c, 1, Depth)
                    /\ Cardinality(Keeping(c, 1, Depth, Excl)) + (IF leaked[c] = Excl THEN 1 ELSE 0) <= 1
                    /\ flag[c] = Excl => Keeping(c, 1, Depth, Shared) = {} /\ leaked[c] <= 0
  BY DEF BorrowsAccounted
<1> DEFINE E == Keeping(c, 1, Depth, Excl)
           S == Keeping(c, 1, Depth, Shared)
<1>1. flag[c] = leaked[c] + Kept(c, 1, Depth) BY FlagIsSum
<1>2. /\ Cardinality(E) \in Nat /\ Cardinality(S) \in Nat
      /\ CellInv(flag[c], leaked[c], Cardinality(E), Cardinality(S))
      /\ flag[c] \in Int /\ leaked[c] \in Int
  BY CellKept
<1>3. IsFiniteSet(S)
  <2>1. Len(frames) \in Nat BY DEF Books, Types
  <2>2. S \in SUBSET (1..Len(frames)) BY DEF Keeping, Depth
  <2> QED BY <2>1, <2>2, CountsFinite
<1> HIDE DEF E, S
<1>4. Cardinality(E) + (IF leaked[c] = Excl THEN 1 ELSE 0) <= 1 BY <1>2 DEF CellInv, Excl
<1>5. flag[c] = Excl => Cardinality(S) = 0 /\ leaked[c] <= 0 BY <1>2 DEF CellInv, Excl
<1>6. Cardinality(S) = 0 => S = {} BY <1>3, FS_EmptySet
<1> QED BY <1>1, <1>4, <1>5, <1>6 DEF E, S

LEMMA ElementOf ==
    ASSUME NEW S, NEW s \in Seq(S), NEW k \in 1..Len(s)
    PROVE  s[k] \in S
OBVIOUS

LEMMA SeqRetype ==
    ASSUME NEW S, NEW T, NEW s \in Seq(S), \A k \in 1..Len(s) : s[k] \in T
    PROVE  s \in Seq(T)
OBVIOUS

LEMMA BooksImplyTypes == Books => TypeOK
<1> SUFFICES ASSUME Books PROVE TypeOK OBVIOUS
<1> DEFINE n == Len(frames)
<1>1. Types /\ n \in Nat /\ n <= MaxFrames BY DEF Books, Types
<1>2. 0..n \subseteq 0..MaxFrames /\ 1..n \subseteq 1..MaxFrames BY <1>1, BoundsAssumption
<1>3. defer \in 0..MaxFrames
  <2>1. Cardinality(GuardsIn(frames, n)) \in 0..n BY <1>1, AreSubsets, CountsFinite
  <2> QED BY <2>1, <1>2 DEF Books
<1>4. handlers \in Seq([at : 1..MaxFrames, depth : 0..MaxFrames])
  <2>1. frames \in Seq(Frames) /\ HandlerInv(frames, handlers) BY DEF Books, Types
  <2>2. handlers \in Seq([at : Nat, depth : Nat]) /\ Len(handlers) \in Nat BY <2>1, HandlerTypes
  <2>3. ASSUME NEW k \in 1..Len(handlers)
        PROVE  handlers[k] \in [at : 1..MaxFrames, depth : 0..MaxFrames]
    <3>1. handlers[k] \in [at : Nat, depth : Nat] BY <2>2, ElementOf
    <3>2. handlers[k].at \in 1..n BY <2>1, HandlerTypes
    <3>3. handlers[k].at - 1 \in Nat /\ handlers[k].at - 1 <= n BY <1>1, <3>2
    <3>4. Cardinality(GuardsIn(frames, handlers[k].at - 1)) \in 0..(handlers[k].at - 1)
      BY <3>3, AreSubsets, CountsFinite
    <3>5. handlers[k].depth = Cardinality(GuardsIn(frames, handlers[k].at - 1))
      BY <2>1 DEF HandlerInv
    <3>6. handlers[k].depth \in 0..n BY <1>1, <3>3, <3>4, <3>5
    <3> QED BY <1>2, <3>1, <3>2, <3>6
  <2> QED BY <2>2, <2>3, SeqRetype
<1>5. ASSUME NEW c \in Cells
      PROVE  flag[c] \in Excl..(MaxFrames + MaxLeaks) /\ leaked[c] \in Excl..MaxLeaks
  <2> DEFINE e == Cardinality(Keeping(c, 1, Depth, Excl))
             s == Cardinality(Keeping(c, 1, Depth, Shared))
  <2>1. e \in Nat /\ CellInv(flag[c], leaked[c], e, s) /\ flag[c] \in Int /\ leaked[c] \in Int
    BY CellKept
  <2>2. Keeping(c, 1, Depth, Shared) \in SUBSET (1..n) BY DEF Keeping, Depth
  <2>3. s \in 0..n BY <1>1, <2>2, CountsFinite
  <2>4. leaked[c] <= MaxLeaks BY <1>1 DEF Types
  <2> HIDE DEF e, s, n
  <2> QED BY <1>1, <2>1, <2>3, <2>4, BoundsAssumption DEF CellInv, Excl
<1>6. flag \in [Cells -> Excl..(MaxFrames + MaxLeaks)] /\ leaked \in [Cells -> Excl..MaxLeaks]
  BY <1>1, <1>5 DEF Types
<1> QED BY <1>1, <1>3, <1>4, <1>6 DEF Types, TypeOK

LEMMA InvariantHolds == Spec => []IInv
BY InitHolds, NextKeeps, PTL DEF Spec

(* The runtime's stacks, depths and borrow flags keep their types.          *)
THEOREM TypeCorrect == Spec => []TypeOK
<1>1. IInv => TypeOK BY BooksImplyTypes DEF IInv
<1> QED BY <1>1, InvariantHolds, PTL

(* A throw always lands in a live try statement, and with the depth of the  *)
(* guards outside of it, whatever natives it leaves (exc.rs).               *)
THEOREM HandlersCorrect == Spec => []HandlersAreLive
<1>1. IInv => HandlersAreLive BY BooksImplyHandlers DEF IInv
<1> QED BY <1>1, InvariantHolds, PTL

(* No interleaving of natives, callbacks and throws loses or invents a      *)
(* borrow, but for those that exceptions have left (ffi.rs, socket.rs).     *)
THEOREM BorrowsCorrect == Spec => []BorrowsAccounted
<1>1. IInv => BorrowsAccounted BY BooksImplyBorrows DEF IInv
<1> QED BY <1>1, InvariantHolds, PTL

(* The process aborts only for the reasons AbortsExplained lists.           *)
THEOREM AbortsCorrect == Spec => []AbortsExplained
<1>1. IInv => AbortsExplained BY DEF IInv
<1> QED BY <1>1, InvariantHolds, PTL
=============================================================================
