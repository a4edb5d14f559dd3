------------------------------ MODULE SeqLemmas ------------------------------
(***************************************************************************)
(* What the list operations of the runtime's worklists and stacks do to    *)
(* the set of elements of a list, and what a loop over a list computes.    *)
(* Induction and recursion up to a number are stated with sets and         *)
(* functions instead of operators, the form the provers can instantiate;   *)
(* both rest on the least element of a nonempty set of numbers.            *)
(***************************************************************************)
EXTENDS Integers, Sequences, Functions, WellFoundedInduction, TLAPS

(* An element of a list is one of its elements. *)
LEMMA InRange ==
    ASSUME NEW S, NEW s \in Seq(S), NEW i \in 1..Len(s)
    PROVE  s[i] \in Range(s)
BY DEF Range

(* Depositing a list adds its elements. *)
LEMMA RangeConcat ==
    ASSUME NEW S, NEW s \in Seq(S), NEW t \in Seq(S)
    PROVE  /\ s \o t \in Seq(S)
           /\ Range(s \o t) = Range(s) \cup Range(t)
<1>1. s \o t \in Seq(S) OBVIOUS
<1>2. \A i \in 1..Len(s) : (s \o t)[i] = s[i] OBVIOUS
<1>3. \A i \in 1..Len(t) : (s \o t)[Len(s) + i] = t[i] OBVIOUS
<1>4. Range(s \o t) \subseteq Range(s) \cup Range(t)
  <2> SUFFICES ASSUME NEW i \in 1..Len(s) + Len(t)
               PROVE  (s \o t)[i] \in Range(s) \cup Range(t)
    BY DEF Range
  <2>1. CASE i \leq Len(s) BY <2>1 DEF Range
  <2>2. CASE i > Len(s)
    <3>1. i - Len(s) \in 1..Len(t) BY <2>2
    <3>2. (s \o t)[i] = t[i - Len(s)] BY <2>2
    <3> QED BY <3>1, <3>2 DEF Range
  <2> QED BY <2>1, <2>2
<1>5. Range(s) \subseteq Range(s \o t) BY <1>2 DEF Range
<1>6. Range(t) \subseteq Range(s \o t)
  <2> SUFFICES ASSUME NEW i \in 1..Len(t) PROVE t[i] \in Range(s \o t)
    BY DEF Range
  <2>1. Len(s) + i \in 1..Len(s \o t) OBVIOUS
  <2> QED BY <2>1, <1>3 DEF Range
<1> QED BY <1>1, <1>4, <1>5, <1>6

(* Pushing one block adds it. *)
LEMMA RangeAppend ==
    ASSUME NEW S, NEW s \in Seq(S), NEW x \in S
    PROVE  /\ Append(s, x) \in Seq(S)
           /\ Range(Append(s, x)) = Range(s) \cup {x}
<1>1. Append(s, x) \in Seq(S) /\ Len(Append(s, x)) = Len(s) + 1 OBVIOUS
<1>2. \A i \in 1..Len(s) : Append(s, x)[i] = s[i] OBVIOUS
<1>3. Append(s, x)[Len(s) + 1] = x OBVIOUS
<1> QED BY <1>1, <1>2, <1>3 DEF Range

(* Splitting a list off at k loses nothing and invents nothing. *)
LEMMA RangeSplit ==
    ASSUME NEW S, NEW s \in Seq(S), NEW k \in 0..Len(s)
    PROVE  /\ SubSeq(s, 1, k) \in Seq(S)
           /\ SubSeq(s, k + 1, Len(s)) \in Seq(S)
           /\ Range(s) = Range(SubSeq(s, 1, k)) \cup Range(SubSeq(s, k + 1, Len(s)))
<1> DEFINE a == SubSeq(s, 1, k)
           b == SubSeq(s, k + 1, Len(s))
<1>1. a \in Seq(S) /\ Len(a) = k /\ \A i \in 1..k : a[i] = s[i] OBVIOUS
<1>2. b \in Seq(S) /\ Len(b) = Len(s) - k /\ \A i \in 1..(Len(s) - k) : b[i] = s[k + i]
  OBVIOUS
<1> HIDE DEF a, b
<1>3. Range(a) \subseteq Range(s) BY <1>1 DEF Range
<1>4. Range(b) \subseteq Range(s)
  <2> SUFFICES ASSUME NEW i \in 1..(Len(s) - k) PROVE b[i] \in Range(s)
    BY <1>2 DEF Range
  <2>1. k + i \in 1..Len(s) OBVIOUS
  <2> QED BY <2>1, <1>2 DEF Range
<1>5. Range(s) \subseteq Range(a) \cup Range(b)
  <2> SUFFICES ASSUME NEW i \in 1..Len(s) PROVE s[i] \in Range(a) \cup Range(b)
    BY DEF Range
  <2>1. CASE i \leq k BY <2>1, <1>1 DEF Range
  <2>2. CASE i > k
    <3>1. i - k \in 1..(Len(s) - k) BY <2>2
    <3>2. b[i - k] = s[i] BY <3>1, <1>2
    <3> QED BY <3>1, <3>2, <1>2 DEF Range
  <2> QED BY <2>1, <2>2
<1>6. Range(s) = Range(a) \cup Range(b) BY <1>3, <1>4, <1>5
<1> QED BY <1>1, <1>2, <1>6 DEF a, b

(* Taking the first element. *)
LEMMA RangeHeadTail ==
    ASSUME NEW S, NEW s \in Seq(S), s # <<>>
    PROVE  /\ Head(s) \in S
           /\ Tail(s) \in Seq(S)
           /\ Range(s) = {Head(s)} \cup Range(Tail(s))
<1>1. Len(s) \in Nat \ {0} /\ Head(s) = s[1] OBVIOUS
<1>2. Tail(s) \in Seq(S) /\ Len(Tail(s)) = Len(s) - 1 OBVIOUS
<1>3. \A i \in 1..(Len(s) - 1) : Tail(s)[i] = s[i + 1] OBVIOUS
<1>4. Range(s) \subseteq {Head(s)} \cup Range(Tail(s))
  <2> SUFFICES ASSUME NEW i \in 1..Len(s) PROVE s[i] \in {Head(s)} \cup Range(Tail(s))
    BY DEF Range
  <2>1. CASE i = 1 BY <2>1, <1>1
  <2>2. CASE i # 1
    <3>1. i - 1 \in 1..(Len(s) - 1) BY <2>2, <1>1
    <3>2. Tail(s)[i - 1] = s[(i - 1) + 1] BY <3>1, <1>3
    <3>3. i - 1 \in 1..Len(Tail(s)) BY <3>1, <1>2
    <3>4. Tail(s)[i - 1] \in Range(Tail(s)) BY <3>3, <1>2, InRange
    <3> QED BY <3>2, <3>4
  <2> QED BY <2>1, <2>2
<1>5. Range(Tail(s)) \subseteq Range(s)
  <2> SUFFICES ASSUME NEW i \in 1..(Len(s) - 1) PROVE Tail(s)[i] \in Range(s)
    BY <1>2 DEF Range
  <2>1. i + 1 \in 1..Len(s) BY <1>1
  <2> QED BY <2>1, <1>3 DEF Range
<1>6. Head(s) \in Range(s) BY <1>1 DEF Range
<1>7. Head(s) \in S BY <1>1
<1> QED BY <1>2, <1>4, <1>5, <1>6, <1>7

(* Popping the last element, as serial_mark does. *)
LEMMA RangePop ==
    ASSUME NEW S, NEW s \in Seq(S), s # <<>>
    PROVE  /\ SubSeq(s, 1, Len(s) - 1) \in Seq(S)
           /\ s[Len(s)] \in S
           /\ Range(s) = Range(SubSeq(s, 1, Len(s) - 1)) \cup {s[Len(s)]}
<1>1. PICK k \in Nat : Len(s) = k + 1
  <2>1. Len(s) \in Nat \ {0} OBVIOUS
  <2> QED BY <2>1, Len(s) - 1 \in Nat, Len(s) = (Len(s) - 1) + 1
<1>2. Len(s) - 1 = k BY <1>1
<1> DEFINE a == SubSeq(s, 1, k)
<1>3. a \in Seq(S) /\ Len(a) = k /\ \A i \in 1..k : a[i] = s[i] BY <1>1
<1>4. s[k + 1] \in S BY <1>1
<1> HIDE DEF a
<1>5. Range(s) = Range(a) \cup {s[k + 1]} BY <1>1, <1>3 DEF Range
<1> QED BY <1>1, <1>2, <1>3, <1>4, <1>5 DEF a

(* What holds of 0, and of i + 1 whenever of i, holds up to n: no loop     *)
(* iteration is the first to break what each iteration keeps.              *)
LEMMA Induction ==
  ASSUME NEW n \in Nat, NEW S, 0 \in S, \A i \in 0 .. n - 1 : i \in S => i + 1 \in S
  PROVE  0 .. n \subseteq S
<1> DEFINE T == {i \in 0 .. n : i \notin S}
<1>1. SUFFICES ASSUME T # {} PROVE FALSE OBVIOUS
<1>2. IsWellFoundedOn({p \in Nat \X Nat : p[1] < p[2]}, Nat)
  BY NatLessThanWellFounded DEF OpToRel
<1>3. PICK x \in T : \A y \in T : ~ (<<y, x>> \in {p \in Nat \X Nat : p[1] < p[2]})
  <2>1. T \subseteq Nat OBVIOUS
  <2> HIDE DEF T
  <2> QED BY <1>1, <1>2, <2>1, WFMin
<1>4. x \in 0 .. n /\ x \notin S /\ x # 0 OBVIOUS
<1>5. x - 1 \in 0 .. n - 1 /\ x - 1 \in Nat /\ x \in Nat /\ x - 1 < x /\ x - 1 + 1 = x BY <1>4
<1>6. <<x - 1, x>> \in {p \in Nat \X Nat : p[1] < p[2]} BY <1>5
<1>7. x - 1 \notin T BY <1>3, <1>6
<1>8. x - 1 \in S BY <1>7, <1>5
<1> QED BY <1>4, <1>5, <1>8

(* The values a loop passes through.                                       *)
IsRun(g, n, T, b, step) ==
  /\ g \in [0 .. n -> T]
  /\ g[0] = b /\ \A i \in 1 .. n : g[i] = step[<<g[i - 1], i>>]

(* A loop that starts from b and takes step number i by the function step  *)
(* passes through a sequence of values: a recursive definition is a        *)
(* function.                                                               *)
LEMMA Recursion ==
  ASSUME NEW n \in Nat, NEW T, NEW b \in T, NEW step \in [T \X (1 .. n) -> T]
  PROVE  \E g : IsRun(g, n, T, b, step)
<1> DEFINE Is(g, k) == g[0] = b /\ \A i \in 1 .. k : g[i] = step[<<g[i - 1], i>>]
           S == {k \in 0 .. n : \E g \in [0 .. k -> T] : Is(g, k)}
<1>1. 0 \in S
  <2> DEFINE g == [i \in 0 .. 0 |-> b]
  <2>1. g \in [0 .. 0 -> T] OBVIOUS
  <2>2. g[0] = b OBVIOUS
  <2>3. Is(g, 0)
    <3> HIDE DEF g
    <3> QED BY <2>2
  <2>4. 0 \in 0 .. n OBVIOUS
  <2> HIDE DEF g, Is
  <2> QED BY <2>1, <2>3, <2>4
<1>2. ASSUME NEW k \in 0 .. n - 1, k \in S PROVE k + 1 \in S
  <2>1. PICK g \in [0 .. k -> T] : Is(g, k) BY <1>2
  <2> DEFINE h == [i \in 0 .. k + 1 |-> IF i <= k THEN g[i] ELSE step[<<g[k], k + 1>>]]
  <2>2. h \in [0 .. k + 1 -> T] OBVIOUS
  <2>3. h[0] = b BY <2>1
  <2>4. ASSUME NEW i \in 1 .. k + 1 PROVE h[i] = step[<<h[i - 1], i>>]
    <3>1. CASE i <= k BY <3>1, <2>1
    <3>2. CASE i = k + 1 BY <3>2
    <3> QED BY <3>1, <3>2
  <2>5. Is(h, k + 1) BY <2>3, <2>4
  <2>6. k + 1 \in 0 .. n OBVIOUS
  <2> QED BY <2>2, <2>5, <2>6
<1>3. 0 .. n \subseteq S
  <2> HIDE DEF S
  <2> QED BY <1>1, <1>2, Induction
<1>4. n \in S
  <2> HIDE DEF S
  <2> QED BY <1>3
<1> QED BY <1>4 DEF IsRun


(* A list without repetitions, and one in which y never comes before x.    *)
Once(s)         == \A i, j \in 1 .. Len(s) : s[i] = s[j] => i = j
Before(s, x, y) == \A i, j \in 1 .. Len(s) : s[i] = x /\ s[j] = y => i < j

(* An element of two lists in a row is one of the first or of the second.  *)
LEMMA ConcatIs ==
  ASSUME NEW S, NEW s \in Seq(S), NEW t \in Seq(S), NEW i \in 1 .. Len(s \o t)
  PROVE  \/ i \in 1 .. Len(s) /\ (s \o t)[i] = s[i]
         \/ i \notin 1 .. Len(s) /\ i - Len(s) \in 1 .. Len(t) /\ (s \o t)[i] = t[i - Len(s)]
OBVIOUS

(* Two lists in a row repeat nothing if neither does and they share nothing.*)
LEMMA OnceConcat ==
  ASSUME NEW S, NEW s \in Seq(S), NEW t \in Seq(S), Once(s), Once(t), Range(s) \cap Range(t) = {}
  PROVE  Once(s \o t)
<1> DEFINE u == s \o t
           n == Len(s)
<1>1. n \in Nat /\ \A i \in 1 .. Len(u) : i \in Int OBVIOUS
<1>2. \A i \in 1 .. Len(u) : \/ i \in 1 .. n /\ u[i] = s[i]
                             \/ i - n \in 1 .. Len(t) /\ u[i] = t[i - n]
  BY ConcatIs
<1>3. (\A i \in 1 .. n : s[i] \in Range(s)) /\ \A i \in 1 .. Len(t) : t[i] \in Range(t) BY InRange
<1> SUFFICES ASSUME NEW i \in 1 .. Len(u), NEW j \in 1 .. Len(u), u[i] = u[j] PROVE i = j BY DEF Once
<1> HIDE DEF u, n
<1>4. CASE i \in 1 .. n /\ j \in 1 .. n /\ u[i] = s[i] /\ u[j] = s[j] BY <1>4 DEF Once, n
<1>5. CASE i - n \in 1 .. Len(t) /\ j - n \in 1 .. Len(t) /\ u[i] = t[i - n] /\ u[j] = t[j - n]
  <2>1. i - n = j - n BY <1>5 DEF Once
  <2> QED BY <1>1, <2>1
<1>6. CASE i \in 1 .. n /\ u[i] = s[i] /\ j - n \in 1 .. Len(t) /\ u[j] = t[j - n]
  <2>1. u[i] \in Range(s) /\ u[j] \in Range(t) BY <1>3, <1>6
  <2> QED BY <2>1
<1>7. CASE j \in 1 .. n /\ u[j] = s[j] /\ i - n \in 1 .. Len(t) /\ u[i] = t[i - n]
  <2>1. u[j] \in Range(s) /\ u[i] \in Range(t) BY <1>3, <1>7
  <2> QED BY <2>1
<1> QED BY <1>2, <1>4, <1>5, <1>6, <1>7

(* What is not in a list comes before everything.                          *)
LEMMA BeforeAbsent ==
  ASSUME NEW S, NEW s \in Seq(S), NEW x, NEW y, x \notin Range(s) \/ y \notin Range(s)
  PROVE  Before(s, x, y)
<1>1. \A i \in 1 .. Len(s) : s[i] \in Range(s) BY InRange
<1> QED BY <1>1 DEF Before

(* An order is that of two lists in a row, unless x is only in the second. *)
LEMMA BeforeConcat ==
  ASSUME NEW S, NEW s \in Seq(S), NEW t \in Seq(S), NEW x, NEW y,
         Before(s, x, y), Before(t, x, y), x \notin Range(t) \/ y \notin Range(s)
  PROVE  Before(s \o t, x, y)
<1> DEFINE u == s \o t
           n == Len(s)
<1>1. n \in Nat /\ \A i \in 1 .. Len(u) : i \in Int OBVIOUS
<1>2. \A i \in 1 .. Len(u) : \/ i \in 1 .. n /\ u[i] = s[i]
                             \/ i - n \in 1 .. Len(t) /\ u[i] = t[i - n]
  BY ConcatIs
<1>3. (\A i \in 1 .. n : s[i] \in Range(s)) /\ \A i \in 1 .. Len(t) : t[i] \in Range(t) BY InRange
<1> SUFFICES ASSUME NEW i \in 1 .. Len(u), NEW j \in 1 .. Len(u), u[i] = x, u[j] = y PROVE i < j BY DEF Before
<1> HIDE DEF u, n
<1>4. CASE i \in 1 .. n /\ j \in 1 .. n /\ u[i] = s[i] /\ u[j] = s[j] BY <1>4 DEF Before, n
<1>5. CASE i - n \in 1 .. Len(t) /\ j - n \in 1 .. Len(t) /\ u[i] = t[i - n] /\ u[j] = t[j - n]
  <2>1. i - n < j - n BY <1>5 DEF Before
  <2> QED BY <1>1, <2>1
<1>6. CASE i \in 1 .. n /\ j - n \in 1 .. Len(t)
  <2>1. i <= n /\ j > n BY <1>1, <1>6
  <2> QED BY <1>1, <2>1
<1>7. CASE j \in 1 .. n /\ u[j] = s[j] /\ i - n \in 1 .. Len(t) /\ u[i] = t[i - n]
  <2>1. y \in Range(s) /\ x \in Range(t) BY <1>3, <1>7
  <2> QED BY <2>1
<1> QED BY <1>2, <1>4, <1>5, <1>6, <1>7
=============================================================================
