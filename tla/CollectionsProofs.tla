--------------------------- MODULE CollectionsProofs ---------------------------
(***************************************************************************)
(* The invariants of Collections, and that every step of the runtime's     *)
(* arrays, vectors and dynamic objects is a step of the sequences that     *)
(* SequenceSpec promises, proved for every program whose calls the checker *)
(* lets through, every literal, every element and every length.  First     *)
(* what the runtime functions do to the contents of an array, a vector or  *)
(* an object, one lemma per function.                                      *)
(***************************************************************************)
EXTENDS Collections, SeqLemmas, SequenceTheorems, FiniteSetTheorems, TLAPS

USE ModulusAssumption, CollectionsAssumption

(* A converted element: storing it again changes nothing. *)
Elements(kind) == {v \in Values : Stored(kind, v) = v}

(* A vector: its cells up to the length are converted elements. *)
Buffer(s) ==
  /\ s \in [kind : Vectors, cells : Seq(Values \cup {Garbage}), len : Nat]
  /\ s.len <= Len(s.cells)
  /\ \A i \in 1 .. s.len : s.cells[i] \in Elements(s.kind)
IsArray(s) == s \in [kind : {"Array"}, cells : Seq(Values), len : Nat] /\ s.len = Len(s.cells)

(* An object: no two pairs have the same key. *)
IsObject(s) ==
  /\ s \in [kind : {"Object"}, cells : Seq(Values \X Values), len : Nat] /\ s.len = Len(s.cells)
  /\ \A i, j \in 1 .. s.len : s.cells[i][1] = s.cells[j][1] => i = j

(* The sequence a vector stands for. *)
Held(s) == SubSeq(s.cells, 1, s.len)

-----------------------------------------------------------------------------
(* Values and their conversion. *)

(* The values, by their tags. *)
LEMMA ValueCases ==
  ASSUME NEW v \in Values
  PROVE  \/ v[1] \in {"num", "text", "object"} /\ v[2] \in Int /\ v = <<v[1], v[2]>>
         \/ v = NaN \/ v = Infinity \/ v = Undefined \/ v = Null
BY DEF Values

(* A number, NaN or infinity is what a value converts to, and is its own   *)
(* conversion.                                                             *)
LEMMA Numbers ==
  ASSUME NEW v \in Values
  PROVE  LET n == any_to_number(v) IN
         /\ n \in Values
         /\ n = NaN \/ n = Infinity \/ (IsNumber(n) /\ n[2] \in Int /\ n = N(n[2]))
         /\ any_to_number(n) = n
BY ValueCases DEF any_to_number, N, NaN, Infinity, IsNumber, Undefined, Null, Values

(* Residues. *)
LEMMA Residues ==
  ASSUME NEW x \in Int
  PROVE  /\ x % Modulus \in 0 .. Modulus - 1
         /\ x \in 0 .. Modulus - 1 => x % Modulus = x
         /\ Modulus \div 2 \in Nat
OBVIOUS

(* Storing twice is storing once. *)
LEMMA StoredIsElement ==
  ASSUME NEW kind \in Vectors, NEW v \in Values
  PROVE  Stored(kind, v) \in Elements(kind)
<1>1. to_uint32(any_to_number(v)) = N(0) \/ \E x \in Int : to_uint32(any_to_number(v)) = N(x % Modulus)
  <2> DEFINE n == any_to_number(v)
  <2>1. CASE IsNumber(n)
    <3>1. n[2] \in Int BY <2>1, Numbers DEF NaN, Infinity, IsNumber
    <3> QED BY <2>1, <3>1 DEF to_uint32
  <2>2. CASE ~IsNumber(n) BY <2>2 DEF to_uint32
  <2> QED BY <2>1, <2>2
<1>2. ASSUME NEW x \in Int PROVE N(x) \in Values /\ IsNumber(N(x)) /\ N(x)[2] = x /\ any_to_number(N(x)) = N(x)
  BY DEF N, Values, IsNumber, any_to_number
<1>3. CASE kind = "Number"
  BY <1>3, Numbers DEF Elements, Stored
<1>4. CASE kind = "uint"
  <2> DEFINE u(w) == to_uint32(any_to_number(w))
  <2>1. ASSUME NEW x \in 0 .. Modulus - 1 PROVE u(N(x)) = N(x) /\ N(x) \in Values
    BY <1>2, Residues DEF to_uint32
  <2>2. PICK x \in 0 .. Modulus - 1 : u(v) = N(x)
    BY <1>1, Residues
  <2>3. Stored(kind, v) = u(v) /\ Stored(kind, u(v)) = u(u(v))
    BY <1>4 DEF Stored
  <2> QED BY <2>1, <2>2, <2>3 DEF Elements
<1>5. CASE kind = "int"
  <2> DEFINE h == Modulus \div 2
             u(w) == to_int32(any_to_number(w))
  <2>1. ASSUME NEW y \in 0 .. Modulus - 1 PROVE u(N(y - h)) = N(y - h) /\ N(y - h) \in Values
    <3>1. h \in Int /\ y - h \in Int /\ (y - h) + h = y BY Residues
    <3>2. y % Modulus = y BY Residues
    <3>3. u(N(y - h)) = N((((y - h) + h) % Modulus) - h)
      BY <1>2, <3>1 DEF to_int32
    <3> QED BY <1>2, <3>1, <3>2, <3>3
  <2>2. PICK y \in 0 .. Modulus - 1 : u(v) = N(y - h)
    <3> DEFINE n == any_to_number(v)
    <3>1. CASE IsNumber(n)
      <4>1. n[2] \in Int BY <3>1, Numbers DEF NaN, Infinity, IsNumber
      <4>2. (n[2] + h) % Modulus \in 0 .. Modulus - 1 BY <4>1, Residues
      <4> QED BY <3>1, <4>2 DEF to_int32
    <3>2. CASE ~IsNumber(n)
      <4>1. u(v) = N(0) BY <3>2 DEF to_int32
      <4>2. h \in 0 .. Modulus - 1 /\ h - h = 0 OBVIOUS
      <4> QED BY <4>1, <4>2
    <3> QED BY <3>1, <3>2
  <2>3. Stored(kind, v) = u(v) /\ Stored(kind, u(v)) = u(u(v))
    BY <1>5 DEF Stored
  <2> QED BY <2>1, <2>2, <2>3 DEF Elements
<1>6. CASE kind = "C"
  BY <1>6 DEF Elements, Stored
<1> QED BY <1>3, <1>4, <1>5, <1>6 DEF Vectors, NumericVectors

(* What the pairs of the library's operators are. *)
LEMMA Extremes ==
  ASSUME NEW a \in Int, NEW b \in Int
  PROVE  /\ Max({a, b}) = (IF a < b THEN b ELSE a)
         /\ Min({a, b}) = (IF a < b THEN a ELSE b)
BY DEF Max, Min

-----------------------------------------------------------------------------
(* Vectors. *)

Cells == Values \cup {Garbage}
Record == [kind : Vectors, cells : Seq(Cells), len : Nat]

(* A vector stands for as many elements as its length says. *)
LEMMA HeldIs ==
  ASSUME NEW s, Buffer(s)
  PROVE  /\ s.kind \in Vectors /\ s.len \in Nat /\ s \in Record
         /\ Held(s) \in Seq(Elements(s.kind)) /\ Held(s) \in Seq(Values)
         /\ Len(Held(s)) = s.len
         /\ \A i \in 1 .. s.len : Held(s)[i] = s.cells[i] /\ s.cells[i] \in Elements(s.kind)
<1>1. s.kind \in Vectors /\ s.len \in Nat /\ s \in Record /\ s.len <= Len(s.cells) /\ s.cells \in Seq(Cells)
  BY DEF Buffer, Record, Cells
<1>2. \A i \in 1 .. s.len : s.cells[i] \in Elements(s.kind) BY DEF Buffer
<1>3. Elements(s.kind) \subseteq Values BY DEF Elements
<1> HIDE DEF Buffer, Elements
<1>4. Held(s) \in Seq(Elements(s.kind)) /\ Len(Held(s)) = s.len
  BY <1>1, <1>2, SubSeqProperties DEF Held
<1>5. \A i \in 1 .. s.len : Held(s)[i] = s.cells[i]
  BY <1>1, <1>2, SubSeqProperties DEF Held
<1> QED BY <1>1, <1>2, <1>3, <1>4, <1>5

(* Two vectors' contents are compared element by element. *)
LEMMA HeldEqual ==
  ASSUME NEW s, Buffer(s), NEW t \in Seq(Values), Len(t) = s.len,
         \A i \in 1 .. s.len : s.cells[i] = t[i]
  PROVE  Held(s) = t
BY HeldIs, SeqEqual

(* A vector's other fields stay when its buffer or its length is replaced. *)
LEMMA Fields ==
  ASSUME NEW v \in Record, NEW c \in Seq(Cells), NEW n \in Nat
  PROVE  /\ [v EXCEPT !.cells = c] = [kind |-> v.kind, cells |-> c, len |-> v.len]
         /\ [v EXCEPT !.len = n] = [kind |-> v.kind, cells |-> v.cells, len |-> n]
         /\ [[v EXCEPT !.len = n] EXCEPT !.cells = c] = [kind |-> v.kind, cells |-> c, len |-> n]
         /\ [kind |-> v.kind, cells |-> c, len |-> n] \in Record
         /\ [kind |-> v.kind, cells |-> c, len |-> v.len] \in Record
         /\ [kind |-> v.kind, cells |-> v.cells, len |-> n] \in Record
         /\ v.kind \in Vectors /\ v.cells \in Seq(Cells) /\ v.len \in Nat
<1> DEFINE C == Seq(Cells)
<1>1. Record = [kind : Vectors, cells : C, len : Nat] BY DEF Record
<1>2. c \in C OBVIOUS
<1> HIDE DEF C
<1>3. [v EXCEPT !.cells = c] = [kind |-> v.kind, cells |-> c, len |-> v.len] BY <1>1
<1>4. [v EXCEPT !.len = n] = [kind |-> v.kind, cells |-> v.cells, len |-> n] BY <1>1
<1>6. v.kind \in Vectors /\ v.cells \in C /\ v.len \in Nat BY <1>1
<1>5. [[v EXCEPT !.len = n] EXCEPT !.cells = c] = [kind |-> v.kind, cells |-> c, len |-> n]
  <2> DEFINE w == [v EXCEPT !.len = n]
  <2>1. w \in Record /\ w.kind = v.kind /\ w.len = n BY <1>1, <1>4, <1>6
  <2> HIDE DEF w
  <2>2. [w EXCEPT !.cells = c] = [kind |-> w.kind, cells |-> c, len |-> w.len] BY <1>1, <2>1
  <2> QED BY <2>1, <2>2 DEF w
<1>7. /\ [kind |-> v.kind, cells |-> c, len |-> n] \in Record
      /\ [kind |-> v.kind, cells |-> c, len |-> v.len] \in Record
      /\ [kind |-> v.kind, cells |-> v.cells, len |-> n] \in Record
  BY <1>1, <1>2, <1>6
<1> QED BY <1>3, <1>4, <1>5, <1>6, <1>7 DEF C

(* Both are replaced. *)
Resized(v, c, n) == [[v EXCEPT !.len = n] EXCEPT !.cells = c]

(* ... and the third field stays. *)
LEMMA ResizedIs ==
  ASSUME NEW v \in Record, NEW c \in Seq(Cells), NEW n \in Nat
  PROVE  /\ Resized(v, c, n) \in Record
         /\ Resized(v, c, n).kind = v.kind /\ Resized(v, c, n).cells = c /\ Resized(v, c, n).len = n
<1> DEFINE q == [kind |-> v.kind, cells |-> c, len |-> n]
<1>1. [[v EXCEPT !.len = n] EXCEPT !.cells = c] = q /\ q \in Record BY Fields
<1>2. Resized(v, c, n) = q BY <1>1 DEF Resized
<1>3. q.kind = v.kind /\ q.cells = c /\ q.len = n OBVIOUS
<1> HIDE DEF q
<1> QED BY <1>1, <1>2, <1>3

(* Setting the length of a buffer sets nothing else.                       *)
LEMMA LengthField ==
  ASSUME NEW v \in Record, NEW n \in Nat
  PROVE  LET w == [v EXCEPT !.len = n] IN
         /\ w = [kind |-> v.kind, cells |-> v.cells, len |-> n] /\ w \in Record
         /\ w.kind = v.kind /\ w.cells = v.cells /\ w.len = n
<1> DEFINE w == [v EXCEPT !.len = n]
<1>1. v.cells \in Seq(Cells) BY DEF Record
<1>2. w = [kind |-> v.kind, cells |-> v.cells, len |-> n] /\ [kind |-> v.kind, cells |-> v.cells, len |-> n] \in Record
  BY <1>1, Fields
<1> QED BY <1>2

(* Replacing the cells of a buffer replaces nothing else.                  *)
LEMMA CellsField ==
  ASSUME NEW v \in Record, NEW c \in Seq(Cells)
  PROVE  LET w == [v EXCEPT !.cells = c] IN
         /\ w = [kind |-> v.kind, cells |-> c, len |-> v.len] /\ w \in Record
         /\ w.kind = v.kind /\ w.cells = c /\ w.len = v.len
<1> DEFINE w == [v EXCEPT !.cells = c]
<1>1. v.len \in Nat BY DEF Record
<1>2. w = [kind |-> v.kind, cells |-> c, len |-> v.len] /\ [kind |-> v.kind, cells |-> c, len |-> v.len] \in Record
  BY <1>1, Fields
<1> QED BY <1>2

(* Reserving moves no element and leaves room. *)
LEMMA Reserve ==
  ASSUME NEW v \in Record, NEW need \in Nat
  PROVE  LET r == reserve(v, need) IN
         /\ r \in Record /\ r.kind = v.kind /\ r.len = v.len
         /\ Len(r.cells) >= need /\ Len(r.cells) >= Len(v.cells)
         /\ \A i \in 1 .. Len(v.cells) : r.cells[i] = v.cells[i]
<1>1. CASE need <= Len(v.cells) BY <1>1 DEF reserve, Record
<1>2. CASE need > Len(v.cells)
  <2> DEFINE cap == Len(v.cells)
             top == Max({need, 2 * cap, MinCapacity})
             new == [i \in 1 .. top - cap |-> Garbage]
  <2>1. v.cells \in Seq(Cells) /\ cap \in Nat BY DEF Record
  <2>2. top \in {need, 2 * cap, MinCapacity} /\ top >= need
    <3>1. \E x \in {need, 2 * cap, MinCapacity} : \A y \in {need, 2 * cap, MinCapacity} : x >= y
      BY <2>1
    <3> QED BY <3>1 DEF Max
  <2>3. top \in Nat BY <2>1, <2>2
  <2> HIDE DEF top
  <2>4. new \in Seq(Cells) /\ Len(new) = top - cap BY <2>2, <2>3, <2>1, <1>2 DEF Cells
  <2> HIDE DEF new
  <2>5. /\ v.cells \o new \in Seq(Cells) /\ Len(v.cells \o new) = top
        /\ \A i \in 1 .. cap : (v.cells \o new)[i] = v.cells[i]
    BY <2>1, <2>3, <2>4, ConcatProperties
  <2>6. reserve(v, need) = [v EXCEPT !.cells = v.cells \o new]
    BY <1>2, <2>1 DEF reserve, new, top
  <2> DEFINE r == [kind |-> v.kind, cells |-> v.cells \o new, len |-> v.len]
  <2>7. reserve(v, need) = r /\ r \in Record
    BY <2>5, <2>6, Fields
  <2>8. r.kind = v.kind /\ r.len = v.len /\ r.cells = v.cells \o new OBVIOUS
  <2> HIDE DEF r
  <2>9. top >= cap BY <1>2, <2>1, <2>2, <2>3
  <2> QED BY <2>2, <2>5, <2>7, <2>8, <2>9
<1> QED BY <1>1, <1>2 DEF Record

(* Pushing an element appends its conversion. *)
LEMMA PushAny ==
  ASSUME NEW v, Buffer(v), NEW x \in Values
  PROVE  LET p == push_any(v, x) IN
         /\ Buffer(p) /\ p.kind = v.kind /\ p.len = v.len + 1
         /\ Held(p) = Append(Held(v), Stored(v.kind, x))
         /\ \A i \in 1 .. v.len + 1 : p.cells[i] = IF i = v.len + 1 THEN Stored(v.kind, x) ELSE v.cells[i]
<1> DEFINE r == reserve(v, v.len + 1)
           e == Stored(v.kind, x)
           p == push_any(v, x)
<1>1. v \in Record /\ v.len \in Nat /\ v.kind \in Vectors /\ v.len <= Len(v.cells) BY DEF Buffer, Record, Cells
<1>2. e \in Elements(v.kind) /\ e \in Values BY <1>1, StoredIsElement DEF Elements
<1>3. /\ r \in Record /\ r.kind = v.kind /\ r.len = v.len /\ Len(r.cells) >= v.len + 1
      /\ \A i \in 1 .. v.len : r.cells[i] = v.cells[i]
  <2>1. v.len + 1 \in Nat BY <1>1
  <2> QED BY <1>1, <2>1, Reserve DEF Record
<1> HIDE DEF r, e
<1>4. p = [[r EXCEPT !.len = v.len + 1] EXCEPT !.cells = [r.cells EXCEPT ![v.len + 1] = e]]
  BY <1>3 DEF push_any, set_any, r, e, Record
<1>5. /\ r.cells \in Seq(Cells) /\ v.len + 1 \in 1 .. Len(r.cells) /\ e \in Cells
  BY <1>1, <1>2, <1>3 DEF Record, Cells
<1>6. /\ p \in Record /\ p.kind = v.kind /\ p.len = v.len + 1 /\ p.len <= Len(p.cells)
      /\ p.cells = [r.cells EXCEPT ![v.len + 1] = e]
  <2> DEFINE n == v.len + 1
             c == [r.cells EXCEPT ![n] = e]
  <2>1. c \in Seq(Cells) /\ Len(c) = Len(r.cells) BY <1>5, ExceptSeq
  <2>2. n \in Nat /\ n <= Len(r.cells) BY <1>1, <1>3
  <2>3. p = Resized(r, c, n) BY <1>4 DEF Resized
  <2>4. c = [r.cells EXCEPT ![v.len + 1] = e] /\ n = v.len + 1 OBVIOUS
  <2> HIDE DEF c, n, p
  <2>5. p \in Record /\ p.kind = r.kind /\ p.cells = c /\ p.len = n
    <3>1. r \in Record BY <1>3
    <3> QED BY <2>1, <2>2, <2>3, <3>1, ResizedIs
  <2> QED BY <1>3, <2>1, <2>2, <2>4, <2>5
<1>7. \A i \in 1 .. v.len + 1 : p.cells[i] = IF i = v.len + 1 THEN e ELSE v.cells[i]
  BY <1>1, <1>3, <1>5, <1>6
<1> HIDE DEF p
<1>8. \A i \in 1 .. v.len + 1 : p.cells[i] \in Elements(v.kind)
  BY <1>2, <1>7, HeldIs
<1>9. Buffer(p) BY <1>6, <1>8 DEF Buffer, Record, Cells
<1>10. Append(Held(v), e) = Held(p)
  <2>1. Held(v) \in Seq(Values) /\ Len(Held(v)) = v.len /\ \A i \in 1 .. v.len : Held(v)[i] = v.cells[i]
    BY HeldIs
  <2>2. /\ Append(Held(v), e) \in Seq(Values) /\ Len(Append(Held(v), e)) = v.len + 1
        /\ \A i \in 1 .. v.len + 1 : Append(Held(v), e)[i] = IF i = v.len + 1 THEN e ELSE v.cells[i]
    BY <1>1, <1>2, <2>1, AppendProperties
  <2> QED BY <1>6, <1>7, <1>9, <2>2, HeldEqual, ZenonT(30)
<1> QED BY <1>6, <1>7, <1>9, <1>10 DEF p, e

(* The elements as a vector of the kind stores them. *)
StoredAll(kind, xs) == [i \in 1 .. Len(xs) |-> Stored(kind, xs[i])]

(* Converting a sequence keeps it one, of the same length.                 *)
LEMMA StoredAllIs ==
  ASSUME NEW kind \in Vectors, NEW xs \in Seq(Values)
  PROVE  StoredAll(kind, xs) \in Seq(Values) /\ Len(StoredAll(kind, xs)) = Len(xs)
<1>1. \A i \in 1 .. Len(xs) : Stored(kind, xs[i]) \in Values
  BY StoredIsElement, ElementOfSeq DEF Elements
<1> QED BY <1>1 DEF StoredAll

(* The loop over the arguments is a sequence of pushes. *)
LEMMA PushSteps ==
  ASSUME NEW v, Buffer(v), NEW xs \in Seq(Values)
  PROVE  \E g : /\ g[0] = v
                /\ \A i \in 1 .. Len(xs) : g[i] = push_any(g[i - 1], xs[i])
                /\ push_all(v, xs) = g[Len(xs)]
<1> DEFINE n == Len(xs)
           T == {s \in Record : Buffer(s)}
           step == [p \in T \X (1 .. n) |-> push_any(p[1], xs[p[2]])]
           Is(g) == g = [i \in 0 .. n |-> IF i = 0 THEN v ELSE push_any(g[i - 1], xs[i])]
<1>1. n \in Nat /\ v \in T BY HeldIs
<1>2. \A p \in T \X (1 .. n) : push_any(p[1], xs[p[2]]) \in T
  <2> SUFFICES ASSUME NEW s \in T, NEW i \in 1 .. n PROVE push_any(s, xs[i]) \in T OBVIOUS
  <2>1. xs[i] \in Values /\ Buffer(s) BY ElementOfSeq
  <2>2. Buffer(push_any(s, xs[i])) BY <2>1, PushAny
  <2> QED BY <2>2, HeldIs
<1> HIDE DEF T
<1>3. step \in [T \X (1 .. n) -> T] BY <1>2
<1>4. PICK g : IsRun(g, n, T, v, step)
  <2> HIDE DEF step, n
  <2> QED BY <1>1, <1>3, Recursion
<1>5. \A i \in 1 .. n : g[i] = push_any(g[i - 1], xs[i])
  <2> SUFFICES ASSUME NEW i \in 1 .. n PROVE g[i] = push_any(g[i - 1], xs[i]) OBVIOUS
  <2>0. i - 1 \in 0 .. n BY <1>1
  <2>1. g[i - 1] \in T /\ g[i] = step[<<g[i - 1], i>>]
    <3> HIDE DEF step, n
    <3> QED BY <1>4, <2>0 DEF IsRun
  <2>2. <<g[i - 1], i>> \in T \X (1 .. n) BY <2>1
  <2> QED BY <2>1, <2>2
<1> HIDE DEF step
<1>6. Is(g)
  <2>1. \A i \in 0 .. n : g[i] = IF i = 0 THEN v ELSE push_any(g[i - 1], xs[i])
    <3>1. \A i \in 0 .. n : i = 0 \/ i \in 1 .. n BY <1>1
    <3> HIDE DEF n
    <3> QED BY <3>1, <1>4, <1>5 DEF IsRun
  <2>2. g = [i \in 0 .. n |-> g[i]] BY <1>4 DEF IsRun
  <2> HIDE DEF n
  <2> QED BY <2>1, <2>2
<1> DEFINE h == CHOOSE h : Is(h)
<1>7. Is(h) BY <1>6
<1>8. push_all(v, xs) = h[n] BY DEF push_all
<1>9. h[0] = v /\ \A i \in 1 .. n : h[i] = push_any(h[i - 1], xs[i])
  <2>1. 0 \in 0 .. n /\ \A i \in 1 .. n : i \in 0 .. n /\ i # 0 BY <1>1
  <2> HIDE DEF h, n
  <2> QED BY <1>7, <2>1
<1> HIDE DEF h
<1> QED BY <1>8, <1>9

(* Pushing arguments appends what they convert to. *)
LEMMA PushAll ==
  ASSUME NEW v, Buffer(v), NEW xs \in Seq(Values)
  PROVE  LET p == push_all(v, xs) IN
         /\ Buffer(p) /\ p.kind = v.kind /\ p.len = v.len + Len(xs)
         /\ Held(p) = Held(v) \o StoredAll(v.kind, xs)
<1> DEFINE n == Len(xs)
           cell(i, j) == IF j <= v.len THEN v.cells[j] ELSE Stored(v.kind, xs[j - v.len])
<1>1. PICK g : /\ g[0] = v
               /\ \A i \in 1 .. n : g[i] = push_any(g[i - 1], xs[i])
               /\ push_all(v, xs) = g[n]
  BY PushSteps
<1> DEFINE After(i) == /\ Buffer(g[i]) /\ g[i].kind = v.kind /\ g[i].len = v.len + i
                       /\ \A j \in 1 .. v.len + i : g[i].cells[j] = cell(i, j)
           S == {i \in 0 .. n : After(i)}
<1>2. n \in Nat /\ v.len \in Nat /\ v.kind \in Vectors BY HeldIs
<1>3. 0 \in S BY <1>1, <1>2
<1>4. ASSUME NEW i \in 0 .. n - 1, i \in S PROVE i + 1 \in S
  <2>1. After(i) /\ i + 1 \in 1 .. n /\ i + 1 \in 0 .. n BY <1>4, <1>2
  <2>2. xs[i + 1] \in Values BY <2>1, ElementOfSeq
  <2>3. g[i + 1] = push_any(g[i], xs[i + 1])
    <3>1. (i + 1) - 1 = i BY <1>2
    <3> QED BY <1>1, <2>1, <3>1
  <2>4. /\ Buffer(g[i + 1]) /\ g[i + 1].kind = v.kind /\ g[i + 1].len = v.len + (i + 1)
        /\ \A j \in 1 .. v.len + i + 1 :
             g[i + 1].cells[j] = IF j = v.len + i + 1 THEN Stored(v.kind, xs[i + 1]) ELSE g[i].cells[j]
    <3>1. Buffer(g[i]) /\ g[i].kind = v.kind /\ g[i].len = v.len + i BY <2>1
    <3> HIDE DEF S, n
    <3> DEFINE w == g[i]
               x == xs[i + 1]
    <3>2. /\ Buffer(push_any(w, x)) /\ push_any(w, x).kind = w.kind /\ push_any(w, x).len = w.len + 1
          /\ \A j \in 1 .. w.len + 1 :
               push_any(w, x).cells[j] = IF j = w.len + 1 THEN Stored(w.kind, x) ELSE w.cells[j]
      <4>1. Buffer(w) /\ x \in Values BY <3>1, <2>2
      <4> HIDE DEF w, x
      <4> QED BY <4>1, PushAny
    <3>3. v.len + i + 1 = v.len + (i + 1) BY <1>2
    <3> QED BY <2>3, <3>1, <3>2, <3>3
  <2>5. ASSUME NEW j \in 1 .. v.len + (i + 1) PROVE g[i + 1].cells[j] = cell(i + 1, j)
    <3>1. CASE j = v.len + i + 1
      <4>1. ~(j <= v.len) /\ j - v.len = i + 1 /\ j \in 1 .. v.len + i + 1 BY <3>1, <1>2
      <4>2. g[i + 1].cells[j] = Stored(v.kind, xs[i + 1]) BY <3>1, <4>1, <2>4
      <4>3. cell(i + 1, j) = Stored(v.kind, xs[i + 1]) BY <4>1
      <4> QED BY <4>2, <4>3
    <3>2. CASE j <= v.len + i
      <4>1. j \in 1 .. v.len + i /\ j # v.len + i + 1 /\ j \in 1 .. v.len + i + 1 BY <3>2, <1>2
      <4>2. g[i + 1].cells[j] = g[i].cells[j] BY <4>1, <2>4
      <4>3. g[i].cells[j] = cell(i, j) BY <4>1, <2>1
      <4> QED BY <4>2, <4>3
    <3>3. j = v.len + i + 1 \/ j <= v.len + i BY <1>2
    <3> QED BY <3>1, <3>2, <3>3
  <2> QED BY <2>1, <2>4, <2>5
<1>5. After(n)
  <2>1. 0 .. n \subseteq S
    <3> HIDE DEF S, n
    <3> QED BY <1>2, <1>3, <1>4, Induction
  <2>2. n \in S
    <3> HIDE DEF S
    <3> QED BY <1>2, <2>1
  <2> QED BY <2>2
<1> DEFINE t == Held(v) \o StoredAll(v.kind, xs)
<1>6. /\ t \in Seq(Values) /\ Len(t) = v.len + n
      /\ \A j \in 1 .. v.len + n : t[j] = cell(n, j)
  <2>1. /\ Held(v) \in Seq(Values) /\ Len(Held(v)) = v.len
        /\ \A j \in 1 .. v.len : Held(v)[j] = v.cells[j]
    BY HeldIs
  <2>2. StoredAll(v.kind, xs) \in Seq(Values) /\ Len(StoredAll(v.kind, xs)) = n
    BY <1>2, StoredAllIs
  <2>3. \A j \in 1 .. n : StoredAll(v.kind, xs)[j] = Stored(v.kind, xs[j]) BY DEF StoredAll
  <2>4. /\ t \in Seq(Values) /\ Len(t) = v.len + n
        /\ \A j \in 1 .. v.len + n : t[j] = IF j <= v.len THEN Held(v)[j] ELSE StoredAll(v.kind, xs)[j - v.len]
    <3> DEFINE a == Held(v)
               b == StoredAll(v.kind, xs)
    <3> HIDE DEF a, b, n
    <3>1. a \in Seq(Values) /\ b \in Seq(Values) /\ Len(a) = v.len /\ Len(b) = n BY <2>1, <2>2 DEF a, b
    <3>2. /\ a \o b \in Seq(Values) /\ Len(a \o b) = Len(a) + Len(b)
          /\ \A j \in 1 .. Len(a) + Len(b) : (a \o b)[j] = IF j <= Len(a) THEN a[j] ELSE b[j - Len(a)]
      BY <3>1, ConcatProperties
    <3> QED BY <3>1, <3>2 DEF a, b
  <2>5. ASSUME NEW j \in 1 .. v.len + n PROVE t[j] = cell(n, j)
    <3>1. CASE j <= v.len
      <4>1. j \in 1 .. v.len BY <3>1, <1>2
      <4> QED BY <3>1, <4>1, <2>1, <2>4
    <3>2. CASE ~(j <= v.len)
      <4>1. j - v.len \in 1 .. n BY <3>2, <1>2
      <4> QED BY <3>2, <4>1, <2>3, <2>4
    <3> QED BY <3>1, <3>2
  <2> QED BY <2>4, <2>5
<1>7. Held(g[n]) = t
  <2> HIDE DEF t, n, cell
  <2> QED BY <1>5, <1>6, HeldEqual
<1> QED BY <1>1, <1>5, <1>7

(* Elements of a vector are their own conversions. *)
LEMMA StoredAgain ==
  ASSUME NEW kind \in Vectors, NEW xs \in Seq(Elements(kind))
  PROVE  xs \in Seq(Values) /\ StoredAll(kind, xs) = xs
<1>1. Elements(kind) \subseteq Values BY DEF Elements
<1>2. \A i \in 1 .. Len(xs) : xs[i] \in Elements(kind) BY ElementOfSeq
<1>3. \A i \in 1 .. Len(xs) : Stored(kind, xs[i]) = xs[i] BY <1>2 DEF Elements
<1>4. xs \in Seq(Values) BY <1>1, SeqMonotonic
<1> HIDE DEF Elements
<1>5. StoredAll(kind, xs) = [i \in 1 .. Len(xs) |-> xs[i]] BY <1>3 DEF StoredAll
<1> QED BY <1>4, <1>5

(* A refilled vector holds the new elements and nothing of the old ones. *)
LEMMA Refill ==
  ASSUME NEW v \in Record, NEW xs \in Seq(Values)
  PROVE  LET r == refill(v, xs) IN
         /\ Buffer(r) /\ r.kind = v.kind /\ r.len = Len(xs)
         /\ Held(r) = StoredAll(v.kind, xs)
<1> DEFINE e == [v EXCEPT !.len = 0]
           r == reserve(e, Len(xs))
<1>1. e \in Record /\ e.kind = v.kind /\ e.len = 0
  <2>1. 0 \in Nat OBVIOUS
  <2> QED BY <2>1, LengthField
<1> HIDE DEF e
<1>2. r \in Record /\ r.kind = v.kind /\ r.len = 0
  <2>1. Len(xs) \in Nat OBVIOUS
  <2> QED BY <1>1, <2>1, Reserve
<1> HIDE DEF r
<1>3. Buffer(r)
  <2>1. Len(r.cells) \in Nat BY <1>2 DEF Record
  <2> QED BY <1>2, <2>1 DEF Buffer, Record, Cells
<1>4. Held(r) = <<>>
  <2>1. Held(r) \in Seq(Values) /\ Len(Held(r)) = 0 BY <1>2, <1>3, HeldIs
  <2> QED BY <2>1
<1>5. /\ Buffer(push_all(r, xs)) /\ push_all(r, xs).kind = r.kind /\ push_all(r, xs).len = r.len + Len(xs)
      /\ Held(push_all(r, xs)) = Held(r) \o StoredAll(r.kind, xs)
  BY <1>3, PushAll
<1>6. refill(v, xs) = push_all(r, xs) BY DEF refill, r, e
<1>7. Held(r) \o StoredAll(v.kind, xs) = StoredAll(v.kind, xs)
  <2>1. StoredAll(v.kind, xs) \in Seq(Values) BY StoredAllIs, HeldIs, <1>2, <1>3
  <2> QED BY <2>1, <1>4, ConcatEmptySeq
<1> QED BY <1>2, <1>5, <1>6, <1>7

(* A new vector holds the elements it is given, converted.                 *)
LEMMA NewVector ==
  ASSUME NEW kind \in Vectors, NEW xs \in Seq(Values)
  PROVE  LET r == new_vector(kind, xs) IN
         /\ Buffer(r) /\ r.kind = kind /\ r.len = Len(xs)
         /\ Held(r) = StoredAll(kind, xs)
<1> DEFINE v == [kind |-> kind, cells |-> <<>>, len |-> 0]
<1>1. v \in Record /\ v.kind = kind BY DEF Record
<1> HIDE DEF v
<1> QED BY <1>1, Refill DEF new_vector, v

(* Growing zeroes the new cells, whatever they held before; shrinking keeps *)
(* the first ones.                                                          *)
LEMMA Resize ==
  ASSUME NEW v, Buffer(v), NEW n \in Nat
  PROVE  LET r == resize(v, n) IN
         /\ Buffer(r) /\ r.kind = v.kind /\ r.len = n
         /\ Held(r) = [i \in 1 .. n |-> IF i <= v.len THEN Held(v)[i] ELSE Zero(v.kind)]
<1> DEFINE r == resize(v, n)
           cell(i) == IF i <= v.len THEN v.cells[i] ELSE Zero(v.kind)
<1>1. v \in Record /\ v.kind \in Vectors /\ v.len \in Nat /\ v.len <= Len(v.cells)
  BY HeldIs DEF Buffer
<1>2. Zero(v.kind) \in Elements(v.kind) /\ Zero(v.kind) \in Values
  <2>1. Zero(v.kind) \in Values BY DEF Zero, Values, N, Undefined
  <2>2. CASE v.kind \in NumericVectors
    <3>1. any_to_number(Undefined) = NaN /\ any_to_number(N(0)) = N(0) /\ IsNumber(N(0)) /\ N(0)[2] = 0
      BY DEF any_to_number, Undefined, NaN, N, IsNumber
    <3>2. 0 % Modulus = 0 BY Residues
    <3>3. ((0 + Modulus \div 2) % Modulus) - Modulus \div 2 = 0
      <4>1. 0 + Modulus \div 2 \in 0 .. Modulus - 1 OBVIOUS
      <4>2. (0 + Modulus \div 2) % Modulus = 0 + Modulus \div 2 BY <4>1, Residues
      <4> QED BY <4>2
    <3>4. to_uint32(N(0)) = N(0) /\ to_int32(N(0)) = N(0)
      BY <3>1, <3>2, <3>3 DEF to_uint32, to_int32
    <3> QED BY <2>1, <2>2, <3>1, <3>4 DEF Elements, Stored, Zero, NumericVectors
  <2>3. CASE v.kind = "C"
    <3> QED BY <2>1, <2>3 DEF Elements, Stored
  <2> QED BY <1>1, <2>1, <2>2, <2>3 DEF Vectors
<1>3. /\ r \in Record /\ r.kind = v.kind /\ r.len = n /\ n <= Len(r.cells)
      /\ \A i \in 1 .. n : r.cells[i] = cell(i)
  <2>1. CASE n <= v.len
    <3>1. r = [v EXCEPT !.len = n] BY <2>1 DEF resize
    <3>2. r = [kind |-> v.kind, cells |-> v.cells, len |-> n] /\ r \in Record
      BY <3>1, <1>1, LengthField
    <3>3. r.kind = v.kind /\ r.cells = v.cells /\ r.len = n BY <3>2
    <3>4. Len(v.cells) \in Nat BY <1>1 DEF Record
    <3> QED BY <1>1, <2>1, <3>2, <3>3, <3>4
  <2>2. CASE n > v.len
    <3> DEFINE w == reserve(v, n)
               c == [i \in DOMAIN w.cells |-> IF i \in v.len + 1 .. n THEN Zero(v.kind) ELSE w.cells[i]]
    <3>1. /\ w \in Record /\ w.kind = v.kind /\ w.len = v.len /\ Len(w.cells) >= n
          /\ \A i \in 1 .. Len(v.cells) : w.cells[i] = v.cells[i]
      BY <1>1, Reserve
    <3> HIDE DEF w
    <3>2. w.cells \in Seq(Cells) BY <3>1 DEF Record
    <3>3. c \in Seq(Cells) /\ Len(c) = Len(w.cells) /\ DOMAIN w.cells = 1 .. Len(w.cells)
      <4>1. \A i \in 1 .. Len(w.cells) : w.cells[i] \in Cells BY <3>2, ElementOfSeq
      <4>2. Zero(v.kind) \in Cells BY <1>2 DEF Cells
      <4>3. DOMAIN w.cells = 1 .. Len(w.cells) /\ Len(w.cells) \in Nat BY <3>2
      <4> QED BY <4>1, <4>2, <4>3
    <3>4. r = [[w EXCEPT !.len = n] EXCEPT !.cells = c]
      <4>1. [w EXCEPT !.len = n].cells = w.cells BY <3>1, LengthField
      <4> QED BY <1>1, <2>2, <4>1 DEF resize, w
    <3>5. \A i \in 1 .. n : c[i] = cell(i)
      <4> SUFFICES ASSUME NEW i \in 1 .. n PROVE c[i] = cell(i) OBVIOUS
      <4>1. i \in DOMAIN w.cells BY <3>1, <3>2, <3>3
      <4>2. CASE i <= v.len
        <5>1. i \in 1 .. Len(v.cells) /\ i \notin v.len + 1 .. n
          <6>1. Len(v.cells) \in Nat BY <1>1 DEF Record
          <6> QED BY <1>1, <4>2, <6>1
        <5> QED BY <3>1, <4>1, <4>2, <5>1
      <4>3. CASE ~(i <= v.len)
        <5>1. i \in v.len + 1 .. n BY <1>1, <4>3
        <5> QED BY <4>1, <4>3, <5>1
      <4> QED BY <4>2, <4>3
    <3> HIDE DEF c
    <3> HIDE DEF r
    <3>6. r = Resized(w, c, n) BY <3>4 DEF Resized
    <3>7. r \in Record /\ r.kind = v.kind /\ r.cells = c /\ r.len = n BY <3>1, <3>3, <3>6, ResizedIs
    <3> QED BY <3>1, <3>3, <3>5, <3>7
  <2> QED BY <1>1, <2>1, <2>2
<1> HIDE DEF r
<1>4. Buffer(r)
  <2>1. \A i \in 1 .. n : cell(i) \in Elements(v.kind)
    <3> SUFFICES ASSUME NEW i \in 1 .. n PROVE cell(i) \in Elements(v.kind) OBVIOUS
    <3>1. i <= v.len => i \in 1 .. v.len OBVIOUS
    <3> QED BY <3>1, <1>2, HeldIs
  <2> QED BY <1>3, <2>1 DEF Buffer, Record, Cells
<1> DEFINE t == [i \in 1 .. n |-> IF i <= v.len THEN Held(v)[i] ELSE Zero(v.kind)]
<1>5. t \in Seq(Values) /\ Len(t) = n /\ \A i \in 1 .. n : t[i] = cell(i)
  <2>1. \A i \in 1 .. n : (IF i <= v.len THEN Held(v)[i] ELSE Zero(v.kind)) = cell(i) /\ cell(i) \in Values
    <3> SUFFICES ASSUME NEW i \in 1 .. n
                 PROVE (IF i <= v.len THEN Held(v)[i] ELSE Zero(v.kind)) = cell(i) /\ cell(i) \in Values
      OBVIOUS
    <3>1. i <= v.len => i \in 1 .. v.len OBVIOUS
    <3>2. i <= v.len => Held(v)[i] = v.cells[i] /\ v.cells[i] \in Values
      BY <3>1, HeldIs DEF Elements
    <3> QED BY <3>2, <1>2
  <2> QED BY <2>1
<1>6. Held(r) = t
  <2> HIDE DEF t, cell
  <2> QED BY <1>3, <1>4, <1>5, HeldEqual
<1> QED BY <1>3, <1>4, <1>6 DEF r

-----------------------------------------------------------------------------
(* Positions. *)

Numeric == ({"num"} \X Int) \cup {NaN, Infinity}
Below(k, n) == IsNumber(k) /\ k[2] >= 0 /\ k[2] < n
UpTo(k, n)  == IsNumber(k) /\ k[2] >= 0 /\ k[2] <= n

(* ToNumber answers with a number, NaN or infinity.                        *)
LEMMA Converted ==
  ASSUME NEW v \in Values
  PROVE  any_to_number(v) \in Numeric
BY ValueCases DEF any_to_number, N, NaN, Infinity, IsNumber, Undefined, Null, Values, Numeric

(* What is numeric is one of three: NaN, infinity or an integer.           *)
LEMMA NumericCases ==
  ASSUME NEW k \in Numeric
  PROVE  /\ k \in Values /\ any_to_number(k) = k
         /\ \/ k = NaN /\ ~IsNumber(k) /\ k # Infinity
            \/ k = Infinity /\ ~IsNumber(k) /\ k # NaN
            \/ IsNumber(k) /\ k[2] \in Int /\ k = N(k[2]) /\ k # NaN /\ k # Infinity
BY DEF Numeric, NaN, Infinity, IsNumber, N, any_to_number, Values

(* `v as usize` saturates at both ends, and is 0 of what is no number.     *)
LEMMA UsizeIs ==
  ASSUME NEW v \in Values
  PROVE  /\ v = Infinity => usize(v) = UsizeMax
         /\ IsNumber(v) => /\ v[2] \in Int
                           /\ usize(v) = IF v[2] < 0 THEN 0
                                         ELSE IF v[2] < UsizeMax THEN v[2] ELSE UsizeMax
         /\ v # Infinity /\ ~IsNumber(v) => usize(v) = 0
         /\ usize(v) \in 0 .. UsizeMax
<1>1. CASE v = Infinity BY <1>1 DEF usize, IsNumber, Infinity
<1>2. CASE IsNumber(v)
  <2>1. v[2] \in Int /\ v # Infinity BY <1>2, ValueCases DEF IsNumber, Infinity, NaN, Undefined, Null
  <2>2. Min({v[2], UsizeMax}) = IF v[2] < UsizeMax THEN v[2] ELSE UsizeMax
    <3>1. UsizeMax \in Int OBVIOUS
    <3> QED BY <2>1, <3>1, Extremes
  <2> QED BY <1>2, <2>1, <2>2 DEF usize
<1>3. CASE v # Infinity /\ ~IsNumber(v) BY <1>3 DEF usize
<1> QED BY <1>1, <1>2, <1>3

(* The tests of an index against a length, as the runtime makes them on the *)
(* converted word, are the tests of the number.                             *)
LEMMA IndexTests ==
  ASSUME NEW k \in Numeric, NEW n \in 0 .. MaxLength
  PROVE  /\ (~IsNegative(k) /\ k # NaN /\ usize(k) < n) = Below(k, n)
         /\ k # NaN => (IsNegative(k) \/ usize(k) >= n) = ~Below(k, n)
         /\ k # NaN => (IsNegative(k) \/ usize(k) > n) = ~UpTo(k, n)
         /\ Below(k, n) \/ UpTo(k, n) => k[2] \in Nat /\ usize(k) = k[2] /\ k = N(k[2])
         /\ idx_in_bounds(k, n) = Below(k, n)
<1>0. k \in Values /\ n < UsizeMax BY NumericCases
<1>1. CASE k = NaN
  <2>1. ~IsNumber(k) BY <1>1, NumericCases
  <2> QED BY <1>1, <2>1 DEF Below, UpTo, idx_in_bounds
<1>2. CASE k = Infinity
  <2>1. ~IsNumber(k) /\ usize(k) = UsizeMax /\ k # NaN BY <1>0, <1>2, NumericCases, UsizeIs
  <2> QED BY <1>0, <2>1 DEF Below, UpTo, idx_in_bounds, IsNegative
<1>3. CASE IsNumber(k)
  <2>1. k[2] \in Int /\ k # NaN /\ k = N(k[2]) BY <1>3, NumericCases
  <2>2. usize(k) = IF k[2] < 0 THEN 0 ELSE IF k[2] < UsizeMax THEN k[2] ELSE UsizeMax
    BY <1>0, <1>3, UsizeIs
  <2> QED BY <1>0, <1>3, <2>1, <2>2 DEF Below, UpTo, idx_in_bounds, IsNegative
<1> QED BY <1>1, <1>2, <1>3, NumericCases

(* A relative position, clamped. *)
LEMMA NormIndex ==
  ASSUME NEW v \in Values, NEW n \in 0 .. MaxLength
  PROVE  /\ norm_index(v, n) \in 0 .. n
         /\ v = Infinity => norm_index(v, n) = n
         /\ IsNumber(v) => norm_index(v, n) = IF v[2] < 0 THEN IF n + v[2] < 0 THEN 0 ELSE n + v[2]
                                              ELSE IF v[2] < n THEN v[2] ELSE n
         /\ v # Infinity /\ ~IsNumber(v) => norm_index(v, n) = 0
<1>1. n \in Int /\ n < UsizeMax OBVIOUS
<1>2. CASE IsNumber(v) /\ v[2] < 0
  <2>1. v[2] \in Int /\ v # Infinity BY <1>2, UsizeIs DEF IsNumber, Infinity
  <2>2. Max({n + v[2], 0}) = IF n + v[2] < 0 THEN 0 ELSE n + v[2] BY <1>1, <2>1, Extremes
  <2> QED BY <1>2, <2>1, <2>2 DEF norm_index, IsNegative
<1>3. CASE ~(IsNumber(v) /\ v[2] < 0)
  <2>1. Min({usize(v), n}) = IF usize(v) < n THEN usize(v) ELSE n BY <1>1, UsizeIs, Extremes
  <2>2. norm_index(v, n) = IF usize(v) < n THEN usize(v) ELSE n
    BY <1>3, <2>1 DEF norm_index, IsNegative
  <2> QED BY <1>1, <1>3, <2>2, UsizeIs DEF IsNumber, Infinity
<1> QED BY <1>2, <1>3

-----------------------------------------------------------------------------
(* The entry points of vectors. *)

(* A read within the length gives the element, any other an error. *)
LEMMA VecGet ==
  ASSUME NEW v, Buffer(v), v.len <= MaxLength, NEW k \in Numeric, k # NaN
  PROVE  vs_vec_get(v, k) = IF Below(k, v.len) THEN Held(v)[k[2] + 1] ELSE RangeError
<1>1. v.len \in 0 .. MaxLength /\ v.len <= Len(v.cells) /\ Len(v.cells) \in Nat
  BY HeldIs DEF Buffer
<1>2. CASE Below(k, v.len)
  <2>1. usize(k) = k[2] /\ k[2] \in Nat /\ ~(IsNegative(k) \/ usize(k) >= v.len) BY <1>1, <1>2, IndexTests
  <2>2. k[2] < v.len BY <1>2 DEF Below
  <2>3. k[2] + 1 \in 1 .. v.len BY <1>1, <2>1, <2>2
  <2>4. Held(v)[k[2] + 1] = v.cells[k[2] + 1] BY <2>3, HeldIs
  <2>5. vs_vec_get(v, k) = get_any(v, k[2]) BY <2>1 DEF vs_vec_get
  <2>6. get_any(v, k[2]) = v.cells[k[2] + 1] BY <1>1, <2>1, <2>2 DEF get_any
  <2> QED BY <1>2, <2>4, <2>5, <2>6
<1>3. CASE ~Below(k, v.len)
  <2>1. IsNegative(k) \/ usize(k) >= v.len BY <1>1, <1>3, IndexTests
  <2> QED BY <1>3, <2>1 DEF vs_vec_get
<1> QED BY <1>2, <1>3

(* An element in place of another. *)
LEMMA SetAny ==
  ASSUME NEW v, Buffer(v), NEW i \in 0 .. v.len - 1, NEW x \in Values
  PROVE  LET w == set_any(v, i, x) IN
         /\ Buffer(w) /\ w.kind = v.kind /\ w.len = v.len
         /\ Held(w) = [Held(v) EXCEPT ![i + 1] = Stored(v.kind, x)]
<1> DEFINE e == Stored(v.kind, x)
           c == [v.cells EXCEPT ![i + 1] = e]
           w == set_any(v, i, x)
<1>1. /\ v \in Record /\ v.len \in Nat /\ v.kind \in Vectors /\ v.len <= Len(v.cells)
      /\ v.cells \in Seq(Cells) /\ Len(v.cells) \in Nat
  BY HeldIs DEF Buffer, Record
<1>2. e \in Elements(v.kind) /\ e \in Values /\ e \in Cells BY <1>1, StoredIsElement DEF Elements, Cells
<1> HIDE DEF e
<1>3. i + 1 \in 1 .. Len(v.cells) /\ i + 1 \in 1 .. v.len BY <1>1
<1>4. /\ c \in Seq(Cells) /\ Len(c) = Len(v.cells)
      /\ \A j \in 1 .. Len(v.cells) : c[j] = IF j = i + 1 THEN e ELSE v.cells[j]
  BY <1>1, <1>2, <1>3, ExceptSeq
<1>5. w = [v EXCEPT !.cells = c] BY <1>1 DEF set_any, e, Record
<1> HIDE DEF c, w
<1>6. w = [kind |-> v.kind, cells |-> c, len |-> v.len] /\ w \in Record
  BY <1>1, <1>4, <1>5, CellsField
<1>7. w.kind = v.kind /\ w.len = v.len /\ w.cells = c BY <1>6
<1>8. \A j \in 1 .. v.len : c[j] = (IF j = i + 1 THEN e ELSE v.cells[j]) /\ c[j] \in Elements(v.kind)
  <2> SUFFICES ASSUME NEW j \in 1 .. v.len
               PROVE  c[j] = (IF j = i + 1 THEN e ELSE v.cells[j]) /\ c[j] \in Elements(v.kind)
    OBVIOUS
  <2>1. j \in 1 .. Len(v.cells) BY <1>1
  <2>2. v.cells[j] \in Elements(v.kind) BY HeldIs
  <2> QED BY <1>2, <1>4, <2>1, <2>2
<1>9. Buffer(w) BY <1>1, <1>4, <1>6, <1>7, <1>8 DEF Buffer, Record, Cells
<1> DEFINE t == [Held(v) EXCEPT ![i + 1] = e]
<1>10. t \in Seq(Values) /\ Len(t) = v.len /\ \A j \in 1 .. v.len : t[j] = IF j = i + 1 THEN e ELSE v.cells[j]
  <2>1. Held(v) \in Seq(Values) /\ Len(Held(v)) = v.len /\ \A j \in 1 .. v.len : Held(v)[j] = v.cells[j]
    BY HeldIs
  <2> QED BY <1>2, <1>3, <2>1, ExceptSeq
<1>11. Held(w) = t
  <2> HIDE DEF t
  <2> QED BY <1>7, <1>8, <1>9, <1>10, HeldEqual
<1> QED BY <1>7, <1>9, <1>11 DEF w, e

(* A write within the length replaces the element, one at the length       *)
(* appends it, any other is an error.                                      *)
Written(kind, xs, i, x) ==
  [j \in 1 .. (IF i < Len(xs) THEN Len(xs) ELSE i + 1) |->
     IF j = i + 1 THEN Stored(kind, x) ELSE IF j <= Len(xs) THEN xs[j] ELSE Undefined]

(* vs_vec_set overwrites an element, appends one, or throws a RangeError.  *)
LEMMA VecSet ==
  ASSUME NEW v, Buffer(v), v.len <= MaxLength, NEW k \in Numeric, k # NaN, NEW x \in Values
  PROVE  LET r == vs_vec_set(v, k, x) IN
         /\ ~UpTo(k, v.len) => r = Result(v, RangeError)
         /\ UpTo(k, v.len) => /\ r.answer = Nothing
                              /\ Buffer(r.store) /\ r.store.kind = v.kind /\ r.store.len >= v.len
                              /\ Held(r.store) = Written(v.kind, Held(v), k[2], x)
         /\ Below(k, v.len) => r = Result(set_any(v, k[2], x), Nothing)
<1> DEFINE r == vs_vec_set(v, k, x)
           h == Held(v)
           e == Stored(v.kind, x)
<1>1. /\ v.len \in 0 .. MaxLength /\ v.len \in Nat /\ v.kind \in Vectors
      /\ h \in Seq(Values) /\ Len(h) = v.len
  BY HeldIs
<1>2. e \in Values /\ (IsNumber(k) => k[2] \in Int) BY <1>1, StoredIsElement, NumericCases DEF Elements
<1>3. CASE ~UpTo(k, v.len)
  <2>1. IsNegative(k) \/ usize(k) > v.len BY <1>1, <1>3, IndexTests
  <2>2. ~Below(k, v.len) BY <1>1, <1>2, <1>3 DEF Below, UpTo
  <2> QED BY <1>3, <2>1, <2>2 DEF vs_vec_set
<1>4. CASE UpTo(k, v.len)
  <2>1. usize(k) = k[2] /\ k[2] \in Nat /\ k[2] <= v.len /\ ~(IsNegative(k) \/ usize(k) > v.len)
    BY <1>1, <1>4, IndexTests DEF UpTo
  <2>2. CASE k[2] = v.len
    <3> DEFINE p == push_any(v, x)
    <3>1. r = Result(p, Nothing) BY <2>1, <2>2 DEF vs_vec_set
    <3>2. Buffer(p) /\ p.kind = v.kind /\ p.len = v.len + 1 /\ Held(p) = Append(h, e)
      BY PushAny
    <3> HIDE DEF p, e, h, r
    <3>3. Append(h, e) = [j \in 1 .. v.len + 1 |-> IF j = v.len + 1 THEN e ELSE IF j <= v.len THEN h[j] ELSE Undefined]
      <4> DEFINE t == [j \in 1 .. v.len + 1 |-> IF j = v.len + 1 THEN e ELSE IF j <= v.len THEN h[j] ELSE Undefined]
      <4>1. \A j \in 1 .. v.len + 1 : j = v.len + 1 \/ j \in 1 .. v.len BY <1>1
      <4>2. t \in Seq(Values) /\ Len(t) = v.len + 1
        <5>1. \A j \in 1 .. v.len : h[j] \in Values BY <1>1, ElementOfSeq
        <5>2. \A j \in 1 .. v.len + 1 :
                (IF j = v.len + 1 THEN e ELSE IF j <= v.len THEN h[j] ELSE Undefined) \in Values
          BY <1>1, <1>2, <4>1, <5>1
        <5>3. v.len + 1 \in Nat BY <1>1
        <5> QED BY <5>2, <5>3
      <4>3. /\ Append(h, e) \in Seq(Values) /\ Len(Append(h, e)) = v.len + 1
            /\ \A j \in 1 .. v.len : Append(h, e)[j] = h[j]
            /\ Append(h, e)[v.len + 1] = e
        BY <1>1, <1>2, AppendProperties
      <4>4. \A j \in 1 .. v.len + 1 : Append(h, e)[j] = t[j] BY <1>1, <4>1, <4>3
      <4> HIDE DEF t
      <4>5. Append(h, e) = t BY <4>2, <4>3, <4>4, SeqEqual
      <4> QED BY <4>5 DEF t
    <3>4. Written(v.kind, h, k[2], x) = Append(h, e) BY <1>1, <2>2, <3>3 DEF Written, e
    <3>5. ~Below(k, v.len) BY <1>1, <2>2 DEF Below
    <3>6. r.store = p /\ r.answer = Nothing BY <3>1 DEF Result
    <3> QED BY <1>1, <1>4, <3>2, <3>4, <3>5, <3>6 DEF r, h
  <2>3. CASE k[2] < v.len
    <3> DEFINE w == set_any(v, k[2], x)
    <3>1. r = Result(w, Nothing) BY <2>1, <2>3 DEF vs_vec_set
    <3>2. Buffer(w) /\ w.kind = v.kind /\ w.len = v.len /\ Held(w) = [h EXCEPT ![k[2] + 1] = e]
      <4>1. k[2] \in 0 .. v.len - 1 BY <1>1, <2>1, <2>3
      <4> QED BY <4>1, SetAny
    <3> HIDE DEF w, e, h, r
    <3>3. [h EXCEPT ![k[2] + 1] = e]
             = [j \in 1 .. v.len |-> IF j = k[2] + 1 THEN e ELSE IF j <= v.len THEN h[j] ELSE Undefined]
      BY <1>1, <1>2, <2>1
    <3>4. Written(v.kind, h, k[2], x) = Held(w) BY <1>1, <2>3, <3>2, <3>3 DEF Written, e
    <3>5. r.store = w /\ r.answer = Nothing BY <3>1 DEF Result
    <3> QED BY <1>1, <1>4, <3>1, <3>2, <3>4, <3>5 DEF r, h, w
  <2> QED BY <1>1, <2>1, <2>2, <2>3
<1> QED BY <1>3, <1>4

(* vs_vec_pop takes the last element, or answers undefined.                *)
LEMMA VecPop ==
  ASSUME NEW v, Buffer(v)
  PROVE  LET r == vs_vec_pop(v) IN
         /\ v.len = 0 => r = Result(v, Undefined)
         /\ v.len > 0 => /\ r.answer = Held(v)[v.len]
                         /\ Buffer(r.store) /\ r.store.kind = v.kind /\ r.store.len = v.len - 1
                         /\ Held(r.store) = SubSeq(Held(v), 1, v.len - 1)
<1> DEFINE r == vs_vec_pop(v)
<1>1. /\ v \in Record /\ v.len \in Nat /\ v.kind \in Vectors /\ v.len <= Len(v.cells)
      /\ v.cells \in Seq(Cells) /\ Len(v.cells) \in Nat
  BY HeldIs DEF Buffer, Record
<1>2. /\ Held(v) \in Seq(Values) /\ Len(Held(v)) = v.len
      /\ \A i \in 1 .. v.len : Held(v)[i] = v.cells[i] /\ v.cells[i] \in Elements(v.kind)
  BY HeldIs
<1>3. CASE v.len = 0 BY <1>3 DEF vs_vec_pop
<1>4. CASE v.len > 0
  <2> DEFINE w == [v EXCEPT !.len = v.len - 1]
  <2>0. v.len - 1 \in Nat BY <1>1, <1>4
  <2>1. w \in Record /\ w.kind = v.kind /\ w.cells = v.cells /\ w.len = v.len - 1
    BY <1>1, <2>0, LengthField
  <2>2. get_any(v, v.len - 1) = v.cells[v.len] /\ v.len \in 1 .. v.len BY <1>1, <1>4 DEF get_any
  <2>3. r.answer = Held(v)[v.len] /\ r.store = w BY <1>2, <1>4, <2>2 DEF vs_vec_pop, Result
  <2> HIDE DEF w
  <2>4. \A i \in 1 .. v.len - 1 : i \in 1 .. v.len BY <1>1
  <2>5. Buffer(w) BY <1>1, <1>2, <2>0, <2>1, <2>4 DEF Buffer, Record, Cells
  <2> DEFINE t == SubSeq(Held(v), 1, v.len - 1)
  <2>6. t \in Seq(Values) /\ Len(t) = v.len - 1 /\ \A i \in 1 .. v.len - 1 : t[i] = v.cells[i]
    <3>1. t \in Seq(Values) /\ Len(t) = v.len - 1 /\ \A i \in 1 .. v.len - 1 : t[i] = Held(v)[i]
      BY <1>1, <1>2, <2>0
    <3> HIDE DEF t
    <3> QED BY <1>2, <2>4, <3>1
  <2>7. Held(w) = t
    <3> HIDE DEF t
    <3> QED BY <2>1, <2>5, <2>6, HeldEqual
  <2> QED BY <1>4, <2>1, <2>3, <2>5, <2>7
<1> QED BY <1>1, <1>3, <1>4

(* vs_vec_shift takes the first element, or answers undefined.             *)
LEMMA VecShift ==
  ASSUME NEW v, Buffer(v)
  PROVE  LET r == vs_vec_shift(v) IN
         /\ v.len = 0 => r = Result(v, Undefined)
         /\ v.len > 0 => /\ r.answer = Held(v)[1]
                         /\ Buffer(r.store) /\ r.store.kind = v.kind /\ r.store.len = v.len - 1
                         /\ Held(r.store) = SubSeq(Held(v), 2, v.len)
<1> DEFINE r == vs_vec_shift(v)
           h == Held(v)
           E == Elements(v.kind)
<1>1. v \in Record /\ v.len \in Nat /\ v.kind \in Vectors /\ v.len <= Len(v.cells) /\ Len(v.cells) \in Nat
  BY HeldIs DEF Buffer
<1>2. h \in Seq(E) /\ Len(h) = v.len BY HeldIs
<1>3. CASE v.len = 0 BY <1>3 DEF vs_vec_shift
<1>4. CASE v.len > 0
  <2> HIDE DEF E, h
  <2>1. Tail(h) = SubSeq(h, 2, v.len) /\ Tail(h) \in Seq(E) /\ Len(Tail(h)) = v.len - 1
    BY <1>1, <1>2, <1>4
  <2>2. Tail(h) \in Seq(Values) /\ StoredAll(v.kind, Tail(h)) = Tail(h)
    BY <1>1, <2>1, StoredAgain DEF E
  <2>3. get_any(v, 0) = h[1]
    <3>1. 1 \in 1 .. v.len /\ h[1] = v.cells[1] BY <1>1, <1>4, HeldIs DEF h
    <3> QED BY <1>1, <1>4, <3>1 DEF get_any
  <2>4. r = Result(refill(v, Tail(h)), h[1])
    BY <1>1, <1>4, <2>3 DEF vs_vec_shift, to_boxed, Held, h
  <2>5. /\ Buffer(refill(v, Tail(h))) /\ refill(v, Tail(h)).kind = v.kind
        /\ refill(v, Tail(h)).len = Len(Tail(h))
        /\ Held(refill(v, Tail(h))) = StoredAll(v.kind, Tail(h))
    BY <1>1, <2>2, Refill
  <2> HIDE DEF r
  <2>6. r.answer = h[1] /\ r.store = refill(v, Tail(h)) BY <2>4 DEF Result
  <2>7. /\ r.answer = h[1] /\ Buffer(r.store) /\ r.store.kind = v.kind /\ r.store.len = v.len - 1
        /\ Held(r.store) = SubSeq(h, 2, v.len)
    BY <2>1, <2>2, <2>5, <2>6
  <2>8. v.len # 0 BY <1>1, <1>4
  <2> QED BY <2>7, <2>8 DEF h, r
<1> QED BY <1>1, <1>3, <1>4

(* Elements that are converted already stay as they are behind new ones.   *)
LEMMA StoredConcat ==
  ASSUME NEW kind \in Vectors, NEW xs \in Seq(Values), NEW ys \in Seq(Elements(kind))
  PROVE  StoredAll(kind, xs \o ys) = StoredAll(kind, xs) \o ys
<1>1. ys \in Seq(Values) /\ \A i \in 1 .. Len(ys) : ys[i] = Stored(kind, ys[i])
  <2>1. \A i \in 1 .. Len(ys) : ys[i] \in Elements(kind) BY ElementOfSeq
  <2> QED BY <2>1, StoredAgain DEF Elements
<1> DEFINE a == StoredAll(kind, xs)
           b == StoredAll(kind, xs \o ys)
<1>2. a \in Seq(Values) /\ Len(a) = Len(xs) /\ \A i \in 1 .. Len(xs) : a[i] = Stored(kind, xs[i])
  <2>1. a \in Seq(Values) /\ Len(a) = Len(xs) BY StoredAllIs
  <2> QED BY <2>1 DEF StoredAll
<1>3. /\ xs \o ys \in Seq(Values) /\ Len(xs \o ys) = Len(xs) + Len(ys)
      /\ \A i \in 1 .. Len(xs) + Len(ys) : (xs \o ys)[i] = IF i <= Len(xs) THEN xs[i] ELSE ys[i - Len(xs)]
  BY <1>1, ConcatProperties
<1>4. /\ b \in Seq(Values) /\ Len(b) = Len(xs) + Len(ys)
      /\ \A i \in 1 .. Len(xs) + Len(ys) : b[i] = Stored(kind, (xs \o ys)[i])
  <2>1. b \in Seq(Values) /\ Len(b) = Len(xs \o ys) BY <1>3, StoredAllIs
  <2> QED BY <1>3, <2>1 DEF StoredAll
<1> HIDE DEF a, b
<1>5. /\ a \o ys \in Seq(Values) /\ Len(a \o ys) = Len(a) + Len(ys)
      /\ \A i \in 1 .. Len(a) + Len(ys) : (a \o ys)[i] = IF i <= Len(a) THEN a[i] ELSE ys[i - Len(a)]
  BY <1>1, <1>2, ConcatProperties
<1>6. ASSUME NEW i \in 1 .. Len(b) PROVE b[i] = (a \o ys)[i]
  <2>1. CASE i <= Len(xs)
    <3>1. i \in 1 .. Len(xs) BY <2>1
    <3> QED BY <1>2, <1>3, <1>4, <1>5, <2>1, <3>1
  <2>2. CASE ~(i <= Len(xs))
    <3>1. i - Len(xs) \in 1 .. Len(ys) /\ i \in 1 .. Len(xs) + Len(ys) BY <2>2, <1>4
    <3>2. b[i] = Stored(kind, ys[i - Len(xs)]) BY <1>3, <1>4, <2>2, <3>1
    <3>3. (a \o ys)[i] = ys[i - Len(xs)] BY <1>2, <1>5, <2>2, <3>1
    <3> QED BY <1>1, <3>1, <3>2, <3>3
  <2> QED BY <2>1, <2>2
<1>7. b = a \o ys
  <2>1. Len(b) = Len(a \o ys) BY <1>2, <1>4, <1>5
  <2> QED BY <1>4, <1>5, <1>6, <2>1, SeqEqual
<1> QED BY <1>7 DEF a, b

(* vs_vec_unshift puts its arguments, converted, before the elements.      *)
LEMMA VecUnshift ==
  ASSUME NEW v, Buffer(v), NEW xs \in Seq(Values)
  PROVE  LET r == vs_vec_unshift(v, xs) IN
         /\ Buffer(r) /\ r.kind = v.kind /\ r.len = Len(xs) + v.len
         /\ Held(r) = StoredAll(v.kind, xs) \o Held(v)
<1> DEFINE h == Held(v)
           ys == xs \o h
<1>1. v \in Record /\ v.kind \in Vectors /\ v.len \in Nat BY HeldIs
<1>2. h \in Seq(Elements(v.kind)) /\ h \in Seq(Values) /\ Len(h) = v.len BY HeldIs
<1>3. vs_vec_unshift(v, xs) = refill(v, ys) BY DEF vs_vec_unshift, to_boxed, Held
<1> HIDE DEF h
<1>4. ys \in Seq(Values) /\ Len(ys) = Len(xs) + v.len BY <1>2, ConcatProperties
<1>5. StoredAll(v.kind, ys) = StoredAll(v.kind, xs) \o h BY <1>1, <1>2, StoredConcat
<1> HIDE DEF ys
<1>6. /\ Buffer(refill(v, ys)) /\ refill(v, ys).kind = v.kind /\ refill(v, ys).len = Len(ys)
      /\ Held(refill(v, ys)) = StoredAll(v.kind, ys)
  BY <1>1, <1>4, Refill
<1> QED BY <1>3, <1>4, <1>5, <1>6 DEF h

(* vs_vec_reverse turns the order round.                                   *)
LEMMA VecReverse ==
  ASSUME NEW v, Buffer(v)
  PROVE  LET r == vs_vec_reverse(v) IN
         /\ Buffer(r) /\ r.kind = v.kind /\ r.len = v.len
         /\ Held(r) = [i \in 1 .. v.len |-> Held(v)[v.len + 1 - i]]
<1> DEFINE h == Held(v)
           ys == Reverse(h)
           E == Elements(v.kind)
<1>1. v \in Record /\ v.kind \in Vectors /\ v.len \in Nat BY HeldIs
<1>2. h \in Seq(E) /\ Len(h) = v.len BY HeldIs
<1>3. vs_vec_reverse(v) = refill(v, ys) BY DEF vs_vec_reverse, to_boxed, Held
<1> HIDE DEF h, E
<1>4. ys \in Seq(E) /\ Len(ys) = v.len /\ ys = [i \in 1 .. v.len |-> h[v.len + 1 - i]]
  <2>1. \A i \in 1 .. v.len : (v.len - i) + 1 \in 1 .. v.len /\ (v.len - i) + 1 = v.len + 1 - i BY <1>1
  <2>2. \A i \in 1 .. v.len : h[(v.len - i) + 1] \in E BY <1>2, <2>1, ElementOfSeq
  <2>3. ys = [i \in 1 .. v.len |-> h[(v.len - i) + 1]] BY <1>2 DEF Reverse
  <2>4. ys = [i \in 1 .. v.len |-> h[v.len + 1 - i]] BY <2>1, <2>3
  <2> HIDE DEF ys
  <2>5. ys \in Seq(E) /\ Len(ys) = v.len BY <1>1, <2>2, <2>3
  <2> QED BY <2>4, <2>5
<1> HIDE DEF ys
<1>5. ys \in Seq(Values) /\ StoredAll(v.kind, ys) = ys BY <1>1, <1>4, StoredAgain DEF E
<1>6. /\ Buffer(refill(v, ys)) /\ refill(v, ys).kind = v.kind /\ refill(v, ys).len = Len(ys)
      /\ Held(refill(v, ys)) = StoredAll(v.kind, ys)
  BY <1>1, <1>5, Refill
<1> QED BY <1>3, <1>4, <1>5, <1>6 DEF h

(* vs_vec_slice copies the elements between two relative positions.        *)
LEMMA VecSlice ==
  ASSUME NEW v, Buffer(v), v.len <= MaxLength, NEW a \in Values, NEW b \in Values
  PROVE  vs_vec_slice(v, a, b) = SubSeq(Held(v), norm_index(a, v.len) + 1, norm_index(b, v.len))
<1> DEFINE h == Held(v)
           E == Elements(v.kind)
           s == norm_index(a, v.len)
           e == norm_index(b, v.len)
           ys == SubSeq(h, s + 1, e)
           m == IF e - s < 0 THEN 0 ELSE e - s
<1>1. v.kind \in Vectors /\ v.len \in 0 .. MaxLength /\ v.len \in Nat BY HeldIs
<1>2. h \in Seq(E) /\ Len(h) = v.len BY HeldIs
<1>3. s \in 0 .. v.len /\ e \in 0 .. v.len BY <1>1, NormIndex
<1>4. Max({e - s, 0}) = m
  <2> HIDE DEF s, e
  <2>1. e - s \in Int BY <1>3, <1>1
  <2> QED BY <2>1, Extremes
<1>5. \A i \in 1 .. m : get_any(v, s + i - 1) = h[s + i] /\ s + i \in 1 .. v.len
  <2> SUFFICES ASSUME NEW i \in 1 .. m PROVE get_any(v, s + i - 1) = h[s + i] /\ s + i \in 1 .. v.len
    OBVIOUS
  <2> HIDE DEF s, e
  <2>1. s + i \in 1 .. v.len /\ s + i - 1 \in Nat /\ (s + i - 1) + 1 = s + i BY <1>1, <1>3
  <2>2. v.len <= Len(v.cells) /\ Len(v.cells) \in Nat BY HeldIs DEF Buffer
  <2>3. get_any(v, s + i - 1) = v.cells[s + i] BY <1>1, <2>1, <2>2 DEF get_any
  <2> QED BY <2>1, <2>3, HeldIs DEF h
<1> HIDE DEF h, E, s, e
<1>6. ys = [i \in 1 .. m |-> h[s + i]]
  <2>1. ys = [i \in 1 .. (e - (s + 1)) + 1 |-> h[(s + 1) + i - 1]] BY <1>1, <1>2, <1>3
  <2>2. (e - (s + 1)) + 1 = e - s /\ \A i \in 1 .. m : (s + 1) + i - 1 = s + i BY <1>1, <1>3
  <2>3. 1 .. e - s = 1 .. m BY <1>1, <1>3
  <2> QED BY <2>1, <2>2, <2>3
<1>7. ys \in Seq(E)
  <2>1. \A i \in 1 .. m : h[s + i] \in E BY <1>2, <1>5, ElementOfSeq
  <2>2. m \in Nat BY <1>1, <1>3
  <2> HIDE DEF ys, m
  <2> QED BY <1>6, <2>1, <2>2
<1>8. vs_vec_slice(v, a, b) = to_boxed(new_vector(v.kind, ys))
  <2>1. vs_vec_slice(v, a, b)
          = to_boxed(new_vector(v.kind, [i \in 1 .. Max({e - s, 0}) |-> get_any(v, s + i - 1)]))
    BY DEF vs_vec_slice, s, e
  <2>2. [i \in 1 .. m |-> get_any(v, s + i - 1)] = ys BY <1>5, <1>6
  <2> HIDE DEF m, ys
  <2> QED BY <1>4, <2>1, <2>2
<1> HIDE DEF ys
<1>9. ys \in Seq(Values) /\ StoredAll(v.kind, ys) = ys BY <1>1, <1>7, StoredAgain DEF E
<1>10. Held(new_vector(v.kind, ys)) = ys BY <1>1, <1>9, NewVector
<1> QED BY <1>8, <1>10 DEF to_boxed, Held, ys, h, s, e

(* vs_vec_index_of searches the elements held, not the raw cells.          *)
LEMMA VecIndexOf ==
  ASSUME NEW v, Buffer(v), v.len <= MaxLength, NEW needle, NEW from \in Values
  PROVE  vs_vec_index_of(v, needle, from)
           = FirstOf({i \in norm_index(from, v.len) .. v.len - 1 : StrictlyEqual(Held(v)[i + 1], needle)})
<1>1. v.len \in 0 .. MaxLength /\ v.len \in Nat /\ v.len <= Len(v.cells) /\ Len(v.cells) \in Nat
  BY HeldIs DEF Buffer
<1> DEFINE s == norm_index(from, v.len)
<1>2. s \in 0 .. v.len BY <1>1, NormIndex
<1> HIDE DEF s
<1>3. \A i \in s .. v.len - 1 : get_any(v, i) = Held(v)[i + 1]
  <2> SUFFICES ASSUME NEW i \in s .. v.len - 1 PROVE get_any(v, i) = Held(v)[i + 1] OBVIOUS
  <2>1. i + 1 \in 1 .. v.len /\ i < Len(v.cells) BY <1>1, <1>2
  <2> QED BY <2>1, HeldIs DEF get_any
<1>4. {i \in s .. v.len - 1 : StrictlyEqual(get_any(v, i), needle)}
        = {i \in s .. v.len - 1 : StrictlyEqual(Held(v)[i + 1], needle)}
  BY <1>3
<1> QED BY <1>4 DEF vs_vec_index_of, s

-----------------------------------------------------------------------------
(* The entry points of arrays. *)

(* An array stands for all its cells. *)
LEMMA ArrayIs ==
  ASSUME NEW s, IsArray(s)
  PROVE  /\ s.kind = "Array" /\ s.cells \in Seq(Values) /\ s.len = Len(s.cells) /\ s.len \in Nat
         /\ Held(s) = s.cells /\ new_array(s.cells) = s
<1>1. s.kind = "Array" /\ s.cells \in Seq(Values) /\ s.len = Len(s.cells) /\ s.len \in Nat BY DEF IsArray
<1>2. Held(s) = s.cells BY <1>1, SubSeqFull DEF Held
<1>3. s = [kind |-> s.kind, cells |-> s.cells, len |-> s.len] BY DEF IsArray
<1> QED BY <1>1, <1>2, <1>3 DEF new_array

(* A sequence of values as an array. *)
LEMMA NewArray ==
  ASSUME NEW d \in Seq(Values)
  PROVE  LET s == new_array(d) IN
         /\ IsArray(s) /\ s.kind = "Array" /\ s.cells = d /\ s.len = Len(d) /\ Held(s) = d
<1>1. new_array(d).kind = "Array" /\ new_array(d).cells = d /\ new_array(d).len = Len(d) BY DEF new_array
<1>2. IsArray(new_array(d))
  <2>1. Len(d) \in Nat OBVIOUS
  <2> QED BY <1>1, <2>1 DEF IsArray, new_array
<1>3. Held(new_array(d)) = d BY <1>1, SubSeqFull DEF Held
<1> QED BY <1>1, <1>2, <1>3

(* A machine word holds the numbers up to the greatest index, and the next  *)
(* one is zero.                                                             *)
LEMMA Wraps ==
  ASSUME NEW w \in Nat
  PROVE  /\ \A i \in 0 .. w : i % (w + 1) = i
         /\ (w + 1) % (w + 1) = 0
OBVIOUS

(* A resized array keeps its first elements; the others are undefined.     *)
LEMMA ArrayResized ==
  ASSUME NEW data \in Seq(Values), NEW n \in Nat
  PROVE  ArrayResize(data, n) \in Seq(Values) /\ Len(ArrayResize(data, n)) = n
<1>1. \A i \in 1 .. n : (IF i <= Len(data) THEN data[i] ELSE Undefined) \in Values
  <2>1. Undefined \in Values BY DEF Values
  <2>2. \A i \in 1 .. Len(data) : data[i] \in Values BY ElementOfSeq
  <2> QED BY <2>1, <2>2
<1> QED BY <1>1 DEF ArrayResize

(* A read within the length gives the element, any other undefined.        *)
LEMMA ArrGet ==
  ASSUME NEW data \in Seq(Values), Len(data) <= MaxLength, NEW k \in Numeric
  PROVE  vs_arr_get(data, k) = IF Below(k, Len(data)) THEN data[k[2] + 1] ELSE Undefined
<1>1. Len(data) \in 0 .. MaxLength OBVIOUS
<1>2. /\ (~IsNegative(k) /\ k # NaN /\ usize(k) < Len(data)) = Below(k, Len(data))
      /\ Below(k, Len(data)) => usize(k) = k[2]
  BY <1>1, IndexTests
<1> QED BY <1>2 DEF vs_arr_get

(* Where a write leaves an array: unchanged for a negative index, grown    *)
(* when the index is past the end, and cut only when the program aborts.   *)
LEMMA ArrSet ==
  ASSUME NEW data \in Seq(Values), Len(data) <= MaxLength, NEW k \in Numeric, NEW x \in Values
  PROVE  LET r == vs_arr_set(data, k, x) IN
         /\ \E d \in Seq(Values) : r.store = new_array(d)
         /\ IsNegative(k) => r = ArraySet(data, Nothing)
         /\ k # NaN /\ usize(k) # UsizeMax /\ ~IsNegative(k) =>
              /\ IsNumber(k) /\ k[2] \in Nat
              /\ r = ArraySet(Written("Array", data, k[2], x), Nothing)
         /\ r.answer = Nothing => r.store.len >= Len(data)
         /\ r.answer \in {Nothing, Abort}
<1> DEFINE r == vs_arr_set(data, k, x)
           i == usize(k)
           m == (i + 1) % (UsizeMax + 1)
           wide == IF i < Len(data) THEN data ELSE ArrayResize(data, m)
           new == [wide EXCEPT ![i + 1] = x]
<1>1. k \in Values /\ i \in 0 .. UsizeMax /\ UsizeMax \in Nat /\ Len(data) \in Nat /\ Len(data) < UsizeMax
  BY NumericCases, UsizeIs
<1>2. m = IF i = UsizeMax THEN 0 ELSE i + 1
  <2> HIDE DEF i
  <2>1. CASE i = UsizeMax BY <1>1, <2>1, Wraps
  <2>2. CASE i # UsizeMax
    <3>1. i + 1 \in 0 .. UsizeMax BY <1>1, <2>2
    <3>2. (i + 1) % (UsizeMax + 1) = i + 1 BY <1>1, <3>1, Wraps
    <3> QED BY <2>2, <3>2
  <2> HIDE DEF m
  <2> QED BY <2>1, <2>2
<1>3. wide \in Seq(Values) /\ Len(wide) = IF i < Len(data) THEN Len(data) ELSE m
  <2>1. m \in Nat BY <1>1, <1>2
  <2> HIDE DEF m, i
  <2> QED BY <2>1, ArrayResized
<1>4. r = IF IsNegative(k) THEN ArraySet(data, Nothing)
          ELSE IF i >= Len(wide) THEN ArraySet(wide, Abort) ELSE ArraySet(new, Nothing)
  BY DEF vs_arr_set
<1>4a. Nothing # Abort BY DEF Nothing, Abort
<1> HIDE DEF r, wide, i, m
<1>5. CASE IsNegative(k)
  <2>1. r.store = new_array(data) /\ r.answer = Nothing BY <1>4, <1>5 DEF ArraySet, Result
  <2> QED BY <1>1, <1>4, <1>5, <2>1, NewArray DEF r
<1>6. CASE ~IsNegative(k) /\ i >= Len(wide)
  <2>1. r.store = new_array(wide) /\ r.answer = Abort BY <1>4, <1>6 DEF ArraySet, Result
  <2>2. i = UsizeMax BY <1>1, <1>2, <1>3, <1>6
  <2> QED BY <1>3, <1>4a, <1>6, <2>1, <2>2 DEF r, i
<1>7. CASE ~IsNegative(k) /\ ~(i >= Len(wide))
  <2>1. r.store = new_array(new) /\ r.answer = Nothing /\ r = ArraySet(new, Nothing)
    BY <1>4, <1>7 DEF ArraySet, Result
  <2>2. i + 1 \in 1 .. Len(wide) /\ Len(wide) \in Nat BY <1>1, <1>3, <1>7
  <2>3. new \in Seq(Values) /\ Len(new) = Len(wide) BY <1>3, <2>2, ExceptSeq
  <2>4. Len(wide) >= Len(data) BY <1>1, <1>2, <1>3, <1>7
  <2>5. ASSUME k # NaN, i # UsizeMax
        PROVE  IsNumber(k) /\ k[2] \in Nat /\ new = Written("Array", data, k[2], x)
    <3>1. k # Infinity BY <1>1, <2>5, UsizeIs DEF i
    <3>2. IsNumber(k) /\ k[2] \in Int BY <2>5, <3>1, NumericCases
    <3>3. k[2] >= 0 /\ i = k[2]
      BY <1>1, <1>7, <2>5, <3>2, UsizeIs DEF IsNegative, i
    <3> DEFINE w == Written("Array", data, k[2], x)
    <3>4. w = [j \in 1 .. Len(wide) |->
                 IF j = i + 1 THEN x ELSE IF j <= Len(data) THEN data[j] ELSE Undefined]
      <4>1. (IF k[2] < Len(data) THEN Len(data) ELSE k[2] + 1) = Len(wide) BY <1>1, <1>2, <1>3, <2>5, <3>3
      <4>2. Stored("Array", x) = x BY DEF Stored
      <4> QED BY <3>3, <4>1, <4>2 DEF Written
    <3>5. \A j \in 1 .. Len(wide) : wide[j] = IF j <= Len(data) THEN data[j] ELSE Undefined
      <4>1. CASE i < Len(data) BY <1>1, <1>3, <4>1 DEF wide
      <4>2. CASE ~(i < Len(data)) BY <1>3, <4>2 DEF wide, ArrayResize
      <4> QED BY <4>1, <4>2
    <3>6. new = [j \in 1 .. Len(wide) |-> IF j = i + 1 THEN x ELSE wide[j]]
      <4>1. DOMAIN wide = 1 .. Len(wide) BY <1>3
      <4> QED BY <4>1
    <3>7. new = w
      <4>1. [j \in 1 .. Len(wide) |-> IF j = i + 1 THEN x ELSE wide[j]]
              = [j \in 1 .. Len(wide) |-> IF j = i + 1 THEN x ELSE IF j <= Len(data) THEN data[j] ELSE Undefined]
        BY <3>5
      <4> HIDE DEF new, w
      <4> QED BY <3>4, <3>6, <4>1
    <3> QED BY <3>2, <3>3, <3>7
  <2>6. r.store.len = Len(wide) BY <2>1, <2>3, NewArray
  <2> HIDE DEF new
  <2> QED BY <1>7, <1>4a, <2>1, <2>3, <2>4, <2>5, <2>6 DEF r, i
<1> QED BY <1>5, <1>6, <1>7

(* One insertion after the arguments inserted so far.                      *)
LEMMA Inserts ==
  ASSUME NEW d \in Seq(Values), NEW i \in 1 .. Len(d) + 1, NEW x \in Values
  PROVE  LET e == InsertAt(d, i, x) IN
         /\ e \in Seq(Values) /\ Len(e) = Len(d) + 1
         /\ \A j \in 1 .. Len(d) + 1 : e[j] = IF j < i THEN d[j] ELSE IF j = i THEN x ELSE d[j - 1]
<1> DEFINE a == SubSeq(d, 1, i - 1)
           b == SubSeq(d, i, Len(d))
           n == Len(d)
<1>1. n \in Nat /\ i \in Int OBVIOUS
<1>2. a \in Seq(Values) /\ Len(a) = i - 1 /\ \A j \in 1 .. i - 1 : a[j] = d[j] BY <1>1
<1>3. b \in Seq(Values) /\ Len(b) = n + 1 - i /\ \A j \in 1 .. n + 1 - i : b[j] = d[j + i - 1] BY <1>1
<1> HIDE DEF a, b, n
<1> DEFINE c == a \o <<x>>
<1>4. c \in Seq(Values) /\ Len(c) = i /\ \A j \in 1 .. i : c[j] = IF j < i THEN d[j] ELSE x
  <2>1. <<x>> \in Seq(Values) /\ Len(<<x>>) = 1 /\ <<x>>[1] = x OBVIOUS
  <2>2. /\ c \in Seq(Values) /\ Len(c) = Len(a) + 1
        /\ \A j \in 1 .. Len(a) + 1 : c[j] = IF j <= Len(a) THEN a[j] ELSE <<x>>[j - Len(a)]
    BY <1>2, <2>1, ConcatProperties
  <2> HIDE DEF c
  <2>3. ASSUME NEW j \in 1 .. i PROVE c[j] = IF j < i THEN d[j] ELSE x
    <3>1. CASE j < i
      <4>1. j \in 1 .. i - 1 BY <1>1, <3>1
      <4> QED BY <1>1, <1>2, <2>2, <3>1, <4>1
    <3>2. CASE ~(j < i)
      <4>1. j = i /\ j - Len(a) = 1 /\ ~(j <= Len(a)) BY <1>1, <1>2, <3>2
      <4> QED BY <1>1, <1>2, <2>1, <2>2, <3>2, <4>1
    <3> QED BY <3>1, <3>2
  <2> QED BY <1>1, <1>2, <2>2, <2>3
<1>5. InsertAt(d, i, x) = c \o b BY DEF InsertAt, a, b, n
<1> HIDE DEF c
<1>6. /\ c \o b \in Seq(Values) /\ Len(c \o b) = Len(c) + Len(b)
      /\ \A j \in 1 .. Len(c) + Len(b) : (c \o b)[j] = IF j <= Len(c) THEN c[j] ELSE b[j - Len(c)]
  BY <1>3, <1>4, ConcatProperties
<1> DEFINE e == c \o b
<1>7. ASSUME NEW j \in 1 .. n + 1
      PROVE  e[j] = IF j < i THEN d[j] ELSE IF j = i THEN x ELSE d[j - 1]
  <2>1. e[j] = IF j <= i THEN c[j] ELSE b[j - i]
    <3>1. j \in 1 .. Len(c) + Len(b) BY <1>1, <1>3, <1>4
    <3> QED BY <1>4, <1>6, <3>1
  <2> HIDE DEF e
  <2>2. CASE j <= i
    <3>1. j \in 1 .. i BY <1>1, <2>2
    <3> QED BY <1>1, <1>4, <2>1, <2>2, <3>1
  <2>3. CASE j > i
    <3>1. j - i \in 1 .. n + 1 - i /\ (j - i) + i - 1 = j - 1 BY <1>1, <2>3
    <3> QED BY <1>1, <1>3, <2>1, <2>3, <3>1
  <2> QED BY <1>1, <2>2, <2>3
<1> QED BY <1>1, <1>3, <1>4, <1>5, <1>6, <1>7 DEF n

(* The insertions at the front put the arguments before the elements, in   *)
(* their order.                                                            *)
LEMMA ArrUnshift ==
  ASSUME NEW data \in Seq(Values), NEW xs \in Seq(Values)
  PROVE  vs_arr_unshift(data, xs) = xs \o data
<1> DEFINE n == Len(xs)
           m == Len(data)
           T == Seq(Values)
           next(d, i) == IF i <= Len(d) + 1 THEN InsertAt(d, i, xs[i]) ELSE d
           step == [p \in T \X (1 .. n) |-> next(p[1], p[2])]
           cell(i, j) == IF j <= i THEN xs[j] ELSE data[j - i]
           Is(g) == g = [i \in 0 .. n |-> IF i = 0 THEN data ELSE InsertAt(g[i - 1], i, xs[i])]
<1>1. n \in Nat /\ m \in Nat /\ data \in T OBVIOUS
<1>2. \A i \in 1 .. n : xs[i] \in Values BY ElementOfSeq
<1>3. step \in [T \X (1 .. n) -> T]
  <2>1. ASSUME NEW d \in T, NEW i \in 1 .. n PROVE next(d, i) \in T
    <3>1. CASE i <= Len(d) + 1
      <4>1. i \in 1 .. Len(d) + 1 BY <3>1
      <4> QED BY <1>2, <3>1, <4>1, Inserts
    <3> QED BY <3>1
  <2> HIDE DEF T, next, n
  <2>2. \A p \in T \X (1 .. n) : next(p[1], p[2]) \in T BY <2>1
  <2> QED BY <2>2
<1>4. PICK g : IsRun(g, n, T, data, step)
  <2> HIDE DEF step, T, n
  <2> QED BY <1>1, <1>3, Recursion
<1>5. g[0] = data /\ \A i \in 1 .. n : g[i - 1] \in T /\ g[i] = next(g[i - 1], i)
  <2>1. \A i \in 1 .. n : i - 1 \in 0 .. n BY <1>1
  <2>2. \A i \in 1 .. n : g[i - 1] \in T /\ g[i] = step[<<g[i - 1], i>>]
    <3> HIDE DEF step, T, n
    <3> QED BY <1>4, <2>1 DEF IsRun
  <2>3. \A d \in T, i \in 1 .. n : step[<<d, i>>] = next(d, i)
    <3> HIDE DEF T, next, n
    <3> QED OBVIOUS
  <2>4. g[0] = data BY <1>4 DEF IsRun
  <2> HIDE DEF step, T, next, n
  <2> QED BY <2>2, <2>3, <2>4
<1> HIDE DEF step
<1> DEFINE After(i) == g[i] \in T /\ Len(g[i]) = m + i /\ \A j \in 1 .. m + i : g[i][j] = cell(i, j)
           S == {i \in 0 .. n : After(i)}
<1>6. 0 \in S
  <2>1. g[0] = data BY <1>5
  <2>2. \A j \in 1 .. m + 0 : data[j] = cell(0, j) BY <1>1
  <2>3. After(0) BY <1>1, <2>1, <2>2
  <2> HIDE DEF After
  <2> QED BY <1>1, <2>3
<1>7. ASSUME NEW i \in 0 .. n - 1, i \in S PROVE i + 1 \in S
  <2>1. /\ i + 1 \in 1 .. n /\ i + 1 \in 0 .. n /\ (i + 1) - 1 = i /\ i \in Int /\ i >= 0
        /\ g[i] \in T /\ Len(g[i]) = m + i /\ \A j \in 1 .. m + i : g[i][j] = cell(i, j)
    BY <1>1, <1>7
  <2> DEFINE d == g[i]
             e == g[i + 1]
             x == xs[i + 1]
  <2>2. x \in Values BY <1>2, <2>1
  <2>3. i + 1 \in 1 .. Len(d) + 1 /\ i + 1 <= Len(d) + 1 BY <1>1, <2>1
  <2>4. e = InsertAt(d, i + 1, x)
    <3>1. e = next(d, i + 1) BY <1>5, <2>1
    <3> QED BY <2>3, <3>1
  <2>5. /\ InsertAt(d, i + 1, x) \in Seq(Values) /\ Len(InsertAt(d, i + 1, x)) = Len(d) + 1
        /\ \A j \in 1 .. Len(d) + 1 :
             InsertAt(d, i + 1, x)[j] = IF j < i + 1 THEN d[j] ELSE IF j = i + 1 THEN x ELSE d[j - 1]
    <3> DEFINE p == i + 1
    <3>1. d \in Seq(Values) BY <2>1
    <3>2. p \in 1 .. Len(d) + 1 BY <2>3
    <3> HIDE DEF d, x, p
    <3>3. /\ InsertAt(d, p, x) \in Seq(Values) /\ Len(InsertAt(d, p, x)) = Len(d) + 1
          /\ \A j \in 1 .. Len(d) + 1 :
               InsertAt(d, p, x)[j] = IF j < p THEN d[j] ELSE IF j = p THEN x ELSE d[j - 1]
      BY <2>2, <3>1, <3>2, Inserts
    <3> QED BY <3>3 DEF p
  <2>6. Len(d) = m + i /\ \A j \in 1 .. m + i : d[j] = cell(i, j) BY <2>1
  <2> HIDE DEF d, e, m, n, S
  <2>7. ASSUME NEW j \in 1 .. m + (i + 1) PROVE e[j] = cell(i + 1, j)
    <3>0. j \in 1 .. Len(d) + 1 BY <1>1, <2>1, <2>6
    <3>1. CASE j < i + 1
      <4>1. j \in 1 .. m + i /\ j <= i /\ j <= i + 1 BY <1>1, <2>1, <3>1
      <4>2. e[j] = d[j] BY <2>4, <2>5, <3>0, <3>1
      <4> QED BY <2>6, <4>1, <4>2
    <3>2. CASE j = i + 1
      <4>1. e[j] = x BY <2>1, <2>4, <2>5, <3>0, <3>2
      <4> QED BY <2>1, <3>2, <4>1
    <3>3. CASE j > i + 1
      <4>1. j - 1 \in 1 .. m + i /\ ~(j - 1 <= i) /\ ~(j <= i + 1) /\ (j - 1) - i = j - (i + 1)
        BY <1>1, <2>1, <3>3
      <4>2. e[j] = d[j - 1] BY <2>1, <2>4, <2>5, <3>0, <3>3
      <4> QED BY <2>6, <4>1, <4>2
    <3> QED BY <2>1, <3>1, <3>2, <3>3
  <2>8. e \in T /\ Len(e) = m + (i + 1) BY <1>1, <2>1, <2>4, <2>5, <2>6
  <2> QED BY <2>1, <2>7, <2>8 DEF e, S
<1>8. \A i \in 0 .. n : After(i)
  <2>1. 0 .. n \subseteq S
    <3> HIDE DEF S, n
    <3> QED BY <1>1, <1>6, <1>7, Induction
  <2> HIDE DEF After
  <2> QED BY <2>1
<1>9. Is(g)
  <2>1. ASSUME NEW i \in 1 .. n PROVE g[i] = InsertAt(g[i - 1], i, xs[i])
    <3>1. i - 1 \in 0 .. n /\ i <= m + (i - 1) + 1 BY <1>1
    <3>2. Len(g[i - 1]) = m + (i - 1) BY <1>8, <3>1
    <3> HIDE DEF n, m, After
    <3> QED BY <1>5, <3>1, <3>2
  <2>2. g = [i \in 0 .. n |-> g[i]] BY <1>4 DEF IsRun
  <2>3. \A i \in 0 .. n : i = 0 \/ i \in 1 .. n BY <1>1
  <2>4. \A i \in 0 .. n : g[i] = IF i = 0 THEN data ELSE InsertAt(g[i - 1], i, xs[i])
    <3> HIDE DEF n, m, After, next
    <3> QED BY <1>5, <2>1, <2>3
  <2> HIDE DEF n, m, After, next
  <2> QED BY <2>2, <2>4
<1> DEFINE h == CHOOSE h : Is(h)
<1>10. Is(h) BY <1>9
<1>11. vs_arr_unshift(data, xs) = h[n] BY DEF vs_arr_unshift
<1> HIDE DEF h
<1>12. h[n] = g[n]
  <2> DEFINE U == {i \in 0 .. n : h[i] = g[i]}
             f(k) == [i \in 0 .. n |-> IF i = 0 THEN data ELSE InsertAt(k[i - 1], i, xs[i])]
  <2>1. \A i \in 0 .. n : h[i] = f(h)[i] /\ g[i] = f(g)[i] BY <1>9, <1>10
  <2>2. 0 \in U BY <1>1, <2>1
  <2>3. ASSUME NEW i \in 0 .. n - 1, i \in U PROVE i + 1 \in U
    <3>1. i + 1 \in 0 .. n /\ i + 1 # 0 /\ (i + 1) - 1 = i /\ h[i] = g[i] BY <1>1, <2>3
    <3>2. f(h)[i + 1] = InsertAt(h[i], i + 1, xs[i + 1]) BY <3>1
    <3>3. f(g)[i + 1] = InsertAt(g[i], i + 1, xs[i + 1]) BY <3>1
    <3> HIDE DEF f
    <3> QED BY <2>1, <3>1, <3>2, <3>3
  <2>4. 0 .. n \subseteq U
    <3> HIDE DEF U, n
    <3> QED BY <1>1, <2>2, <2>3, Induction
  <2> QED BY <1>1, <2>4
<1>13. g[n] \in T /\ Len(g[n]) = m + n /\ \A j \in 1 .. m + n : g[n][j] = cell(n, j) BY <1>1, <1>8
<1>14. /\ xs \o data \in T /\ Len(xs \o data) = n + m
       /\ \A j \in 1 .. n + m : (xs \o data)[j] = cell(n, j)
  BY ConcatProperties
<1>15. g[n] = xs \o data
  <2> HIDE DEF n, m, cell
  <2>1. n + m = m + n BY <1>1
  <2> QED BY <1>13, <1>14, <2>1, SeqEqual
<1> QED BY <1>11, <1>12, <1>15

-----------------------------------------------------------------------------
(* Dynamic objects. *)

Pairs == Seq(Values \X Values)

(* The loop over the pairs keeps those of the other keys, one by one.      *)
LEMMA RetainSteps ==
  ASSUME NEW pairs \in Pairs, NEW k
  PROVE  \E h : /\ h[0] = <<>>
                /\ \A i \in 1 .. Len(pairs) :
                     h[i] = IF pairs[i][1] # k THEN Append(h[i - 1], pairs[i]) ELSE h[i - 1]
                /\ retain(pairs, k) = h[Len(pairs)]
<1> DEFINE n == Len(pairs)
           T == Pairs
           next(d, i) == IF pairs[i][1] # k THEN Append(d, pairs[i]) ELSE d
           step == [p \in T \X (1 .. n) |-> next(p[1], p[2])]
           Is(g) == g = [i \in 0 .. n |-> IF i = 0 THEN <<>> ELSE next(g[i - 1], i)]
<1>1. n \in Nat /\ <<>> \in T BY DEF Pairs
<1>2. step \in [T \X (1 .. n) -> T]
  <2>1. ASSUME NEW d \in T, NEW i \in 1 .. n PROVE next(d, i) \in T
    <3>1. pairs[i] \in Values \X Values BY ElementOfSeq DEF Pairs
    <3>2. Append(d, pairs[i]) \in T BY <3>1, AppendProperties DEF Pairs
    <3> QED BY <3>2
  <2> HIDE DEF T, next, n
  <2>2. \A p \in T \X (1 .. n) : next(p[1], p[2]) \in T BY <2>1
  <2> QED BY <2>2
<1>3. PICK g : IsRun(g, n, T, <<>>, step)
  <2> HIDE DEF step, T, n
  <2> QED BY <1>1, <1>2, Recursion
<1>4. g[0] = <<>> /\ \A i \in 1 .. n : g[i] = next(g[i - 1], i)
  <2>1. \A i \in 1 .. n : i - 1 \in 0 .. n BY <1>1
  <2>2. \A i \in 1 .. n : g[i - 1] \in T /\ g[i] = step[<<g[i - 1], i>>]
    <3> HIDE DEF step, T, n
    <3> QED BY <1>3, <2>1 DEF IsRun
  <2>3. \A d \in T, i \in 1 .. n : step[<<d, i>>] = next(d, i)
    <3> HIDE DEF T, next, n
    <3> QED OBVIOUS
  <2>4. g[0] = <<>> BY <1>3 DEF IsRun
  <2> HIDE DEF step, T, next, n
  <2> QED BY <2>2, <2>3, <2>4
<1> HIDE DEF step
<1>5. Is(g)
  <2>1. g = [i \in 0 .. n |-> g[i]] BY <1>3 DEF IsRun
  <2>2. \A i \in 0 .. n : i = 0 \/ i \in 1 .. n BY <1>1
  <2> HIDE DEF n, next
  <2>3. \A i \in 0 .. n : g[i] = IF i = 0 THEN <<>> ELSE next(g[i - 1], i) BY <1>4, <2>2
  <2> QED BY <2>1, <2>3
<1> DEFINE h == CHOOSE h : Is(h)
<1>6. Is(h) BY <1>5
<1>7. retain(pairs, k) = h[n] BY DEF retain
<1>8. h[0] = <<>> /\ \A i \in 1 .. n : h[i] = next(h[i - 1], i)
  <2>1. 0 \in 0 .. n /\ \A i \in 1 .. n : i \in 0 .. n /\ i # 0 BY <1>1
  <2> HIDE DEF h, n, next
  <2> QED BY <1>6, <2>1
<1> HIDE DEF h
<1> QED BY <1>7, <1>8

(* The pairs but the one at a position, if there is one.                   *)
Without(pairs, p) ==
  [j \in 1 .. (IF p <= Len(pairs) THEN Len(pairs) - 1 ELSE Len(pairs)) |->
     IF j < p THEN pairs[j] ELSE pairs[j + 1]]

(* When one pair at most has the key, the others stay, in their order.     *)
LEMMA Retained ==
  ASSUME NEW pairs \in Pairs, NEW k, NEW p \in 1 .. Len(pairs) + 1,
         \A i \in 1 .. Len(pairs) : (pairs[i][1] = k) <=> (i = p)
  PROVE  /\ retain(pairs, k) = Without(pairs, p)
         /\ retain(pairs, k) \in Pairs
         /\ Len(retain(pairs, k)) = IF p <= Len(pairs) THEN Len(pairs) - 1 ELSE Len(pairs)
<1> DEFINE n == Len(pairs)
           size(i) == IF i < p THEN i ELSE i - 1
           cell(j) == IF j < p THEN pairs[j] ELSE pairs[j + 1]
<1>1. PICK h : /\ h[0] = <<>>
               /\ \A i \in 1 .. n : h[i] = IF pairs[i][1] # k THEN Append(h[i - 1], pairs[i]) ELSE h[i - 1]
               /\ retain(pairs, k) = h[n]
  BY RetainSteps
<1> DEFINE After(i) == h[i] \in Pairs /\ Len(h[i]) = size(i) /\ \A j \in 1 .. size(i) : h[i][j] = cell(j)
           S == {i \in 0 .. n : After(i)}
<1>2. n \in Nat /\ p \in Int /\ p >= 1 BY DEF Pairs
<1>3. 0 \in S
  <2>1. size(0) = 0 BY <1>2
  <2>2. h[0] \in Pairs /\ Len(h[0]) = 0 BY <1>1 DEF Pairs
  <2>3. \A j \in 1 .. size(0) : h[0][j] = cell(j) BY <2>1
  <2>4. After(0) BY <2>1, <2>2, <2>3
  <2> HIDE DEF After
  <2> QED BY <1>2, <2>4
<1>4. ASSUME NEW i \in 0 .. n - 1, i \in S PROVE i + 1 \in S
  <2>1. i + 1 \in 1 .. n /\ i + 1 \in 0 .. n /\ (i + 1) - 1 = i /\ i \in Int /\ i >= 0 BY <1>2
  <2>2. h[i] \in Pairs /\ Len(h[i]) = size(i) /\ \A j \in 1 .. size(i) : h[i][j] = cell(j) BY <1>4
  <2> DEFINE d == h[i]
             x == pairs[i + 1]
  <2>3. x \in Values \X Values BY <2>1, ElementOfSeq DEF Pairs
  <2>4. h[i + 1] = IF x[1] # k THEN Append(d, x) ELSE d BY <1>1, <2>1
  <2>5. (x[1] = k) <=> (i + 1 = p) BY <2>1
  <2> HIDE DEF S
  <2>6. CASE i + 1 = p
    <3>1. h[i + 1] = d BY <2>4, <2>5, <2>6
    <3>2. size(i) = i /\ size(i + 1) = i BY <1>2, <2>1, <2>6
    <3>3. After(i + 1)
      <4> HIDE DEF d, size, cell
      <4> QED BY <2>2, <3>1, <3>2 DEF d
    <3> QED BY <2>1, <3>3 DEF S
  <2>7. CASE i + 1 # p
    <3>1. h[i + 1] = Append(d, x) BY <2>4, <2>5, <2>7
    <3>2. size(i + 1) = size(i) + 1 /\ size(i) \in Nat BY <1>2, <2>1, <2>7
    <3>3. cell(size(i) + 1) = x BY <1>2, <2>1, <2>7
    <3> DEFINE a == Append(d, x)
               z == size(i)
    <3>3a. d \in Seq(Values \X Values) /\ Len(d) = z BY <2>2 DEF Pairs
    <3>4. /\ a \in Seq(Values \X Values) /\ Len(a) = z + 1
          /\ \A j \in 1 .. z : a[j] = d[j]
          /\ a[z + 1] = x
      <4> HIDE DEF d, x, size
      <4> QED BY <2>3, <3>2, <3>3a, AppendProperties
    <3>5. \A j \in 1 .. z + 1 : a[j] = cell(j)
      <4>1. \A j \in 1 .. z + 1 : j \in 1 .. z \/ j = z + 1 BY <3>2
      <4>2. \A j \in 1 .. z : d[j] = cell(j) BY <2>2
      <4> HIDE DEF a, size, cell, d, x
      <4> QED BY <3>3, <3>4, <4>1, <4>2
    <3>6. After(i + 1)
      <4> HIDE DEF d, x, size, cell
      <4> QED BY <3>1, <3>2, <3>4, <3>5 DEF Pairs
    <3> QED BY <2>1, <3>6 DEF S
  <2> QED BY <2>6, <2>7
<1>5. After(n)
  <2>1. 0 .. n \subseteq S
    <3> HIDE DEF S, n
    <3> QED BY <1>2, <1>3, <1>4, Induction
  <2>2. n \in S BY <1>2, <2>1
  <2> HIDE DEF After
  <2> QED BY <2>2
<1>6. size(n) = IF p <= n THEN n - 1 ELSE n BY <1>2
<1>7. h[n] = Without(pairs, p)
  <2>1. Without(pairs, p) = [j \in 1 .. size(n) |-> cell(j)] BY <1>6 DEF Without
  <2>2. h[n] = [j \in 1 .. size(n) |-> h[n][j]] BY <1>5 DEF Pairs
  <2>3. \A j \in 1 .. size(n) : h[n][j] = cell(j) BY <1>5
  <2> HIDE DEF n, size, cell
  <2> QED BY <2>1, <2>2, <2>3
<1> QED BY <1>1, <1>5, <1>6, <1>7

(* An object stands for its pairs.                                         *)
LEMMA ObjectIs ==
  ASSUME NEW s, IsObject(s)
  PROVE  /\ s.kind = "Object" /\ s.cells \in Pairs /\ s.len = Len(s.cells) /\ s.len \in Nat
         /\ DOMAIN s.cells = 1 .. s.len /\ Held(s) = s.cells
         /\ \A i \in 1 .. s.len : /\ s.cells[i][1] \in Values /\ s.cells[i][2] \in Values
                                  /\ s.cells[i] = <<s.cells[i][1], s.cells[i][2]>>
         /\ \A i, j \in 1 .. s.len : s.cells[i][1] = s.cells[j][1] => i = j
<1>1. s.kind = "Object" /\ s.cells \in Pairs /\ s.len = Len(s.cells) /\ s.len \in Nat
  BY DEF IsObject, Pairs
<1>2. DOMAIN s.cells = 1 .. s.len BY <1>1 DEF Pairs
<1>3. Held(s) = s.cells BY <1>1, SubSeqFull DEF Held, Pairs
<1>4. \A i \in 1 .. s.len : s.cells[i] \in Values \X Values BY <1>1, ElementOfSeq DEF Pairs
<1>5. \A i, j \in 1 .. s.len : s.cells[i][1] = s.cells[j][1] => i = j BY DEF IsObject
<1> QED BY <1>1, <1>2, <1>3, <1>4, <1>5

(* New pairs in an object of distinct keys.                                *)
LEMMA NewObject ==
  ASSUME NEW s, IsObject(s), NEW pairs \in Pairs, NEW a,
         \A i, j \in 1 .. Len(pairs) : pairs[i][1] = pairs[j][1] => i = j
  PROVE  LET r == ObjectSet(s, pairs, a) IN
         /\ IsObject(r.store) /\ r.store.kind = "Object" /\ r.store.cells = pairs
         /\ r.store.len = Len(pairs) /\ Held(r.store) = pairs /\ r.answer = a
<1> DEFINE o == [[s EXCEPT !.cells = pairs] EXCEPT !.len = Len(pairs)]
<1>1. o = [kind |-> "Object", cells |-> pairs, len |-> Len(pairs)]
  <2> DEFINE C == Pairs
  <2>1. s \in [kind : {"Object"}, cells : C, len : Nat] BY DEF IsObject, Pairs
  <2>2. pairs \in C /\ Len(pairs) \in Nat BY DEF Pairs
  <2> HIDE DEF C
  <2> DEFINE t == [s EXCEPT !.cells = pairs]
  <2>3. t = [kind |-> "Object", cells |-> pairs, len |-> s.len] /\ s.len \in Nat BY <2>1, <2>2
  <2>4. t \in [kind : {"Object"}, cells : C, len : Nat] /\ t.cells = pairs BY <2>2, <2>3
  <2> HIDE DEF t
  <2>5. [t EXCEPT !.len = Len(pairs)] = [kind |-> "Object", cells |-> t.cells, len |-> Len(pairs)] BY <2>2, <2>4
  <2> QED BY <2>4, <2>5 DEF t
<1>2. o.kind = "Object" /\ o.cells = pairs /\ o.len = Len(pairs) BY <1>1
<1>3. IsObject(o)
  <2>1. Len(pairs) \in Nat BY DEF Pairs
  <2> HIDE DEF o
  <2> QED BY <1>1, <1>2, <2>1 DEF IsObject, Pairs
<1>4. ObjectSet(s, pairs, a) = Result(o, a) BY DEF ObjectSet
<1> HIDE DEF o
<1>5. Held(o) = pairs BY <1>2, SubSeqFull DEF Held, Pairs
<1> QED BY <1>2, <1>3, <1>4, <1>5 DEF Result

(* A property read is the value of the one pair with its key.              *)
LEMMA GetProp ==
  ASSUME NEW s, IsObject(s), NEW k
  PROVE  /\ \A i \in 1 .. s.len : s.cells[i][1] = k => get_prop(s, k) = s.cells[i][2]
         /\ ~has_prop(s, k) => get_prop(s, k) = Undefined
         /\ has_prop(s, k) <=> \E i \in 1 .. s.len : s.cells[i][1] = k
<1>1. /\ DOMAIN s.cells = 1 .. s.len /\ s.len \in Nat
      /\ \A i, j \in 1 .. s.len : s.cells[i][1] = s.cells[j][1] => i = j
  BY ObjectIs
<1> DEFINE at == {i \in DOMAIN s.cells : s.cells[i][1] = k}
<1>2. ASSUME NEW i \in 1 .. s.len, s.cells[i][1] = k PROVE get_prop(s, k) = s.cells[i][2]
  <2>1. at = {i} BY <1>1, <1>2
  <2>2. Min({i}) = i
    <3>1. i \in Int BY <1>1
    <3> QED BY <3>1 DEF Min
  <2> QED BY <2>1, <2>2 DEF get_prop
<1>3. ~has_prop(s, k) => get_prop(s, k) = Undefined BY DEF has_prop, get_prop
<1> QED BY <1>1, <1>2, <1>3 DEF has_prop

(* A property written takes the place of the one with its key, or comes    *)
(* last.                                                                   *)
LEMMA SetProp ==
  ASSUME NEW s, IsObject(s), NEW k \in Values, NEW x \in Values
  PROVE  LET r == set_prop(s, k, x) IN
         /\ IsObject(r.store) /\ r.answer = Nothing /\ r.store.kind = "Object"
         /\ r.store.len >= s.len /\ \A i \in 1 .. s.len : r.store.cells[i][1] = s.cells[i][1]
         /\ Held(r.store) = IF \E i \in 1 .. s.len : s.cells[i][1] = k
                            THEN [i \in 1 .. s.len |-> IF s.cells[i][1] = k THEN <<k, x>> ELSE s.cells[i]]
                            ELSE Append(s.cells, <<k, x>>)
<1> DEFINE c == s.cells
           n == s.len
           r == set_prop(s, k, x)
<1>1. /\ c \in Pairs /\ n = Len(c) /\ n \in Nat /\ DOMAIN c = 1 .. n
      /\ \A i \in 1 .. n : c[i] \in Values \X Values
      /\ \A i, j \in 1 .. n : c[i][1] = c[j][1] => i = j
  <2>1. s.cells \in Pairs /\ s.len = Len(s.cells) /\ s.len \in Nat /\ DOMAIN s.cells = 1 .. s.len
    BY ObjectIs
  <2>2. \A i \in 1 .. n : c[i] \in Values \X Values BY <2>1, ElementOfSeq DEF Pairs
  <2>3. \A i, j \in 1 .. n : c[i][1] = c[j][1] => i = j BY ObjectIs
  <2> QED BY <2>1, <2>2, <2>3
<1>2. <<k, x>> \in Values \X Values /\ <<k, x>>[1] = k OBVIOUS
<1>3. has_prop(s, k) <=> \E i \in 1 .. n : c[i][1] = k BY GetProp
<1> DEFINE p == [i \in 1 .. n |-> IF c[i][1] = k THEN <<k, x>> ELSE c[i]]
           q == Append(c, <<k, x>>)
<1>4. CASE has_prop(s, k)
  <2>1. r = ObjectSet(s, p, Nothing) BY <1>1, <1>4 DEF set_prop
  <2>2. p \in Pairs /\ Len(p) = n
    <3>1. \A i \in 1 .. n : (IF c[i][1] = k THEN <<k, x>> ELSE c[i]) \in Values \X Values BY <1>1, <1>2
    <3> QED BY <1>1, <3>1 DEF Pairs
  <2>3. \A i \in 1 .. n : p[i][1] = c[i][1] BY <1>2
  <2> HIDE DEF p, c
  <2>4. \A i, j \in 1 .. Len(p) : p[i][1] = p[j][1] => i = j BY <1>1, <2>2, <2>3
  <2> HIDE DEF r
  <2>5. /\ IsObject(r.store) /\ r.store.kind = "Object" /\ r.store.cells = p
        /\ r.store.len = Len(p) /\ Held(r.store) = p /\ r.answer = Nothing
    BY <2>1, <2>2, <2>4, NewObject
  <2> QED BY <1>1, <1>3, <1>4, <2>2, <2>3, <2>5 DEF r, c, p
<1>5. CASE ~has_prop(s, k)
  <2>1. r = ObjectSet(s, q, Nothing) BY <1>5 DEF set_prop
  <2>2. q \in Pairs /\ Len(q) = n + 1 /\ (\A i \in 1 .. n : q[i] = c[i]) /\ q[n + 1] = <<k, x>>
    <3> HIDE DEF c
    <3> QED BY <1>1, <1>2, AppendProperties DEF Pairs
  <2> HIDE DEF q, c
  <2>3. \A i, j \in 1 .. Len(q) : q[i][1] = q[j][1] => i = j
    <3>1. \A i \in 1 .. n + 1 : i \in 1 .. n \/ i = n + 1 BY <1>1
    <3>2. \A i \in 1 .. n : c[i][1] # k BY <1>3, <1>5
    <3> QED BY <1>1, <1>2, <2>2, <3>1, <3>2
  <2> HIDE DEF r
  <2>4. /\ IsObject(r.store) /\ r.store.kind = "Object" /\ r.store.cells = q
        /\ r.store.len = Len(q) /\ Held(r.store) = q /\ r.answer = Nothing
    BY <2>1, <2>2, <2>3, NewObject
  <2> QED BY <1>1, <1>3, <1>5, <2>2, <2>4 DEF r, c, q
<1> QED BY <1>4, <1>5

(* A property deleted leaves the others in their order.                    *)
LEMMA DeleteProp ==
  ASSUME NEW s, IsObject(s), NEW k
  PROVE  LET r == delete_prop(s, k) IN
         /\ IsObject(r.store) /\ r.store.kind = "Object" /\ r.store.len <= s.len
         /\ ~has_prop(s, k) => Held(r.store) = s.cells /\ r.answer = Bool(FALSE)
         /\ \A p \in 1 .. s.len : s.cells[p][1] = k =>
              Held(r.store) = Without(s.cells, p) /\ r.answer = Bool(TRUE)
<1> DEFINE c == s.cells
           n == s.len
           kept == retain(c, k)
           r == delete_prop(s, k)
<1>1. c \in Pairs /\ n = Len(c) /\ n \in Nat /\ \A i, j \in 1 .. n : c[i][1] = c[j][1] => i = j
  BY ObjectIs
<1>2. has_prop(s, k) <=> \E i \in 1 .. n : c[i][1] = k BY GetProp
<1>3. r = ObjectSet(s, kept, Bool(Len(kept) # Len(c))) BY DEF delete_prop
<1> HIDE DEF c, r
<1> DEFINE Goal == /\ IsObject(r.store) /\ r.store.kind = "Object" /\ r.store.len <= n
                   /\ ~has_prop(s, k) => Held(r.store) = c /\ r.answer = Bool(FALSE)
                   /\ \A p \in 1 .. n : c[p][1] = k => Held(r.store) = Without(c, p) /\ r.answer = Bool(TRUE)
<1>4. ASSUME NEW p \in 1 .. n + 1, \A i \in 1 .. n : (c[i][1] = k) <=> (i = p)
      PROVE  /\ IsObject(r.store) /\ r.store.kind = "Object" /\ r.store.len <= n
             /\ Held(r.store) = Without(c, p) /\ r.answer = Bool(p <= n)
  <2>1. /\ kept = Without(c, p) /\ kept \in Pairs
        /\ Len(kept) = IF p <= Len(c) THEN Len(c) - 1 ELSE Len(c)
    BY <1>1, <1>4, Retained
  <2>2. /\ Len(kept) \in Nat /\ Len(kept) <= n /\ (Len(kept) # Len(c)) = (p <= n)
        /\ \A j \in 1 .. Len(kept) : j < p => j \in 1 .. n
        /\ \A j \in 1 .. Len(kept) : ~(j < p) => j + 1 \in 1 .. n
    BY <1>1, <2>1
  <2> HIDE DEF kept
  <2>3. \A j \in 1 .. Len(kept) : kept[j] = IF j < p THEN c[j] ELSE c[j + 1] BY <1>1, <2>1, <2>2 DEF Without
  <2>4. \A i, j \in 1 .. Len(kept) : kept[i][1] = kept[j][1] => i = j
    <3> SUFFICES ASSUME NEW i \in 1 .. Len(kept), NEW j \in 1 .. Len(kept), kept[i][1] = kept[j][1]
                 PROVE  i = j
      OBVIOUS
    <3> DEFINE at(y) == IF y < p THEN y ELSE y + 1
    <3>1. kept[i] = c[at(i)] /\ kept[j] = c[at(j)] BY <2>3
    <3>2. at(i) \in 1 .. n /\ at(j) \in 1 .. n BY <2>2
    <3>3. at(i) = at(j)
      <4> HIDE DEF at
      <4> QED BY <1>1, <3>1, <3>2
    <3> QED BY <1>1, <3>3
  <2>5. /\ IsObject(r.store) /\ r.store.kind = "Object" /\ r.store.len = Len(kept)
        /\ Held(r.store) = kept /\ r.answer = Bool(Len(kept) # Len(c))
    <3> DEFINE a == Bool(Len(kept) # Len(c))
    <3>1. r = ObjectSet(s, kept, a) BY <1>3
    <3> HIDE DEF a
    <3>2. /\ IsObject(r.store) /\ r.store.kind = "Object" /\ r.store.len = Len(kept)
          /\ Held(r.store) = kept /\ r.answer = a
      BY <2>1, <2>4, <3>1, NewObject, SMTT(30)
    <3> QED BY <3>2 DEF a
  <2> QED BY <2>1, <2>2, <2>5
<1>5. ASSUME ~has_prop(s, k) PROVE Goal
  <2>1. n + 1 \in 1 .. n + 1 /\ \A i \in 1 .. n : (c[i][1] = k) <=> (i = n + 1) BY <1>1, <1>2, <1>5
  <2>2. /\ IsObject(r.store) /\ r.store.kind = "Object" /\ r.store.len <= n
        /\ Held(r.store) = Without(c, n + 1) /\ r.answer = Bool(n + 1 <= n)
    BY <1>4, <2>1
  <2>3. (n + 1 <= n) = FALSE /\ \A j \in 1 .. n : j < n + 1 BY <1>1
  <2>4. Without(c, n + 1) = c
    <3>1. Without(c, n + 1) = [j \in 1 .. n |-> c[j]] BY <1>1, <2>3 DEF Without
    <3>2. c = [j \in 1 .. n |-> c[j]] BY <1>1 DEF Pairs
    <3> QED BY <3>1, <3>2
  <2>5. \A p \in 1 .. n : c[p][1] # k BY <1>2, <1>5
  <2>6. Goal
    <3> HIDE DEF n
    <3> QED BY <1>5, <2>2, <2>3, <2>4, <2>5
  <2> HIDE DEF Goal
  <2> QED BY <2>6
<1>6. ASSUME has_prop(s, k) PROVE Goal
  <2>1. PICK p \in 1 .. n : c[p][1] = k BY <1>2, <1>6
  <2>2. p \in 1 .. n + 1 /\ (p <= n) = TRUE /\ \A i \in 1 .. n : (c[i][1] = k) <=> (i = p) BY <1>1, <2>1
  <2>3. /\ IsObject(r.store) /\ r.store.kind = "Object" /\ r.store.len <= n
        /\ Held(r.store) = Without(c, p) /\ r.answer = Bool(TRUE)
    BY <1>4, <2>2
  <2>4. \A q \in 1 .. n : c[q][1] = k => q = p BY <2>2
  <2>5. Goal
    <3> HIDE DEF n
    <3> QED BY <1>6, <2>3, <2>4
  <2> HIDE DEF Goal
  <2> QED BY <2>5
<1>7. Goal
  <2> HIDE DEF Goal
  <2> QED BY <1>5, <1>6
<1> QED BY <1>7 DEF r, c

-----------------------------------------------------------------------------
(* Sorting. *)

(* A nonempty set of positions has a last one.                             *)
LEMMA LastPosition ==
  ASSUME NEW n \in Nat, NEW S \in SUBSET (0 .. n), S # {}
  PROVE  Max(S) \in S /\ \A y \in S : Max(S) >= y
<1>1. \E x \in S : \A y \in S : x >= y
  <2> SUFFICES ASSUME \A x \in S : \E y \in S : ~(x >= y) PROVE FALSE OBVIOUS
  <2> DEFINE U == {i \in 0 .. n : \E y \in S : y >= i}
  <2>1. 0 \in U
    <3>1. PICK y \in S : TRUE OBVIOUS
    <3>2. y >= 0 OBVIOUS
    <3> QED BY <3>2
  <2>2. ASSUME NEW i \in 0 .. n - 1, i \in U PROVE i + 1 \in U
    <3>1. PICK y \in S : y >= i BY <2>2
    <3>2. PICK z \in S : ~(y >= z) OBVIOUS
    <3>3. z >= i + 1 /\ i + 1 \in 0 .. n BY <3>1, <3>2
    <3> QED BY <3>3
  <2>3. 0 .. n \subseteq U
    <3> HIDE DEF U
    <3> QED BY <2>1, <2>2, Induction
  <2>4. PICK y \in S : y >= n BY <2>3
  <2>5. PICK z \in S : ~(y >= z) OBVIOUS
  <2> QED BY <2>4, <2>5
<1> QED BY <1>1 DEF Max

(* The comparators that are orders compare whole numbers.                  *)
LEMMA Orders ==
  ASSUME NEW cmp \in Comparators, cmp # "less"
  PROVE  \E key \in [Values -> Int] : \A v, w \in Values : Order(cmp, v, w) = key[v] - key[w]
<1>1. \A v \in Values : Rank(v) \in Int
  <2> SUFFICES ASSUME NEW v \in Values PROVE Rank(v) \in Int OBVIOUS
  <2>1. CASE v[1] \in {"num", "text", "object"} /\ v[2] \in Int BY <2>1 DEF Rank, IsNumber
  <2>2. CASE v = NaN \/ v = Infinity \/ v = Undefined \/ v = Null
    BY <2>2 DEF Rank, IsNumber, NaN, Infinity, Undefined, Null
  <2> QED BY <2>1, <2>2, ValueCases
<1>2. CASE cmp = "equal"
  <2> DEFINE key == [v \in Values |-> 0]
  <2>1. key \in [Values -> Int] OBVIOUS
  <2>2. \A v, w \in Values : Order(cmp, v, w) = key[v] - key[w] BY <1>2 DEF Order
  <2> HIDE DEF key
  <2> QED BY <2>1, <2>2
<1>3. CASE cmp \in {"ascending", "none"}
  <2> DEFINE key == [v \in Values |-> Rank(v)]
  <2>1. key \in [Values -> Int] BY <1>1
  <2>2. \A v, w \in Values : Order(cmp, v, w) = key[v] - key[w] BY <1>3 DEF Order
  <2> HIDE DEF key
  <2> QED BY <2>1, <2>2
<1> QED BY <1>2, <1>3 DEF Comparators

(* The place of the element inserted: after all that do not follow it.     *)
InsertedAfter(cmp, t, x, e, at) ==
  /\ at \in 0 .. Len(t)
  /\ at > 0 => Order(cmp, t[at], x) <= 0
  /\ \A j \in 1 .. Len(t) : j > at => ~(Order(cmp, t[j], x) <= 0)
  /\ e \in Seq(Values) /\ Len(e) = Len(t) + 1
  /\ \A j \in 1 .. Len(t) + 1 : e[j] = IF j < at + 1 THEN t[j] ELSE IF j = at + 1 THEN x ELSE t[j - 1]

(* An insertion puts the new element behind those not greater than it.     *)
LEMMA InsertedIs ==
  ASSUME NEW cmp, NEW t \in Seq(Values), NEW x \in Values
  PROVE  \E at : InsertedAfter(cmp, t, x, Inserted(cmp, t, x), at)
<1> DEFINE S == {0} \cup {i \in DOMAIN t : Order(cmp, t[i], x) <= 0}
           at == Max(S)
           p == at + 1
           e == InsertAt(t, p, x)
<1>1. Len(t) \in Nat /\ DOMAIN t = 1 .. Len(t) OBVIOUS
<1>2. S \in SUBSET (0 .. Len(t)) /\ S # {} BY <1>1
<1>3. at \in S /\ \A y \in S : at >= y
  <2> HIDE DEF S
  <2> QED BY <1>1, <1>2, LastPosition
<1>4. at \in 0 .. Len(t) /\ (at > 0 => Order(cmp, t[at], x) <= 0) BY <1>1, <1>2, <1>3
<1>5. \A j \in 1 .. Len(t) : j > at => ~(Order(cmp, t[j], x) <= 0)
  <2> SUFFICES ASSUME NEW j \in 1 .. Len(t), j > at, Order(cmp, t[j], x) <= 0 PROVE FALSE OBVIOUS
  <2>1. j \in S BY <1>1
  <2> HIDE DEF S
  <2> QED BY <1>3, <1>4, <2>1
<1>6. Inserted(cmp, t, x) = SubSeq(t, 1, at) \o <<x>> \o SubSeq(t, at + 1, Len(t)) BY DEF Inserted
<1> HIDE DEF at, S
<1>7. p - 1 = at /\ p \in 1 .. Len(t) + 1 BY <1>1, <1>4
<1>8. Inserted(cmp, t, x) = e BY <1>6, <1>7 DEF InsertAt
<1>9. /\ e \in Seq(Values) /\ Len(e) = Len(t) + 1
      /\ \A j \in 1 .. Len(t) + 1 : e[j] = IF j < p THEN t[j] ELSE IF j = p THEN x ELSE t[j - 1]
  <2> HIDE DEF p
  <2> QED BY <1>7, Inserts
<1> HIDE DEF e
<1>10. InsertedAfter(cmp, t, x, e, at) BY <1>4, <1>5, <1>9 DEF InsertedAfter, p
<1> QED BY <1>8, <1>10

(* The first n elements, stably ordered: from gives each one's place.      *)
Stable(cmp, data, t, from, n) ==
  /\ t \in Seq(Values) /\ Len(t) = n /\ from \in [1 .. n -> 1 .. n]
  /\ \A i, j \in 1 .. n : i # j => from[i] # from[j]
  /\ \A i \in 1 .. n : t[i] = data[from[i]]
  /\ \A i, j \in 1 .. n : i < j =>
       \/ Order(cmp, t[i], t[j]) < 0
       \/ Order(cmp, t[i], t[j]) = 0 /\ from[i] < from[j]

(* Inserting the next element keeps the order, and its stability.          *)
LEMMA InsertedStably ==
  ASSUME NEW cmp \in Comparators, NEW data \in Seq(Values), NEW n \in 0 .. Len(data) - 1,
         cmp # "less" \/ n = 0,
         NEW t, NEW from, Stable(cmp, data, t, from, n)
  PROVE  \E f : Stable(cmp, data, Inserted(cmp, t, data[n + 1]), f, n + 1)
<1> DEFINE x == data[n + 1]
           e == Inserted(cmp, t, x)
<1>0. n \in Nat /\ n + 1 \in 1 .. Len(data) /\ x \in Values BY ElementOfSeq
<1>1. t \in Seq(Values) /\ Len(t) = n BY DEF Stable
<1> HIDE DEF x
<1>2a. PICK at : InsertedAfter(cmp, t, x, e, at)
  BY <1>0, <1>1, InsertedIs
<1> HIDE DEF e
<1>2. /\ at \in 0 .. n
      /\ at > 0 => Order(cmp, t[at], x) <= 0
      /\ \A j \in 1 .. n : j > at => ~(Order(cmp, t[j], x) <= 0)
      /\ e \in Seq(Values) /\ Len(e) = n + 1
      /\ \A j \in 1 .. n + 1 : e[j] = IF j < at + 1 THEN t[j] ELSE IF j = at + 1 THEN x ELSE t[j - 1]
  BY <1>1, <1>2a DEF InsertedAfter
<1> n \in Nat /\ n + 1 \in Nat /\ at \in Nat /\ at + 1 \in Nat /\ at <= n BY <1>0, <1>2
<1> DEFINE f == [j \in 1 .. n + 1 |-> IF j < at + 1 THEN from[j] ELSE IF j = at + 1 THEN n + 1 ELSE from[j - 1]]
<1>3. /\ from \in [1 .. n -> 1 .. n]
      /\ \A i, j \in 1 .. n : i # j => from[i] # from[j]
      /\ \A i \in 1 .. n : t[i] = data[from[i]]
      /\ \A i, j \in 1 .. n : i < j =>
           \/ Order(cmp, t[i], t[j]) < 0
           \/ Order(cmp, t[i], t[j]) = 0 /\ from[i] < from[j]
  BY DEF Stable
<1>4. \A i \in 1 .. n : t[i] \in Values BY <1>1, ElementOfSeq
<1>5. \A j \in 1 .. n + 1 : /\ j < at + 1 => j \in 1 .. n
                            /\ j > at + 1 => j - 1 \in 1 .. n
                            /\ j < at + 1 \/ j = at + 1 \/ j > at + 1
  BY <1>0
<1>6. f \in [1 .. n + 1 -> 1 .. n + 1]
  <2>1. \A j \in 1 .. n : from[j] \in 1 .. n + 1 BY <1>0, <1>3
  <2>2. \A j \in 1 .. n + 1 :
          (IF j < at + 1 THEN from[j] ELSE IF j = at + 1 THEN n + 1 ELSE from[j - 1]) \in 1 .. n + 1
    BY <1>0, <1>5, <2>1
  <2> QED BY <2>2
<1> DEFINE old(j) == IF j < at + 1 THEN j ELSE j - 1
<1>7. /\ \A j \in 1 .. n + 1 : j # at + 1 => old(j) \in 1 .. n /\ f[j] = from[old(j)] /\ e[j] = t[old(j)]
      /\ f[at + 1] = n + 1 /\ e[at + 1] = x
  <2>1. at + 1 \in 1 .. n + 1 OBVIOUS
  <2>2. f[at + 1] = n + 1 BY <2>1
  <2>3. e[at + 1] = x BY <1>2, <2>1
  <2>4. ASSUME NEW j \in 1 .. n + 1, j # at + 1
        PROVE  old(j) \in 1 .. n /\ f[j] = from[old(j)] /\ e[j] = t[old(j)]
    <3>1. CASE j < at + 1 BY <1>2, <3>1
    <3>2. CASE j > at + 1 BY <1>2, <3>2
    <3> QED BY <2>4, <3>1, <3>2
  <2> QED BY <2>2, <2>3, <2>4
<1>7a. \A i, j \in 1 .. n + 1 : i # at + 1 /\ j # at + 1 /\ i < j => old(i) < old(j) OBVIOUS
<1>7b. \A j \in 1 .. n + 1 : (j < at + 1 => old(j) <= at) /\ (j > at + 1 => old(j) > at) OBVIOUS
<1> HIDE DEF f, old
<1>7c. \A y \in 1 .. n : from[y] \in 1 .. n /\ from[y] < n + 1 BY <1>3
<1>8. \A i, j \in 1 .. n + 1 : i # j => f[i] # f[j]
  <2> SUFFICES ASSUME NEW i \in 1 .. n + 1, NEW j \in 1 .. n + 1, i < j PROVE f[i] # f[j]
    OBVIOUS
  <2>1. CASE i # at + 1 /\ j # at + 1
    <3>1. old(i) \in 1 .. n /\ old(j) \in 1 .. n /\ old(i) # old(j) BY <1>7, <1>7a, <2>1
    <3>2. from[old(i)] # from[old(j)] BY <1>3, <3>1
    <3> QED BY <1>7, <2>1, <3>2
  <2>2. CASE j = at + 1
    <3>1. old(i) \in 1 .. n /\ f[i] = from[old(i)] /\ f[j] = n + 1 BY <1>7, <2>2
    <3> QED BY <1>7c, <3>1
  <2>3. CASE i = at + 1
    <3>1. old(j) \in 1 .. n /\ f[j] = from[old(j)] /\ f[i] = n + 1 BY <1>7, <2>3
    <3> QED BY <1>7c, <3>1
  <2> QED BY <2>1, <2>2, <2>3
<1>9. \A i \in 1 .. n + 1 : e[i] = data[f[i]]
  <2> SUFFICES ASSUME NEW i \in 1 .. n + 1 PROVE e[i] = data[f[i]] OBVIOUS
  <2>1. CASE i # at + 1
    <3>1. old(i) \in 1 .. n /\ f[i] = from[old(i)] /\ e[i] = t[old(i)] BY <1>7, <2>1
    <3> QED BY <1>3, <3>1
  <2>2. CASE i = at + 1 BY <1>7, <2>2 DEF x
  <2> QED BY <2>1, <2>2
<1>10. \A i, j \in 1 .. n + 1 : i < j =>
         \/ Order(cmp, e[i], e[j]) < 0
         \/ Order(cmp, e[i], e[j]) = 0 /\ f[i] < f[j]
  <2> SUFFICES ASSUME NEW i \in 1 .. n + 1, NEW j \in 1 .. n + 1, i < j
               PROVE  \/ Order(cmp, e[i], e[j]) < 0
                      \/ Order(cmp, e[i], e[j]) = 0 /\ f[i] < f[j]
    OBVIOUS
  <2>1. n # 0 /\ cmp # "less" OBVIOUS
  <2>2. PICK key \in [Values -> Int] : \A v, w \in Values : Order(cmp, v, w) = key[v] - key[w]
    BY <2>1, Orders
  <2>3. key[x] \in Int /\ \A y \in 1 .. n : key[t[y]] \in Int BY <1>0, <1>4, <2>2
  <2>3a. /\ \A y, z \in 1 .. n : Order(cmp, t[y], t[z]) = key[t[y]] - key[t[z]]
         /\ \A y \in 1 .. n : /\ Order(cmp, t[y], x) = key[t[y]] - key[x]
                             /\ Order(cmp, x, t[y]) = key[x] - key[t[y]]
    BY <1>0, <1>4, <2>2
  <2> HIDE DEF x
  <2>4. \A y \in 1 .. n : y <= at => key[t[y]] <= key[x]
    <3> SUFFICES ASSUME NEW y \in 1 .. n, y <= at PROVE key[t[y]] <= key[x] OBVIOUS
    <3>1. at \in 1 .. n /\ at > 0 OBVIOUS
    <3>2. key[t[at]] - key[x] <= 0 BY <1>2, <2>3a, <3>1
    <3>3. CASE y = at BY <2>3, <3>1, <3>2, <3>3
    <3>4. CASE y < at
      <4>1. Order(cmp, t[y], t[at]) <= 0
        <5>1. Order(cmp, t[y], t[at]) \in Int
          <6>1. Order(cmp, t[y], t[at]) = key[t[y]] - key[t[at]] BY <2>3a, <3>1
          <6>2. key[t[y]] \in Int /\ key[t[at]] \in Int BY <2>3, <3>1
          <6> QED BY <6>1, <6>2
        <5>2. Order(cmp, t[y], t[at]) < 0 \/ Order(cmp, t[y], t[at]) = 0 BY <1>3, <3>1, <3>4
        <5> QED BY <5>1, <5>2
      <4>2. key[t[y]] - key[t[at]] <= 0 BY <2>3a, <3>1, <4>1
      <4>3. key[t[y]] \in Int /\ key[t[at]] \in Int /\ key[x] \in Int BY <2>3, <3>1
      <4>4. \A k1, k2, k3 \in Int : k1 - k2 <= 0 /\ k2 - k3 <= 0 => k1 <= k3 OBVIOUS
      <4> QED BY <3>2, <4>2, <4>3, <4>4
    <3> QED BY <3>3, <3>4
  <2>5. \A y \in 1 .. n : y > at => key[t[y]] > key[x]
    <3> SUFFICES ASSUME NEW y \in 1 .. n, y > at PROVE key[t[y]] > key[x] OBVIOUS
    <3>1. ~(key[t[y]] - key[x] <= 0) BY <1>2, <2>3a
    <3> QED BY <2>3, <3>1
  <2>6. CASE i # at + 1 /\ j # at + 1
    <3>1. /\ old(i) \in 1 .. n /\ old(j) \in 1 .. n /\ old(i) < old(j)
          /\ f[i] = from[old(i)] /\ f[j] = from[old(j)]
          /\ e[i] = t[old(i)] /\ e[j] = t[old(j)]
      BY <1>7, <1>7a, <2>6
    <3>2. \/ Order(cmp, t[old(i)], t[old(j)]) < 0
          \/ Order(cmp, t[old(i)], t[old(j)]) = 0 /\ from[old(i)] < from[old(j)]
      BY <1>3, <3>1
    <3> QED BY <3>1, <3>2
  <2>7. CASE j = at + 1
    <3>1. /\ old(i) \in 1 .. n /\ old(i) <= at
          /\ f[i] = from[old(i)] /\ f[j] = n + 1 /\ e[i] = t[old(i)] /\ e[j] = x
      BY <1>7, <1>7b, <2>7
    <3>2. Order(cmp, e[i], e[j]) = key[t[old(i)]] - key[x] BY <2>3a, <3>1
    <3>3. key[t[old(i)]] <= key[x] /\ key[t[old(i)]] \in Int BY <2>3, <2>4, <3>1
    <3>4. f[i] < f[j] BY <1>7c, <3>1
    <3> QED BY <2>3, <3>2, <3>3, <3>4
  <2>8. CASE i = at + 1
    <3>1. old(j) \in 1 .. n /\ old(j) > at /\ e[i] = x /\ e[j] = t[old(j)] BY <1>7, <1>7b, <2>8
    <3>2. Order(cmp, e[i], e[j]) = key[x] - key[t[old(j)]] BY <2>3a, <3>1
    <3>3. key[t[old(j)]] > key[x] /\ key[t[old(j)]] \in Int BY <2>3, <2>5, <3>1
    <3> QED BY <2>3, <3>2, <3>3
  <2> QED BY <2>6, <2>7, <2>8
<1>11. Stable(cmp, data, e, f, n + 1)
  BY <1>2, <1>6, <1>8, <1>9, <1>10 DEF Stable
<1> QED BY <1>11 DEF e, x

(* The sort is a sequence of insertions.                                   *)
LEMMA SortSteps ==
  ASSUME NEW cmp, NEW data \in Seq(Values)
  PROVE  \E h : /\ h[0] = <<>>
                /\ \A i \in 1 .. Len(data) : h[i] = Inserted(cmp, h[i - 1], data[i])
                /\ Sorted(cmp, data) = h[Len(data)]
<1> DEFINE n == Len(data)
           T == Seq(Values)
           next(d, i) == Inserted(cmp, d, data[i])
           step == [p \in T \X (1 .. n) |-> next(p[1], p[2])]
           Is(g) == g = [i \in 0 .. n |-> IF i = 0 THEN <<>> ELSE next(g[i - 1], i)]
<1>1. n \in Nat /\ <<>> \in T OBVIOUS
<1>2. step \in [T \X (1 .. n) -> T]
  <2>1. ASSUME NEW d \in T, NEW i \in 1 .. n PROVE next(d, i) \in T
    <3> DEFINE x == data[i]
    <3>1. x \in Values BY ElementOfSeq
    <3> HIDE DEF x
    <3>2. PICK at : InsertedAfter(cmp, d, x, Inserted(cmp, d, x), at) BY <3>1, InsertedIs
    <3> QED BY <3>2 DEF InsertedAfter, x
  <2> HIDE DEF T, next, n
  <2>2. \A p \in T \X (1 .. n) : next(p[1], p[2]) \in T BY <2>1
  <2> QED BY <2>2
<1>3. PICK g : IsRun(g, n, T, <<>>, step)
  <2> HIDE DEF step, T, n
  <2> QED BY <1>1, <1>2, Recursion
<1>4. g[0] = <<>> /\ \A i \in 1 .. n : g[i] = next(g[i - 1], i)
  <2>1. \A i \in 1 .. n : i - 1 \in 0 .. n BY <1>1
  <2>2. \A i \in 1 .. n : g[i - 1] \in T /\ g[i] = step[<<g[i - 1], i>>]
    <3> HIDE DEF step, T, n
    <3> QED BY <1>3, <2>1 DEF IsRun
  <2>3. \A d \in T, i \in 1 .. n : step[<<d, i>>] = next(d, i)
    <3> HIDE DEF T, next, n
    <3> QED OBVIOUS
  <2>4. g[0] = <<>> BY <1>3 DEF IsRun
  <2> HIDE DEF step, T, next, n
  <2> QED BY <2>2, <2>3, <2>4
<1> HIDE DEF step
<1>5. Is(g)
  <2>1. g = [i \in 0 .. n |-> g[i]] BY <1>3 DEF IsRun
  <2>2. \A i \in 0 .. n : i = 0 \/ i \in 1 .. n BY <1>1
  <2> HIDE DEF n, next
  <2>3. \A i \in 0 .. n : g[i] = IF i = 0 THEN <<>> ELSE next(g[i - 1], i) BY <1>4, <2>2
  <2> QED BY <2>1, <2>3
<1> DEFINE h == CHOOSE h : Is(h)
<1>6. Is(h) BY <1>5
<1>7. Sorted(cmp, data) = h[n] BY DEF Sorted
<1>8. h[0] = <<>> /\ \A i \in 1 .. n : h[i] = next(h[i - 1], i)
  <2>1. 0 \in 0 .. n /\ \A i \in 1 .. n : i \in 0 .. n /\ i # 0 BY <1>1
  <2> HIDE DEF h, n, next
  <2> QED BY <1>6, <2>1
<1> HIDE DEF h
<1> QED BY <1>7, <1>8

(* The sort leaves the same elements, in order, and equal ones as they     *)
(* were, for every array and every comparator that is an order.            *)
LEMMA ArrSort ==
  ASSUME NEW cmp \in Comparators, NEW data \in Seq(Values), IsOrder(cmp, data)
  PROVE  \E from : Stable(cmp, data, Sorted(cmp, data), from, Len(data))
<1> DEFINE n == Len(data)
<1>1. PICK h : /\ h[0] = <<>>
               /\ \A i \in 1 .. n : h[i] = Inserted(cmp, h[i - 1], data[i])
               /\ Sorted(cmp, data) = h[n]
  BY SortSteps
<1> DEFINE S == {i \in 0 .. n : \E f : Stable(cmp, data, h[i], f, i)}
<1>2. n \in Nat OBVIOUS
<1>3. 0 \in S
  <2>1. Stable(cmp, data, <<>>, [j \in 1 .. 0 |-> j], 0) BY DEF Stable
  <2>2. Stable(cmp, data, h[0], [j \in 1 .. 0 |-> j], 0) BY <1>1, <2>1
  <2> QED BY <1>2, <2>2
<1>4. ASSUME NEW i \in 0 .. n - 1, i \in S PROVE i + 1 \in S
  <2>1. i + 1 \in 1 .. n /\ i + 1 \in 0 .. n /\ (i + 1) - 1 = i BY <1>2
  <2>2. PICK f : Stable(cmp, data, h[i], f, i) BY <1>4
  <2>3. cmp # "less" \/ i = 0 BY <1>2 DEF IsOrder
  <2>4. PICK g : Stable(cmp, data, Inserted(cmp, h[i], data[i + 1]), g, i + 1)
    <3> HIDE DEF S
    <3> DEFINE t == h[i]
    <3>1. Stable(cmp, data, t, f, i) BY <2>2
    <3> HIDE DEF t
    <3>2. \E g : Stable(cmp, data, Inserted(cmp, t, data[i + 1]), g, i + 1)
      BY <2>3, <3>1, InsertedStably
    <3> QED BY <3>2 DEF t
  <2>5. h[i + 1] = Inserted(cmp, h[i], data[i + 1]) BY <1>1, <2>1
  <2>6. Stable(cmp, data, h[i + 1], g, i + 1) BY <2>4, <2>5
  <2> QED BY <2>1, <2>6
<1>5. 0 .. n \subseteq S
  <2> HIDE DEF S, n
  <2> QED BY <1>2, <1>3, <1>4, Induction
<1> QED BY <1>1, <1>2, <1>5

-----------------------------------------------------------------------------
(* Elements taken away. *)

(* A part of an array is an array.                                         *)
LEMMA PartIs ==
  ASSUME NEW data \in Seq(Values), NEW a \in 1 .. Len(data) + 1, NEW b \in a - 1 .. Len(data)
  PROVE  SubSeq(data, a, b) \in Seq(Values) /\ Len(SubSeq(data, a, b)) = b - a + 1
<1>1. \A i \in a .. b : data[i] \in Values
  <2>1. \A i \in a .. b : i \in 1 .. Len(data) OBVIOUS
  <2> QED BY <2>1, ElementOfSeq
<1>2. SubSeq(data, a, b) \in Seq(Values) /\ Len(SubSeq(data, a, b)) = IF a <= b THEN b - a + 1 ELSE 0
  BY <1>1, SubSeqProperties
<1> QED BY <1>2

(* The last element of an array, taken away.                               *)
LEMMA ArrPop ==
  ASSUME NEW data \in Seq(Values)
  PROVE  LET r == vs_arr_pop(data)
             d == SubSeq(data, 1, Len(data) - 1) IN
         /\ Len(data) = 0 => r = ArraySet(data, Undefined)
         /\ Len(data) # 0 => /\ r = ArraySet(d, data[Len(data)])
                             /\ d \in Seq(Values) /\ Len(d) = Len(data) - 1 /\ data[Len(data)] \in Values
<1>1. CASE Len(data) = 0
  <2>1. data = <<>> BY <1>1
  <2> QED BY <1>1, <2>1 DEF vs_arr_pop
<1>2. CASE Len(data) # 0
  <2>1. data # <<>> /\ Len(data) \in 1 .. Len(data) BY <1>2
  <2>2. data[Len(data)] \in Values BY <2>1, ElementOfSeq
  <2>3. SubSeq(data, 1, Len(data) - 1) \in Seq(Values) /\ Len(SubSeq(data, 1, Len(data) - 1)) = Len(data) - 1
    <3> DEFINE n == Len(data)
               b == n - 1
    <3>1. n \in Nat /\ n # 0 BY <1>2
    <3>2. 1 \in 1 .. n + 1 /\ b \in 1 - 1 .. n /\ b - 1 + 1 = b BY <3>1
    <3> HIDE DEF b
    <3>3. SubSeq(data, 1, b) \in Seq(Values) /\ Len(SubSeq(data, 1, b)) = b - 1 + 1 BY <3>2, PartIs
    <3> QED BY <3>2, <3>3 DEF b
  <2> QED BY <1>2, <2>1, <2>2, <2>3 DEF vs_arr_pop, Front, Last
<1> QED BY <1>1, <1>2

(* The first element of an array, taken away.                              *)
LEMMA ArrShift ==
  ASSUME NEW data \in Seq(Values)
  PROVE  LET r == vs_arr_shift(data)
             d == SubSeq(data, 2, Len(data)) IN
         /\ Len(data) = 0 => r = ArraySet(data, Undefined)
         /\ Len(data) # 0 => /\ r = ArraySet(d, data[1])
                             /\ d \in Seq(Values) /\ Len(d) = Len(data) - 1
<1>1. CASE Len(data) = 0
  <2>1. data = <<>> BY <1>1
  <2> QED BY <1>1, <2>1 DEF vs_arr_shift
<1>2. CASE Len(data) # 0
  <2>1. data # <<>> /\ Tail(data) = SubSeq(data, 2, Len(data)) /\ Head(data) = data[1] BY <1>2
  <2>2. SubSeq(data, 2, Len(data)) \in Seq(Values) /\ Len(SubSeq(data, 2, Len(data))) = Len(data) - 1
    <3> DEFINE n == Len(data)
    <3>1. n \in Nat /\ n # 0 BY <1>2
    <3>2. 2 \in 1 .. n + 1 /\ n \in 2 - 1 .. n /\ n - 2 + 1 = n - 1 BY <3>1
    <3>3. SubSeq(data, 2, n) \in Seq(Values) /\ Len(SubSeq(data, 2, n)) = n - 2 + 1 BY <3>2, PartIs
    <3> HIDE DEF n
    <3> QED BY <3>2, <3>3 DEF n
  <2> QED BY <1>2, <2>1, <2>2 DEF vs_arr_shift
<1> QED BY <1>1, <1>2

(* The splice of an array whose start and count fit a machine word: the    *)
(* arguments take the place of the elements counted.                       *)
LEMMA ArrSplice ==
  ASSUME NEW data \in Seq(Values), Len(data) <= MaxLength, NEW start \in Values, NEW count \in Values,
         NEW xs \in Seq(Values)
  PROVE  LET r == vs_arr_splice(data, start, count, xs)
             s == norm_index(start, Len(data))
             m == s + usize(count)
             e == IF m < Len(data) THEN m ELSE Len(data) IN
         /\ \E d \in Seq(Values) : r.store = new_array(d)
         /\ m <= UsizeMax => r = ArraySet(SubSeq(data, 1, s) \o xs \o SubSeq(data, e + 1, Len(data)),
                                          Sequence(SubSeq(data, s + 1, e)))
<1> DEFINE n == Len(data)
           s == norm_index(start, n)
           m == s + usize(count)
           e == Min({m % (UsizeMax + 1), n})
           d == SubSeq(data, 1, s) \o xs \o SubSeq(data, e + 1, n)
           r == vs_arr_splice(data, start, count, xs)
<1>1. n \in 0 .. MaxLength /\ n \in Nat OBVIOUS
<1>2. s \in 0 .. n /\ usize(count) \in 0 .. UsizeMax BY <1>1, NormIndex, UsizeIs
<1>3. m % (UsizeMax + 1) \in 0 .. UsizeMax /\ m \in Nat
  <2> HIDE DEF s
  <2>1. m \in Nat /\ UsizeMax \in Nat BY <1>1, <1>2
  <2> HIDE DEF m
  <2> QED BY <2>1
<1>4. e = (IF m % (UsizeMax + 1) < n THEN m % (UsizeMax + 1) ELSE n) /\ e \in 0 .. n
  <2> DEFINE w == m % (UsizeMax + 1)
  <2>1. w \in Int /\ n \in Int /\ w \in 0 .. UsizeMax BY <1>1, <1>3
  <2> HIDE DEF w
  <2>2. Min({w, n}) = IF w < n THEN w ELSE n
    <3> HIDE DEF n
    <3> QED BY <2>1, Extremes
  <2>3. Min({w, n}) \in 0 .. n
    <3> HIDE DEF n
    <3> QED BY <1>1, <2>1, <2>2
  <2> QED BY <2>2, <2>3 DEF w
<1>5. r = IF e < s THEN ArraySet(data, Abort) ELSE ArraySet(d, Sequence(SubSeq(data, s + 1, e)))
  BY DEF vs_arr_splice
<1> HIDE DEF e, s, n, r
<1>6. d \in Seq(Values)
  <2>1. SubSeq(data, 1, s) \in Seq(Values)
    <3>1. \A i \in 1 .. s : data[i] \in Values
      <4>1. \A i \in 1 .. s : i \in 1 .. Len(data) BY <1>1, <1>2 DEF n
      <4> QED BY <4>1, ElementOfSeq
    <3> QED BY <1>1, <1>2, <3>1, SubSeqProperties
  <2>2. SubSeq(data, e + 1, n) \in Seq(Values)
    <3>1. \A i \in e + 1 .. n : data[i] \in Values
      <4>1. \A i \in e + 1 .. n : i \in 1 .. Len(data) BY <1>1, <1>4 DEF n
      <4> QED BY <4>1, ElementOfSeq
    <3>2. e + 1 \in Int /\ n \in Int BY <1>1, <1>4
    <3> QED BY <3>1, <3>2, SubSeqProperties
  <2>3. SubSeq(data, 1, s) \o xs \in Seq(Values) BY <2>1, ConcatProperties
  <2> QED BY <2>2, <2>3, ConcatProperties
<1> HIDE DEF d
<1>7. \E y \in Seq(Values) : r.store = new_array(y)
  <2>1. r.store = IF e < s THEN new_array(data) ELSE new_array(d) BY <1>5 DEF ArraySet, Result
  <2> QED BY <1>6, <2>1
<1>8. ASSUME m <= UsizeMax
      PROVE  e = (IF m < n THEN m ELSE n) /\ r = ArraySet(d, Sequence(SubSeq(data, s + 1, e)))
  <2>1. m \in 0 .. UsizeMax /\ UsizeMax \in Nat /\ s <= m BY <1>1, <1>2, <1>3, <1>8
  <2> HIDE DEF m
  <2>2. m % (UsizeMax + 1) = m BY <2>1, Wraps
  <2>3. e = (IF m < n THEN m ELSE n) BY <1>4, <2>2
  <2>4. ~(e < s) BY <1>1, <1>2, <2>1, <2>3
  <2> QED BY <1>5, <2>3, <2>4
<1> QED BY <1>7, <1>8 DEF d, r, s, n

-----------------------------------------------------------------------------
(* ---- the program ---------------------------------------------------------------------- *)

HIDE ModulusAssumption
HIDE CollectionsAssumption

(* The promise speaks of the same values as the runtime.                   *)
LEMMA SameConstants ==
  /\ Promise!NaN = NaN /\ Promise!Infinity = Infinity /\ Promise!Undefined = Undefined
  /\ Promise!Null = Null /\ Promise!TypeError = TypeError /\ Promise!RangeError = RangeError
  /\ Promise!ReferenceError = ReferenceError /\ Promise!Nothing = Nothing
  /\ Promise!Vectors = Vectors /\ Promise!NumericVectors = NumericVectors
  /\ \A i : Promise!N(i) = N(i)
  /\ \A b : Promise!Bool(b) = Bool(b)
  /\ \A s : Promise!Sequence(s) = Sequence(s)
BY DEF Promise!NaN, NaN, Promise!Infinity, Infinity, Promise!Undefined, Undefined,
       Promise!Null, Null, Promise!TypeError, TypeError, Promise!RangeError, RangeError,
       Promise!ReferenceError, ReferenceError, Promise!Nothing, Nothing, Promise!Vectors, Vectors,
       Promise!NumericVectors, NumericVectors, Promise!N, N, Promise!Bool, Bool,
       Promise!Sequence, Sequence

(* ... and converts, compares and orders them as the runtime does.         *)
LEMMA SameOperators ==
  /\ \A v : Promise!any_to_number(v) = any_to_number(v) /\ Promise!IsNumber(v) = IsNumber(v)
  /\ \A kind, v : Promise!Stored(kind, v) = Stored(kind, v)
  /\ \A kind, v : Promise!Unboxed(kind, v) = Unboxed(kind, v)
  /\ \A kind : Promise!Zero(kind) = Zero(kind)
  /\ \A v, w : Promise!StrictlyEqual(v, w) = StrictlyEqual(v, w)
  /\ \A cmp, v, w : Promise!Order(cmp, v, w) = Order(cmp, v, w)
<1>1. \A v : Promise!IsNumber(v) = IsNumber(v) BY DEF Promise!IsNumber, IsNumber
<1>2. \A v : Promise!any_to_number(v) = any_to_number(v)
  BY SameConstants DEF Promise!any_to_number, any_to_number
<1>3. \A v : Promise!to_uint32(v) = to_uint32(v)
  BY <1>1, SameConstants DEF Promise!to_uint32, to_uint32
<1>4. \A v : Promise!to_int32(v) = to_int32(v)
  BY <1>1, SameConstants DEF Promise!to_int32, to_int32
<1>5. \A kind, v : Promise!Stored(kind, v) = Stored(kind, v)
  BY <1>2, <1>3, <1>4 DEF Promise!Stored, Stored
<1>6. \A kind, v : Promise!Unboxed(kind, v) = Unboxed(kind, v)
  BY <1>5, SameConstants DEF Promise!Unboxed, Unboxed
<1>7. \A kind : Promise!Zero(kind) = Zero(kind) BY SameConstants DEF Promise!Zero, Zero
<1>8. \A v, w : Promise!StrictlyEqual(v, w) = StrictlyEqual(v, w)
  BY SameConstants DEF Promise!StrictlyEqual, StrictlyEqual
<1>9. \A v : Promise!Rank(v) = Rank(v) BY <1>1 DEF Promise!Rank, Rank
<1>10. \A cmp, v, w : Promise!Order(cmp, v, w) = Order(cmp, v, w)
  BY <1>9 DEF Promise!Order, Order
<1> QED BY <1>1, <1>2, <1>5, <1>6, <1>7, <1>8, <1>10

-----------------------------------------------------------------------------
(* A receiver, well formed: a vector, an array or an object.               *)
IsStore(s) == Buffer(s) \/ IsArray(s) \/ IsObject(s)

(* What a receiver of each kind is.                                        *)
LEMMA StoreIs ==
  ASSUME NEW s, IsStore(s)
  PROVE  /\ s.kind \in Kinds /\ s.len \in Nat /\ Len(Held(s)) = s.len
         /\ s.kind \in Vectors => Buffer(s)
         /\ s.kind = "Array"   => IsArray(s)
         /\ s.kind = "Object"  => IsObject(s)
         /\ s.kind # "Object"  => /\ Held(s) \in Seq(Values)
                                  /\ \A i \in 1 .. s.len : /\ Held(s)[i] = s.cells[i] /\ s.cells[i] \in Values
                                                           /\ Stored(s.kind, s.cells[i]) = s.cells[i]
<1>1. CASE Buffer(s)
  <2>1. s.kind \in Vectors /\ s.kind # "Array" /\ s.kind # "Object" BY <1>1, HeldIs DEF Vectors, NumericVectors
  <2> QED BY <1>1, <2>1, HeldIs DEF Kinds, Elements
<1>2. CASE IsArray(s)
  <2>1. s.kind = "Array" /\ s.kind \notin Vectors /\ Held(s) = s.cells /\ s.cells \in Seq(Values) /\ s.len = Len(s.cells)
    BY <1>2, ArrayIs DEF Vectors, NumericVectors
  <2>2. \A i \in 1 .. s.len : s.cells[i] \in Values BY <2>1, ElementOfSeq
  <2>3. \A v : Stored("Array", v) = v BY DEF Stored
  <2> QED BY <1>2, <2>1, <2>2, <2>3 DEF Kinds
<1>3. CASE IsObject(s)
  <2>1. s.kind = "Object" /\ s.kind \notin Vectors /\ Held(s) = s.cells /\ s.len = Len(s.cells) /\ s.len \in Nat
    BY <1>3, ObjectIs DEF Vectors, NumericVectors
  <2> QED BY <1>3, <2>1 DEF Kinds
<1> QED BY <1>1, <1>2, <1>3 DEF IsStore

(* A conversion does nothing to what an array takes, and what a vector     *)
(* takes it converts.                                                      *)
LEMMA Takes ==
  ASSUME NEW xs \in Seq(Values)
  PROVE  /\ StoredAll("Array", xs) = xs
         /\ Promise!Taken(xs) = StoredAll(store.kind, xs)
<1>1. DOMAIN xs = 1 .. Len(xs) /\ xs = [i \in 1 .. Len(xs) |-> xs[i]] OBVIOUS
<1>2. \A v : Stored("Array", v) = v BY DEF Stored
<1>3. StoredAll("Array", xs) = xs BY <1>1, <1>2 DEF StoredAll
<1>4. Promise!Taken(xs) = StoredAll(store.kind, xs)
  BY <1>1, SameOperators DEF Promise!Taken, StoredAll
<1> QED BY <1>3, <1>4

(* A call, answered.                                                       *)
Answering(c) ==
  /\ IsStore(store) /\ store.len <= MaxLength /\ IsCall(store.kind, c)
  /\ \E r \in Outcomes(store, c) : store' = r.store /\ answer' = r.answer

(* How the receiver may change, whatever the call.                         *)
StoreKept == IsStore(store') /\ store'.kind = store.kind
Same      == store' = store

(* The contents, before and after.                                         *)
LEMMA ContentsAre ==
  /\ Contents = Held(store) /\ Contents' = Held(store')
  /\ Promise!Size = Len(Held(store))
BY DEF Contents, Held, Promise!Size

(* Which calls of the program's the runtime answers, and through which     *)
(* function.                                                               *)
LEMMA Dispatch ==
  ASSUME NEW c, Answering(c)
  PROVE  \/ /\ c.path = "boxed" /\ c.name \in BoxedCalls(store.kind)
            /\ \E r : /\ store' = r.store /\ answer' = r.answer
                      /\ r \in CASE c.name = "get"    -> {Result(store, vs_any_index_get(store, c.args[1]))}
                                 [] c.name = "set"    -> {vs_any_index_set(store, c.args[1], c.args[2])}
                                 [] c.name = "has"    -> {Result(store, Bool(vs_any_has_prop(c.args[1], store)))}
                                 [] c.name = "delete" -> {vs_any_delete_prop(store, c.args[1])}
                                 [] c.name = "length" -> {Result(store, vs_any_get_prop(store, "length"))}
                                 [] OTHER             -> {Result(store, ReferenceError)}
         \/ /\ c.path = "typed" /\ c.name \in TypedCalls
            /\ Accepts(store.kind, c) /\ store.kind # "Object"
            /\ \E r : /\ store' = r.store /\ answer' = r.answer
                      /\ r \in LET a == Checked(store.kind, c).args
                               IN  CASE c.name = "get"      -> {Result(store, SeqGet(store, a[1]))}
                                     [] c.name = "set"      -> {SeqSet(store, a[1], a[2])}
                                     [] c.name = "length"   -> {Result(store, N(store.len))}
                                     [] c.name = "moveLast" -> {MoveLast(store)}
                                     [] OTHER -> IF store.kind = "Array" THEN call_arr(store, c)
                                                 ELSE call_vec(store, c)
<1>1. PICK r \in Outcomes(store, c) : store' = r.store /\ answer' = r.answer BY DEF Answering
<1>2. CASE c.path = "boxed"
  <2>1. c.name \in BoxedCalls(store.kind) BY <1>2 DEF Answering, IsCall
  <2> QED BY <1>1, <1>2, <2>1 DEF Outcomes
<1>3. CASE c.path = "typed"
  <2>1. c.name \in TypedCalls BY <1>3 DEF Answering, IsCall
  <2>2. Accepts(store.kind, c) BY <1>1, <1>3 DEF Outcomes
  <2>3. store.kind # "Object" BY <2>2 DEF Accepts
  <2> QED BY <1>1, <1>3, <2>1, <2>2, <2>3 DEF Outcomes
<1> QED BY <1>2, <1>3 DEF Answering, IsCall

-----------------------------------------------------------------------------
(* Calls on sequences, by a typed receiver. *)

(* The typed calls that no boxed receiver has, on an array and on a        *)
(* vector.                                                                 *)
SequenceCalls == {"push", "unshift", "pop", "shift", "slice", "splice", "indexOf", "concat", "reverse", "sort"}
(* Those calls reach an array through call_arr, a vector through call_vec. *)
LEMMA TypedOnly ==
  ASSUME NEW c, Answering(c), c.name \in SequenceCalls \cup {"setLength"}, c.path = "typed"
  PROVE  /\ Accepts(store.kind, c) /\ c.args \in Arguments(c.name)
         /\ \/ /\ store.kind = "Array" /\ IsArray(store)
               /\ \E r \in call_arr(store, c) : store' = r.store /\ answer' = r.answer
            \/ /\ store.kind \in Vectors /\ Buffer(store)
               /\ \E r \in call_vec(store, c) : store' = r.store /\ answer' = r.answer
<1>1. c.args \in Arguments(c.name) BY DEF Answering, IsCall
<1>2. /\ c.name # "get" /\ c.name # "set" /\ c.name # "length" /\ c.name # "moveLast"
  BY DEF SequenceCalls
<1>3. PICK r : /\ Accepts(store.kind, c) /\ store.kind # "Object"
               /\ store' = r.store /\ answer' = r.answer
               /\ store.kind = "Array" => r \in call_arr(store, c)
               /\ store.kind # "Array" => r \in call_vec(store, c)
  BY <1>2, Dispatch
<1>4. store.kind \in Kinds BY StoreIs DEF Answering
<1>5. CASE store.kind = "Array"
  <2>1. IsArray(store) BY <1>5, StoreIs DEF Answering
  <2> QED BY <1>1, <1>3, <1>5, <2>1
<1>6. CASE store.kind \in Vectors
  <2>1. Buffer(store) BY <1>6, StoreIs DEF Answering
  <2>2. store.kind # "Array" BY <1>6 DEF Vectors, NumericVectors
  <2> QED BY <1>1, <1>3, <1>6, <2>1, <2>2
<1> QED BY <1>3, <1>4, <1>5, <1>6 DEF Kinds

(* The arguments of a call, by its name.                                   *)
LEMMA ArgumentsAre ==
  ASSUME NEW name, NEW args \in Arguments(name)
  PROVE  /\ name \in {"push", "unshift", "concat"} => args \in Seq(Values)
         /\ name = "splice" => args \in Seq(Values) /\ Len(args) >= 2 /\ args[1] \in Values /\ args[2] \in Values
         /\ name \in {"slice", "indexOf", "set"} =>
              args \in Seq(Values) /\ Len(args) = 2 /\ args[1] \in Values /\ args[2] \in Values
         /\ name \in Unary => args \in Seq(Values) /\ Len(args) = 1 /\ args[1] \in Values
         /\ name = "setLength" => args[1][2] \in Nat
         /\ name = "sort" => args[1][2] \in Comparators
<1>1. CASE name \in {"push", "unshift", "concat"} BY <1>1 DEF Arguments, Unary
<1>2. CASE name = "splice"
  <2>1. args \in Seq(Values) /\ Len(args) >= 2 BY <1>2 DEF Arguments, Unary
  <2> QED BY <1>2, <2>1, ElementOfSeq DEF Unary
<1>3. CASE name \in {"slice", "indexOf", "set"}
  <2>1. args \in Seq(Values) /\ Len(args) = 2 BY <1>3 DEF Arguments, Unary
  <2>2. 1 \in 1 .. Len(args) /\ 2 \in 1 .. Len(args) BY <2>1
  <2>3. args[1] \in Values /\ args[2] \in Values BY <2>1, <2>2, ElementOfSeq
  <2> QED BY <1>3, <2>1, <2>3 DEF Unary
<1>4. CASE name \in Unary
  <2>1. args \in Seq(Values) /\ Len(args) = 1 BY <1>4 DEF Arguments, Unary
  <2>2. 1 \in 1 .. Len(args) BY <2>1
  <2>3. args[1] \in Values BY <2>1, <2>2, ElementOfSeq
  <2> QED BY <1>4, <2>1, <2>3 DEF Unary
<1>5. CASE name = "setLength"
  <2>1. args \in Seq({"num"} \X Nat) /\ Len(args) = 1 BY <1>5 DEF Arguments, Unary
  <2>2. 1 \in 1 .. Len(args) BY <2>1
  <2>3. args[1] \in {"num"} \X Nat BY <2>1, <2>2, ElementOfSeq
  <2> QED BY <1>5, <2>3 DEF Unary
<1>6. CASE name = "sort"
  <2>1. args \in Seq({"cmp"} \X Comparators) /\ Len(args) = 1 BY <1>6 DEF Arguments, Unary
  <2>2. args[1] \in {"cmp"} \X Comparators BY <2>1
  <2> QED BY <1>6, <2>2 DEF Unary
<1> QED BY <1>1, <1>2, <1>3, <1>4, <1>5, <1>6

(* No boxed receiver has these calls.                                      *)
LEMMA OnlyTyped ==
  ASSUME NEW c, Answering(c), c.name \in SequenceCalls
  PROVE  c.path = "typed" /\ c.name \in SequenceCalls \cup {"setLength"}
BY DEF Answering, IsCall, BoxedCalls, Unary, SequenceCalls

(* push appends what its arguments convert to.                             *)
LEMMA PushKeeps ==
  ASSUME NEW c, Answering(c), c.name = "push"
  PROVE  StoreKept /\ store'.len >= store.len /\ Promise!Push(c)
<1>0. c.name \in SequenceCalls BY DEF SequenceCalls
<1>1. /\ Accepts(store.kind, c) /\ c.args \in Arguments(c.name)
      /\ \/ /\ store.kind = "Array" /\ IsArray(store)
            /\ \E r \in call_arr(store, c) : store' = r.store /\ answer' = r.answer
         \/ /\ store.kind \in Vectors /\ Buffer(store)
            /\ \E r \in call_vec(store, c) : store' = r.store /\ answer' = r.answer
  BY <1>0, OnlyTyped, TypedOnly
<1>2. c.args \in Seq(Values) BY <1>1, ArgumentsAre
<1> DEFINE xs == c.args
<1>3. CASE store.kind = "Array" /\ IsArray(store)
  <2> DEFINE d == store.cells \o xs
  <2>1. store.kind \notin Vectors BY <1>3 DEF Vectors, NumericVectors
  <2>2. store' = new_array(d) /\ answer' = N(Len(store.cells) + Len(xs))
    <3>1. PICK r \in call_arr(store, c) : store' = r.store /\ answer' = r.answer BY <1>1, <2>1
    <3>2. r = ArraySet(d, N(Len(store.cells) + Len(xs))) BY <3>1 DEF call_arr
    <3> QED BY <3>1, <3>2 DEF ArraySet, Result
  <2>3. store.cells \in Seq(Values) /\ store.len = Len(store.cells) /\ Held(store) = store.cells BY <1>3, ArrayIs
  <2>4. d \in Seq(Values) /\ Len(d) = Len(store.cells) + Len(xs) BY <1>2, <2>3, ConcatProperties
  <2>5. Promise!Taken(xs) = xs BY <1>2, <1>3, Takes
  <2> HIDE DEF d
  <2>6. IsStore(store') /\ store'.kind = "Array" /\ store'.len = Len(d) /\ Held(store') = d
    BY <2>2, <2>4, NewArray DEF IsStore
  <2>7. Promise!Push(c)
    BY <2>2, <2>3, <2>4, <2>5, <2>6, ContentsAre, SameConstants DEF Promise!Push, d
  <2>8. store'.len >= store.len
    <3> DEFINE m == Len(xs)
               n == Len(store.cells)
    <3>1. m \in Nat /\ n \in Nat /\ store.len = n BY <1>2, <2>3
    <3>2. store'.len = n + m BY <2>4, <2>6
    <3> HIDE DEF m, n
    <3> QED BY <3>1, <3>2
  <2> QED BY <1>3, <2>6, <2>7, <2>8 DEF StoreKept
<1>4. CASE store.kind \in Vectors /\ Buffer(store)
  <2>1. store.kind # "Array" BY <1>4 DEF Vectors, NumericVectors
  <2>2. store' = push_all(store, xs) /\ answer' = N(store'.len)
    BY <1>1, <2>1 DEF call_vec, Result
  <2>3. /\ Buffer(store') /\ store'.kind = store.kind /\ store'.len = store.len + Len(xs)
        /\ Held(store') = Held(store) \o StoredAll(store.kind, xs)
    BY <1>2, <1>4, <2>2, PushAll
  <2>4. Promise!Taken(xs) = StoredAll(store.kind, xs) BY <1>2, Takes
  <2>5. Len(Held(store')) = store'.len /\ store.len \in Nat BY <1>4, <2>3, HeldIs
  <2>6. Promise!Push(c)
    BY <2>2, <2>3, <2>4, <2>5, ContentsAre, SameConstants DEF Promise!Push
  <2>7. Len(xs) \in Nat BY <1>2
  <2> QED BY <2>3, <2>5, <2>6, <2>7 DEF StoreKept, IsStore
<1> QED BY <1>1, <1>3, <1>4

(* unshift puts them first.                                                *)
LEMMA UnshiftKeeps ==
  ASSUME NEW c, Answering(c), c.name = "unshift"
  PROVE  StoreKept /\ Promise!Unshift(c)
<1>0. c.name \in SequenceCalls BY DEF SequenceCalls
<1>1. /\ c.args \in Arguments(c.name)
      /\ \/ /\ store.kind = "Array" /\ IsArray(store)
            /\ \E r \in call_arr(store, c) : store' = r.store /\ answer' = r.answer
         \/ /\ store.kind \in Vectors /\ Buffer(store)
            /\ \E r \in call_vec(store, c) : store' = r.store /\ answer' = r.answer
  BY <1>0, OnlyTyped, TypedOnly
<1>2. c.args \in Seq(Values) BY <1>1, ArgumentsAre
<1> DEFINE xs == c.args
<1>3. CASE store.kind = "Array" /\ IsArray(store)
  <2> DEFINE d == xs \o store.cells
  <2>1. store.kind \notin Vectors BY <1>3 DEF Vectors, NumericVectors
  <2>2. store' = new_array(vs_arr_unshift(store.cells, xs)) /\ answer' = N(Len(store.cells) + Len(xs))
    <3>1. PICK r \in call_arr(store, c) : store' = r.store /\ answer' = r.answer BY <1>1, <2>1
    <3>2. r = ArraySet(vs_arr_unshift(store.cells, xs), N(Len(store.cells) + Len(xs))) BY <3>1 DEF call_arr
    <3> QED BY <3>1, <3>2 DEF ArraySet, Result
  <2>3. store.cells \in Seq(Values) /\ store.len = Len(store.cells) /\ Held(store) = store.cells BY <1>3, ArrayIs
  <2>4. d \in Seq(Values) /\ Len(d) = Len(store.cells) + Len(xs)
    <3>1. d \in Seq(Values) /\ Len(d) = Len(xs) + Len(store.cells) BY <1>2, <2>3, ConcatProperties
    <3> DEFINE m == Len(xs)
               n == Len(store.cells)
    <3>2. m \in Nat /\ n \in Nat BY <1>2, <2>3
    <3>3. Len(d) = m + n BY <3>1
    <3> HIDE DEF d, m, n
    <3>4. Len(d) = n + m BY <3>2, <3>3
    <3> QED BY <3>1, <3>4 DEF m, n
  <2>5. Promise!Taken(xs) = xs BY <1>2, <1>3, Takes
  <2>6. store' = new_array(d) BY <1>2, <2>2, <2>3, ArrUnshift
  <2> HIDE DEF d
  <2>7. IsStore(store') /\ store'.kind = "Array" /\ store'.len = Len(d) /\ Held(store') = d
    BY <2>4, <2>6, NewArray DEF IsStore
  <2>8. Promise!Unshift(c)
    BY <2>2, <2>3, <2>4, <2>5, <2>7, ContentsAre, SameConstants DEF Promise!Unshift, d
  <2> QED BY <1>3, <2>7, <2>8 DEF StoreKept
<1>4. CASE store.kind \in Vectors /\ Buffer(store)
  <2>1. store.kind # "Array" BY <1>4 DEF Vectors, NumericVectors
  <2>2. store' = vs_vec_unshift(store, xs) /\ answer' = N(store'.len)
    BY <1>1, <2>1 DEF call_vec, Result
  <2>3. /\ Buffer(store') /\ store'.kind = store.kind
        /\ Held(store') = StoredAll(store.kind, xs) \o Held(store)
    BY <1>2, <1>4, <2>2, VecUnshift
  <2>4. Promise!Taken(xs) = StoredAll(store.kind, xs) BY <1>2, Takes
  <2>5. Len(Held(store')) = store'.len BY <2>3, HeldIs
  <2>6. Promise!Unshift(c)
    BY <2>2, <2>3, <2>4, <2>5, ContentsAre, SameConstants DEF Promise!Unshift
  <2> QED BY <2>3, <2>6 DEF StoreKept, IsStore
<1> QED BY <1>1, <1>3, <1>4

(* The positions of the promise are those of the runtime.                  *)
LEMMA BetweenIs ==
  ASSUME NEW a \in Int, NEW b \in Int
  PROVE  Promise!Between(a, b) = SubSeq(Held(store), a + 1, b)
<1>1. CASE a < b BY <1>1, ContentsAre DEF Promise!Between
<1>2. CASE ~(a < b)
  <2>1. a + 1 \in Int /\ b < a + 1 BY <1>2
  <2>2. SubSeq(Held(store), a + 1, b) = <<>> BY <2>1, SubSeqEmpty
  <2> QED BY <1>2, <2>2 DEF Promise!Between
<1> QED BY <1>1, <1>2

(* The position the promise means is the one norm_index computes.          *)
LEMMA PositionIs ==
  ASSUME IsStore(store), store.len <= MaxLength, NEW v \in Values
  PROVE  Promise!Position(v) = norm_index(v, store.len) /\ Promise!Position(v) \in 0 .. store.len
<1>1. store.len \in 0 .. MaxLength /\ Promise!Size = store.len BY StoreIs, ContentsAre
<1> DEFINE n == store.len
<1>2. CASE v = Infinity
  <2>1. ~IsNumber(v) BY <1>2 DEF IsNumber, Infinity
  <2> QED BY <1>1, <1>2, <2>1, NormIndex, SameConstants, SameOperators DEF Promise!Position
<1>3. CASE IsNumber(v)
  <2>1. v[2] \in Int BY <1>3, UsizeIs
  <2>2. norm_index(v, n) = IF v[2] < 0 THEN IF n + v[2] < 0 THEN 0 ELSE n + v[2]
                           ELSE IF v[2] < n THEN v[2] ELSE n
    BY <1>1, <1>3, NormIndex
  <2>3. Promise!Position(v) = IF v[2] >= 0 THEN IF v[2] < n THEN v[2] ELSE n
                              ELSE IF n + v[2] < 0 THEN 0 ELSE n + v[2]
    <3> DEFINE x == v[2]
               z == Promise!Size
    <3>1. x \in Int /\ z = n BY <1>1, <2>1
    <3>0. v # Promise!Infinity
      <4>1. v # Infinity BY <1>3 DEF IsNumber, Infinity
      <4> QED BY <4>1, SameConstants
    <3>2. Promise!IsNumber(v)
      <4>1. Promise!IsNumber(v) = IsNumber(v) BY SameOperators
      <4> QED BY <1>3, <4>1
    <3>3. CASE x >= 0
      <4>1. v[2] >= 0 BY <3>3
      <4>2. Promise!Position(v) = Promise!Least(v[2], Promise!Size)
        BY <2>1, <3>0, <3>2, <4>1 DEF Promise!Position
      <4> QED BY <3>1, <3>3, <4>2 DEF Promise!Least
    <3>4. CASE x < 0
      <4>1. ~(v[2] >= 0) /\ v[2] < 0 BY <3>1, <3>4
      <4>2. Promise!Position(v) = IF Promise!Size + v[2] < 0 THEN 0 ELSE Promise!Size + v[2]
        BY <2>1, <3>0, <3>2, <4>1 DEF Promise!Position
      <4> QED BY <3>1, <3>4, <4>2
    <3> QED BY <3>1, <3>3, <3>4
  <2>4. norm_index(v, n) \in 0 .. n BY <1>1, NormIndex
  <2> QED BY <1>1, <2>1, <2>2, <2>3, <2>4
<1>4. CASE v # Infinity /\ ~IsNumber(v)
  <2>1. Promise!Position(v) = 0 BY <1>4, SameConstants, SameOperators DEF Promise!Position
  <2> QED BY <1>1, <1>4, <2>1, NormIndex
<1> QED BY <1>2, <1>3, <1>4

(* The last element, taken from an array or a vector.                      *)
LEMMA PopIs ==
  ASSUME NEW s, IsStore(s), s.kind # "Object"
  PROVE  LET r == Pop(s) IN
         /\ s.len = 0 => r = Result(s, Unboxed(s.kind, Undefined))
         /\ s.len # 0 => /\ IsStore(r.store) /\ r.store.kind = s.kind /\ r.store.len = s.len - 1
                         /\ Held(r.store) = SubSeq(Held(s), 1, s.len - 1)
                         /\ r.answer = Unboxed(s.kind, Held(s)[s.len])
<1>1. CASE s.kind = "Array"
  <2> DEFINE data == s.cells
             p == vs_arr_pop(data)
             d == SubSeq(data, 1, Len(data) - 1)
  <2>1. data \in Seq(Values) /\ s.len = Len(data) /\ s.len \in Nat /\ Held(s) = data /\ new_array(data) = s
    BY <1>1, StoreIs, ArrayIs
  <2>2. /\ Len(data) = 0 => p = ArraySet(data, Undefined)
        /\ Len(data) # 0 => /\ p = ArraySet(d, data[Len(data)])
                            /\ d \in Seq(Values) /\ Len(d) = Len(data) - 1
    BY <2>1, ArrPop
  <2>3. Pop(s) = Result(p.store, Unboxed(s.kind, p.answer)) BY <1>1 DEF Pop, Typed
  <2> HIDE DEF p, data, d
  <2>4. CASE s.len = 0
    <3>1. p.store = s /\ p.answer = Undefined BY <2>1, <2>2, <2>4 DEF ArraySet, Result
    <3> QED BY <2>3, <2>4, <3>1
  <2>5. CASE s.len # 0
    <3>1. p.store = new_array(d) /\ p.answer = data[Len(data)] /\ d \in Seq(Values) /\ Len(d) = s.len - 1
      BY <2>1, <2>2, <2>5 DEF ArraySet, Result
    <3>2. IsArray(p.store) /\ p.store.kind = "Array" /\ p.store.len = s.len - 1 /\ Held(p.store) = d
      BY <3>1, NewArray
    <3>3. Pop(s).store = p.store /\ Pop(s).answer = Unboxed(s.kind, p.answer) BY <2>3 DEF Result
    <3> QED BY <1>1, <2>1, <2>5, <3>1, <3>2, <3>3 DEF IsStore, d
  <2> QED BY <2>4, <2>5
<1>2. CASE s.kind \in Vectors
  <2> DEFINE p == vs_vec_pop(s)
  <2>1. Buffer(s) /\ s.len \in Nat /\ s.kind # "Array" BY <1>2, StoreIs DEF Vectors, NumericVectors
  <2>2. /\ s.len = 0 => p = Result(s, Undefined)
        /\ s.len > 0 => /\ p.answer = Held(s)[s.len]
                        /\ Buffer(p.store) /\ p.store.kind = s.kind /\ p.store.len = s.len - 1
                        /\ Held(p.store) = SubSeq(Held(s), 1, s.len - 1)
    BY <2>1, VecPop
  <2>3. Pop(s) = Result(p.store, Unboxed(s.kind, p.answer)) BY <2>1 DEF Pop, Typed
  <2> HIDE DEF p
  <2>4. CASE s.len = 0
    <3>1. p.store = s /\ p.answer = Undefined BY <2>2, <2>4 DEF Result
    <3> QED BY <2>3, <2>4, <3>1
  <2>5. CASE s.len # 0
    <3>1. s.len > 0 BY <2>1, <2>5
    <3>2. Pop(s).store = p.store /\ Pop(s).answer = Unboxed(s.kind, p.answer) BY <2>3 DEF Result
    <3> QED BY <2>2, <2>5, <3>1, <3>2 DEF IsStore
  <2> QED BY <2>4, <2>5
<1> QED BY <1>1, <1>2, StoreIs DEF Kinds

(* pop answers with the last element and takes it away.                    *)
LEMMA PopKeeps ==
  ASSUME NEW c, Answering(c), c.name = "pop"
  PROVE  StoreKept /\ Promise!Pop(c)
<1>0. c.name \in SequenceCalls BY DEF SequenceCalls
<1>1. c.path = "typed" BY <1>0, OnlyTyped
<1>2. store.kind # "Object" /\ store' = Pop(store).store /\ answer' = Pop(store).answer
  <2>1. \/ /\ store.kind = "Array"
           /\ \E r \in call_arr(store, c) : store' = r.store /\ answer' = r.answer
        \/ /\ store.kind \in Vectors
           /\ \E r \in call_vec(store, c) : store' = r.store /\ answer' = r.answer
    BY <1>0, <1>1, TypedOnly
  <2>2. call_arr(store, c) = {Pop(store)} BY DEF call_arr
  <2>3. call_vec(store, c) = {Pop(store)} BY DEF call_vec
  <2> QED BY <2>1, <2>2, <2>3 DEF Vectors, NumericVectors
<1>3. IsStore(store) /\ store.len \in Nat /\ Len(Held(store)) = store.len BY StoreIs DEF Answering
<1>4. CASE store.len = 0
  <2>1. store' = store /\ answer' = Unboxed(store.kind, Undefined)
    BY <1>2, <1>3, <1>4, PopIs DEF Result
  <2>2. Promise!Pop(c)
    BY <1>1, <1>3, <1>4, <2>1, ContentsAre, SameConstants, SameOperators
    DEF Promise!Pop, Promise!Keep, Promise!Seen
  <2> QED BY <1>3, <2>1, <2>2 DEF StoreKept
<1>5. CASE store.len # 0
  <2>1. /\ IsStore(store') /\ store'.kind = store.kind
        /\ Held(store') = SubSeq(Held(store), 1, store.len - 1)
        /\ answer' = Unboxed(store.kind, Held(store)[store.len])
    BY <1>2, <1>3, <1>5, PopIs
  <2>2. Promise!Between(0, store.len - 1) = SubSeq(Held(store), 1, store.len - 1)
    <3>1. 0 \in Int /\ store.len - 1 \in Int /\ 0 + 1 = 1 BY <1>3
    <3> QED BY <3>1, BetweenIs
  <2>3. Promise!Pop(c)
    BY <1>1, <1>3, <1>5, <2>1, <2>2, ContentsAre, SameOperators DEF Promise!Pop, Promise!Seen
  <2> QED BY <2>1, <2>3 DEF StoreKept
<1> QED BY <1>4, <1>5

(* shift answers with the first.                                           *)
LEMMA ShiftKeeps ==
  ASSUME NEW c, Answering(c), c.name = "shift"
  PROVE  StoreKept /\ Promise!Shift(c)
<1>0. c.name \in SequenceCalls BY DEF SequenceCalls
<1>1. c.path = "typed" BY <1>0, OnlyTyped
<1>2. IsStore(store) /\ store.len \in Nat /\ Len(Held(store)) = store.len BY StoreIs DEF Answering
<1>3. \/ /\ store.kind = "Array" /\ IsArray(store)
         /\ \E r \in call_arr(store, c) : store' = r.store /\ answer' = r.answer
      \/ /\ store.kind \in Vectors /\ Buffer(store)
         /\ \E r \in call_vec(store, c) : store' = r.store /\ answer' = r.answer
  BY <1>0, <1>1, TypedOnly
<1>4. /\ store.len = 0 => store' = store /\ answer' = Unboxed(store.kind, Undefined)
      /\ store.len # 0 => /\ IsStore(store') /\ store'.kind = store.kind
                          /\ Held(store') = SubSeq(Held(store), 2, store.len)
                          /\ answer' = Unboxed(store.kind, Held(store)[1])
  <2>1. CASE store.kind = "Array" /\ IsArray(store)
    <3> DEFINE data == store.cells
               p == vs_arr_shift(data)
               d == SubSeq(data, 2, Len(data))
    <3>1. data \in Seq(Values) /\ store.len = Len(data) /\ Held(store) = data /\ new_array(data) = store
      BY <2>1, ArrayIs
    <3>2. /\ Len(data) = 0 => p = ArraySet(data, Undefined)
          /\ Len(data) # 0 => /\ p = ArraySet(d, data[1])
                              /\ d \in Seq(Values) /\ Len(d) = Len(data) - 1
      BY <3>1, ArrShift
    <3>3. store' = p.store /\ answer' = p.answer
      <4>1. call_arr(store, c) = {p} BY DEF call_arr
      <4>2. store.kind \notin Vectors BY <2>1 DEF Vectors, NumericVectors
      <4> QED BY <1>3, <4>1, <4>2
    <3>4. \A v : Unboxed(store.kind, v) = v BY <2>1 DEF Unboxed, NumericVectors
    <3> HIDE DEF p, data, d
    <3>5. CASE store.len = 0
      <4>1. store' = new_array(data) /\ answer' = Undefined BY <3>1, <3>2, <3>3, <3>5 DEF ArraySet, Result
      <4> QED BY <3>1, <3>4, <3>5, <4>1
    <3>6. CASE store.len # 0
      <4>1. store' = new_array(d) /\ answer' = data[1] /\ d \in Seq(Values)
        BY <3>1, <3>2, <3>3, <3>6 DEF ArraySet, Result
      <4>2. IsArray(store') /\ store'.kind = "Array" /\ Held(store') = d BY <4>1, NewArray
      <4> QED BY <2>1, <3>1, <3>4, <3>6, <4>1, <4>2 DEF IsStore, d
    <3> QED BY <3>5, <3>6
  <2>2. CASE store.kind \in Vectors /\ Buffer(store)
    <3> DEFINE p == vs_vec_shift(store)
    <3>1. /\ store.len = 0 => p = Result(store, Undefined)
          /\ store.len > 0 => /\ p.answer = Held(store)[1]
                              /\ Buffer(p.store) /\ p.store.kind = store.kind
                              /\ Held(p.store) = SubSeq(Held(store), 2, store.len)
      BY <2>2, VecShift
    <3>2. store' = p.store /\ answer' = Unboxed(store.kind, p.answer)
      <4>1. call_vec(store, c) = {Typed(store, p)} BY DEF call_vec
      <4>2. store.kind # "Array" BY <2>2 DEF Vectors, NumericVectors
      <4> QED BY <1>3, <4>1, <4>2 DEF Typed, Result
    <3> HIDE DEF p
    <3>3. CASE store.len = 0 BY <3>1, <3>2, <3>3 DEF Result
    <3>4. CASE store.len # 0
      <4>1. store.len > 0 BY <1>2, <3>4
      <4> QED BY <3>1, <3>2, <3>4, <4>1 DEF IsStore
    <3> QED BY <3>3, <3>4
  <2> QED BY <1>3, <2>1, <2>2
<1>5. CASE store.len = 0
  <2>1. Promise!Shift(c)
    BY <1>1, <1>2, <1>4, <1>5, ContentsAre, SameConstants, SameOperators
    DEF Promise!Shift, Promise!Keep, Promise!Seen
  <2> QED BY <1>2, <1>4, <1>5, <2>1 DEF StoreKept
<1>6. CASE store.len # 0
  <2>1. Promise!Between(1, store.len) = SubSeq(Held(store), 2, store.len)
    <3>1. 1 \in Int /\ store.len \in Int /\ 1 + 1 = 2 BY <1>2
    <3> QED BY <3>1, BetweenIs
  <2>2. Promise!Shift(c)
    BY <1>1, <1>2, <1>4, <1>6, <2>1, ContentsAre, SameOperators DEF Promise!Shift, Promise!Seen
  <2> QED BY <1>4, <1>6, <2>2 DEF StoreKept
<1> QED BY <1>5, <1>6


(* slice answers with the elements between two positions.                  *)
LEMMA SliceKeeps ==
  ASSUME NEW c, Answering(c), c.name = "slice"
  PROVE  Same /\ Promise!Slice(c)
<1>0. c.name \in SequenceCalls BY DEF SequenceCalls
<1>1. /\ c.args \in Arguments(c.name)
      /\ \/ /\ store.kind = "Array" /\ IsArray(store)
            /\ \E r \in call_arr(store, c) : store' = r.store /\ answer' = r.answer
         \/ /\ store.kind \in Vectors /\ Buffer(store)
            /\ \E r \in call_vec(store, c) : store' = r.store /\ answer' = r.answer
  BY <1>0, OnlyTyped, TypedOnly
<1> DEFINE a == c.args[1]
           b == c.args[2]
           n == store.len
           part == SubSeq(Held(store), norm_index(a, n) + 1, norm_index(b, n))
<1>2. a \in Values /\ b \in Values BY <1>1, ArgumentsAre
<1>3. IsStore(store) /\ n \in 0 .. MaxLength BY StoreIs DEF Answering
<1>4. Same /\ answer' = Sequence(part)
  <2>1. CASE store.kind = "Array" /\ IsArray(store)
    <3>1. store.kind \notin Vectors BY <2>1 DEF Vectors, NumericVectors
    <3>2. call_arr(store, c) = {Result(store, Sequence(vs_arr_slice(store.cells, a, b)))} BY DEF call_arr
    <3>3. vs_arr_slice(store.cells, a, b) = part BY <2>1, ArrayIs DEF vs_arr_slice
    <3> QED BY <1>1, <3>1, <3>2, <3>3 DEF Result, Same
  <2>2. CASE store.kind \in Vectors /\ Buffer(store)
    <3>1. store.kind # "Array" BY <2>2 DEF Vectors, NumericVectors
    <3>2. call_vec(store, c) = {Result(store, Sequence(vs_vec_slice(store, a, b)))} BY DEF call_vec
    <3>3. vs_vec_slice(store, a, b) = part BY <1>2, <2>2, VecSlice DEF Answering
    <3> QED BY <1>1, <3>1, <3>2, <3>3 DEF Result, Same
  <2> QED BY <1>1, <2>1, <2>2
<1>5. Promise!Between(Promise!Position(a), Promise!Position(b)) = part
  <2>1. /\ Promise!Position(a) = norm_index(a, n) /\ Promise!Position(a) \in 0 .. n
        /\ Promise!Position(b) = norm_index(b, n) /\ Promise!Position(b) \in 0 .. n
    BY <1>2, PositionIs DEF Answering
  <2>2. Promise!Position(a) \in Int /\ Promise!Position(b) \in Int BY <1>3, <2>1
  <2> QED BY <2>1, <2>2, BetweenIs
<1> QED BY <1>4, <1>5, ContentsAre, SameConstants DEF Promise!Slice, Promise!Keep, Same

(* indexOf answers with the first position that holds the element.         *)
LEMMA IndexOfKeeps ==
  ASSUME NEW c, Answering(c), c.name = "indexOf"
  PROVE  Same /\ Promise!IndexOf(c)
<1>0. c.name \in SequenceCalls BY DEF SequenceCalls
<1>1. /\ c.args \in Arguments(c.name)
      /\ \/ /\ store.kind = "Array" /\ IsArray(store)
            /\ \E r \in call_arr(store, c) : store' = r.store /\ answer' = r.answer
         \/ /\ store.kind \in Vectors /\ Buffer(store)
            /\ \E r \in call_vec(store, c) : store' = r.store /\ answer' = r.answer
  BY <1>0, OnlyTyped, TypedOnly
<1> DEFINE x == c.args[1]
           from == c.args[2]
           n == store.len
           needle == Stored(store.kind, x)
           found == {i \in norm_index(from, n) .. n - 1 : StrictlyEqual(Held(store)[i + 1], needle)}
<1>2. from \in Values BY <1>1, ArgumentsAre
<1>3. IsStore(store) /\ n \in 0 .. MaxLength BY StoreIs DEF Answering
<1>4. Same /\ answer' = FirstOf(found)
  <2>1. CASE store.kind = "Array" /\ IsArray(store)
    <3>1. store.kind \notin Vectors BY <2>1 DEF Vectors, NumericVectors
    <3>2. call_arr(store, c) = {Result(store, vs_arr_index_of(store.cells, x, from))} BY DEF call_arr
    <3>3. needle = x BY <2>1 DEF Stored
    <3>4. vs_arr_index_of(store.cells, x, from) = FirstOf(found) BY <2>1, <3>3, ArrayIs DEF vs_arr_index_of
    <3> QED BY <1>1, <3>1, <3>2, <3>4 DEF Result, Same
  <2>2. CASE store.kind \in Vectors /\ Buffer(store)
    <3>1. store.kind # "Array" BY <2>2 DEF Vectors, NumericVectors
    <3>2. call_vec(store, c) = {Result(store, vs_vec_index_of(store, needle, from))} BY DEF call_vec
    <3> HIDE DEF needle
    <3>3. vs_vec_index_of(store, needle, from) = FirstOf(found) BY <1>2, <2>2, VecIndexOf DEF Answering
    <3> HIDE DEF found
    <3> QED BY <1>1, <3>1, <3>2, <3>3 DEF Result, Same
  <2> QED BY <1>1, <2>1, <2>2
<1>5. Promise!Position(from) = norm_index(from, n) BY <1>2, PositionIs DEF Answering
<1>6. {i \in Promise!Position(from) .. Promise!Size - 1 :
        Promise!StrictlyEqual(Contents[i + 1], Promise!Stored(store.kind, x))} = found
  BY <1>3, <1>5, ContentsAre, StoreIs, SameOperators
<1> HIDE DEF found
<1>7. FirstOf(found) = IF found = {} THEN N(-1) ELSE N(CHOOSE i \in found : \A j \in found : i <= j)
  BY DEF FirstOf, Min
<1> QED BY <1>4, <1>6, <1>7, ContentsAre, SameConstants DEF Promise!IndexOf, Promise!Keep, Same

(* concat answers with the elements, the arguments and the elements again: *)
(* the array is its own argument.                                          *)
LEMMA ConcatKeeps ==
  ASSUME NEW c, Answering(c), c.name = "concat"
  PROVE  Same /\ Promise!Concat(c)
<1>0. c.name \in SequenceCalls BY DEF SequenceCalls
<1>1. /\ c.name \in {"splice", "concat", "sort"} => store.kind = "Array"
      /\ store.kind = "Array" => IsArray(store) /\ \E r \in call_arr(store, c) : store' = r.store /\ answer' = r.answer
  BY <1>0, OnlyTyped, TypedOnly DEF Accepts, Vectors, NumericVectors
<1>2. call_arr(store, c) = {Result(store, Sequence(store.cells \o c.args \o store.cells))} BY DEF call_arr
<1>3. Same /\ answer' = Sequence(Held(store) \o c.args \o Held(store)) BY <1>1, <1>2, ArrayIs DEF Result, Same
<1> QED BY <1>3, ContentsAre, SameConstants DEF Promise!Concat, Promise!Keep, Same

(* reverse turns the order round.                                          *)
LEMMA ReverseKeeps ==
  ASSUME NEW c, Answering(c), c.name = "reverse"
  PROVE  StoreKept /\ Promise!Reverse(c)
<1>0. c.name \in SequenceCalls BY DEF SequenceCalls
<1>1. \/ /\ store.kind = "Array" /\ IsArray(store)
         /\ \E r \in call_arr(store, c) : store' = r.store /\ answer' = r.answer
      \/ /\ store.kind \in Vectors /\ Buffer(store)
         /\ \E r \in call_vec(store, c) : store' = r.store /\ answer' = r.answer
  BY <1>0, OnlyTyped, TypedOnly
<1> DEFINE n == store.len
           back == [i \in 1 .. n |-> Held(store)[n + 1 - i]]
<1>2. StoreKept /\ Held(store') = back /\ answer' = Nothing
  <2>1. CASE store.kind = "Array" /\ IsArray(store)
    <3> DEFINE d == Reverse(store.cells)
    <3>1. store.kind \notin Vectors BY <2>1 DEF Vectors, NumericVectors
    <3>2. call_arr(store, c) = {ArraySet(d, Nothing)} BY DEF call_arr
    <3>3. store.cells \in Seq(Values) /\ n = Len(store.cells) /\ n \in Nat /\ Held(store) = store.cells
      BY <2>1, ArrayIs
    <3>4. d = [i \in 1 .. n |-> store.cells[n + 1 - i]]
      <4> DEFINE e(i) == (n - i) + 1
      <4>1. d = [i \in 1 .. n |-> store.cells[e(i)]] BY <3>3 DEF Reverse
      <4>2. \A i \in 1 .. n : e(i) = n + 1 - i BY <3>3
      <4> QED BY <4>1, <4>2
    <3>5. d \in Seq(Values)
      <4>1. \A i \in 1 .. n : n + 1 - i \in 1 .. n BY <3>3
      <4>2. \A i \in 1 .. n : store.cells[n + 1 - i] \in Values BY <3>3, <4>1, ElementOfSeq
      <4> HIDE DEF n, d
      <4> QED BY <3>3, <3>4, <4>2
    <3> HIDE DEF d
    <3>6. store' = new_array(d) /\ answer' = Nothing BY <1>1, <3>1, <3>2 DEF ArraySet, Result
    <3> QED BY <2>1, <3>3, <3>4, <3>5, <3>6, NewArray DEF StoreKept, IsStore
  <2>2. CASE store.kind \in Vectors /\ Buffer(store)
    <3>1. store.kind # "Array" BY <2>2 DEF Vectors, NumericVectors
    <3>2. call_vec(store, c) = {Result(vs_vec_reverse(store), Nothing)} BY DEF call_vec
    <3>3. store' = vs_vec_reverse(store) /\ answer' = Nothing BY <1>1, <3>1, <3>2 DEF Result
    <3> QED BY <2>2, <3>3, VecReverse DEF StoreKept, IsStore
  <2> QED BY <1>1, <2>1, <2>2
<1>3. Promise!Size = n /\ n \in Nat BY ContentsAre, StoreIs DEF Answering
<1>4. [i \in 1 .. Promise!Size |-> Contents[Promise!Size + 1 - i]] = back BY <1>3, ContentsAre
<1> QED BY <1>2, <1>4, ContentsAre, SameConstants DEF Promise!Reverse


(* splice takes a part out and puts its arguments there, when the position *)
(* it starts at and the count do not overflow a machine word.              *)
LEMMA SpliceKeeps ==
  ASSUME NEW c, Answering(c), c.name = "splice"
  PROVE  /\ StoreKept
         /\ norm_index(c.args[1], store.len) + usize(c.args[2]) <= UsizeMax => Promise!Splice(c)
<1>0. c.name \in SequenceCalls BY DEF SequenceCalls
<1>1. /\ c.args \in Arguments(c.name)
      /\ store.kind = "Array" /\ IsArray(store) /\ \E r \in call_arr(store, c) : store' = r.store /\ answer' = r.answer
  BY <1>0, OnlyTyped, TypedOnly DEF Accepts, Vectors, NumericVectors
<1> DEFINE data == store.cells
           n == Len(data)
           start == c.args[1]
           count == c.args[2]
           xs == SubSeq(c.args, 3, Len(c.args))
           p == vs_arr_splice(data, start, count, xs)
           s == norm_index(start, n)
           w == usize(count)
           e == IF s + w < n THEN s + w ELSE n
           d == SubSeq(data, 1, s) \o xs \o SubSeq(data, e + 1, n)
<1>2. data \in Seq(Values) /\ store.len = n /\ n \in 0 .. MaxLength /\ Held(store) = data
  BY <1>1, ArrayIs DEF Answering
<1>3. start \in Values /\ count \in Values /\ xs \in Seq(Values)
  <2>1. c.args \in Seq(Values) /\ Len(c.args) >= 2 /\ start \in Values /\ count \in Values
    BY <1>1, ArgumentsAre
  <2> DEFINE m == Len(c.args)
  <2>2. m \in Nat /\ m >= 2 BY <2>1
  <2>3. 3 \in 1 .. m + 1 /\ m \in 3 - 1 .. m
    <3> HIDE DEF m
    <3> QED BY <2>2
  <2>4. SubSeq(c.args, 3, m) \in Seq(Values) BY <2>1, <2>3, PartIs
  <2> QED BY <2>1, <2>4
<1>4. store' = p.store /\ answer' = p.answer
  <2>1. call_arr(store, c) = {p} BY DEF call_arr
  <2> QED BY <1>1, <2>1
<1>5. /\ \E t \in Seq(Values) : p.store = new_array(t)
      /\ s + w <= UsizeMax => p = ArraySet(d, Sequence(SubSeq(data, s + 1, e)))
  <2>1. data \in Seq(Values) /\ Len(data) <= MaxLength BY <1>2
  <2> HIDE DEF xs, start, count, data
  <2> QED BY <1>3, <2>1, ArrSplice, Zenon
<1>6. StoreKept
  <2> HIDE DEF p
  <2>1. PICK t \in Seq(Values) : p.store = new_array(t) BY <1>5
  <2> QED BY <1>1, <1>4, <2>1, NewArray DEF StoreKept, IsStore
<1>7. ASSUME s + w <= UsizeMax PROVE Promise!Splice(c)
  <2>1. s \in 0 .. n /\ w \in 0 .. UsizeMax BY <1>2, <1>3, NormIndex, UsizeIs
  <2>2. Promise!Position(start) = s BY <1>2, <1>3, PositionIs DEF Answering
  <2> DEFINE num == Promise!any_to_number(count)
             upto == CASE num = Promise!Infinity -> Promise!Size
                       [] Promise!IsNumber(num) /\ num[2] > 0 -> Promise!Least(s + num[2], Promise!Size)
                       [] OTHER -> s
  <2>3. Promise!Size = n BY <1>2, ContentsAre
  <2>4. num = any_to_number(count) BY SameOperators
  <2>5. upto = e
    <3>1. CASE count = Infinity
      <4>1. num = Infinity BY <2>4, <3>1 DEF any_to_number, Infinity
      <4>2. upto = n BY <2>3, <4>1, SameConstants, SameOperators DEF IsNumber, Infinity
      <4>3. w = UsizeMax BY <1>3, <3>1, UsizeIs
      <4>4. e = n
        <5>1. n < UsizeMax BY <1>2, CollectionsAssumption
        <5> HIDE DEF s, w, n
        <5> QED BY <1>2, <1>7, <2>1, <4>3, <5>1, CollectionsAssumption
      <4> QED BY <4>2, <4>4
    <3>2. CASE IsNumber(count)
      <4> DEFINE x == count[2]
      <4>1. num = count BY <2>4, <3>2 DEF any_to_number, IsNumber
      <4>2. x \in Int /\ w = IF x < 0 THEN 0 ELSE IF x < UsizeMax THEN x ELSE UsizeMax BY <1>3, <3>2, UsizeIs
      <4>3. count # Infinity BY <3>2 DEF IsNumber, Infinity
      <4>4. num # Promise!Infinity /\ Promise!IsNumber(num) = TRUE
        <5>1. Promise!IsNumber(num) = IsNumber(num) BY SameOperators
        <5>2. IsNumber(num) = TRUE BY <3>2, <4>1 DEF IsNumber
        <5> QED BY <4>1, <4>3, <5>1, <5>2, SameConstants
      <4>5. upto = IF x > 0 THEN IF s + x < n THEN s + x ELSE n ELSE s
        BY <2>3, <4>1, <4>2, <4>4 DEF Promise!Least
      <4>6. n < UsizeMax BY <1>2, CollectionsAssumption
      <4> HIDE DEF upto, num, s, w, n, x
      <4> QED BY <1>2, <1>7, <2>1, <4>2, <4>5, <4>6, CollectionsAssumption
    <3>3. CASE count # Infinity /\ ~IsNumber(count)
      <4>1. w = 0 BY <1>3, <3>3, UsizeIs
      <4>2. e = s
        <5> HIDE DEF s, w, n
        <5> QED BY <1>2, <2>1, <4>1
      <4>3. \/ num = N(0)
            \/ num = NaN
        <5>1. \/ count[1] \in {"text", "object"}
              \/ count = NaN \/ count = Undefined \/ count = Null
          BY <1>3, <3>3, ValueCases DEF IsNumber
        <5> QED BY <2>4, <5>1 DEF any_to_number, NaN, Undefined, Null
      <4>4. upto = s
        <5>1. CASE num = N(0)
          <6>1. num[2] = 0 /\ num # Infinity BY <5>1 DEF N, Infinity
          <6> QED BY <6>1, SameConstants
        <5>2. CASE num = NaN
          <6>1. num # Infinity /\ ~IsNumber(num) BY <5>2 DEF NaN, Infinity, IsNumber
          <6>2. num # Promise!Infinity /\ ~Promise!IsNumber(num) BY <6>1, SameConstants, SameOperators
          <6> QED BY <6>2
        <5> QED BY <4>3, <5>1, <5>2
      <4> QED BY <4>2, <4>4
    <3> QED BY <3>1, <3>2, <3>3
  <2>6. e \in s .. n
    <3> HIDE DEF s, w, n
    <3> QED BY <1>2, <2>1
  <2> HIDE DEF p, upto, e, s, d
  <2>7. /\ Promise!Between(0, s) = SubSeq(data, 1, s)
        /\ Promise!Between(e, n) = SubSeq(data, e + 1, n)
        /\ Promise!Between(s, e) = SubSeq(data, s + 1, e)
    <3>1. 0 \in Int /\ s \in Int /\ e \in Int /\ n \in Int /\ 0 + 1 = 1 BY <1>2, <2>1, <2>6
    <3> QED BY <1>2, <3>1, BetweenIs
  <2>8. store' = new_array(d) /\ answer' = Sequence(SubSeq(data, s + 1, e)) /\ d \in Seq(Values)
    <3>1. p = ArraySet(d, Sequence(SubSeq(data, s + 1, e))) BY <1>5, <1>7
    <3>2. SubSeq(data, 1, s) \in Seq(Values) /\ SubSeq(data, e + 1, n) \in Seq(Values)
      <4>1. 1 \in 1 .. n + 1 /\ s \in 1 - 1 .. n BY <1>2, <2>1
      <4>2. e + 1 \in 1 .. n + 1 /\ n \in (e + 1) - 1 .. n BY <1>2, <2>1, <2>6
      <4> QED BY <1>2, <4>1, <4>2, PartIs
    <3>3. d \in Seq(Values) BY <1>3, <3>2, ConcatProperties DEF d
    <3> QED BY <1>4, <3>1, <3>3 DEF ArraySet, Result
  <2>9. Held(store') = d BY <2>8, NewArray
  <2> QED BY <2>2, <2>3, <2>5, <2>7, <2>8, <2>9, ContentsAre, SameConstants DEF Promise!Splice, upto, d
<1> QED BY <1>2, <1>6, <1>7


(* sort orders the elements, equal ones in the order they had, by any      *)
(* comparator that is an order; by another it leaves an array all the same. *)
LEMMA SortKeeps ==
  ASSUME NEW c, Answering(c), c.name = "sort"
  PROVE  /\ StoreKept
         /\ IsOrder(c.args[1][2], Contents) => Promise!Sort(c)
<1>0. c.name \in SequenceCalls BY DEF SequenceCalls
<1>1. /\ c.args \in Arguments(c.name)
      /\ store.kind = "Array" /\ IsArray(store) /\ \E r \in call_arr(store, c) : store' = r.store /\ answer' = r.answer
  BY <1>0, OnlyTyped, TypedOnly DEF Accepts, Vectors, NumericVectors
<1> DEFINE data == store.cells
           cmp == c.args[1][2]
           n == Len(data)
           sorted == Sorted(cmp, data)
<1>2. data \in Seq(Values) /\ store.len = n /\ n \in Nat /\ Contents = data BY <1>1, ArrayIs, ContentsAre
<1>3. cmp \in Comparators BY <1>1, ArgumentsAre
<1>4. \E r \in vs_arr_sort_with(data, cmp) : store' = r.store /\ answer' = r.answer
  <2>1. call_arr(store, c) = vs_arr_sort_with(data, cmp) BY DEF call_arr
  <2> QED BY <1>1, <2>1
<1>5. CASE IsOrder(cmp, data)
  <2>1. \E from : Stable(cmp, data, sorted, from, n) BY <1>2, <1>3, <1>5, ArrSort
  <2>2. store' = new_array(sorted) /\ answer' = Nothing
    <3>1. vs_arr_sort_with(data, cmp) = {ArraySet(sorted, Nothing)} BY <1>5 DEF vs_arr_sort_with
    <3> HIDE DEF sorted
    <3> QED BY <1>4, <3>1 DEF ArraySet, Result
  <2> HIDE DEF sorted
  <2>3. PICK from : Stable(cmp, data, sorted, from, n) BY <2>1
  <2>4. sorted \in Seq(Values) /\ Len(sorted) = n BY <2>3 DEF Stable
  <2>5. IsArray(store') /\ store'.kind = "Array" /\ Contents' = sorted BY <2>2, <2>4, NewArray, ContentsAre
  <2>6. Promise!Sort(c)
    <3>1. /\ from \in [1 .. n -> 1 .. n]
          /\ \A i, j \in 1 .. n : i # j => from[i] # from[j]
          /\ \A i \in 1 .. n : sorted[i] = data[from[i]]
          /\ \A i, j \in 1 .. n : i < j =>
               \/ Order(cmp, sorted[i], sorted[j]) < 0
               \/ Order(cmp, sorted[i], sorted[j]) = 0 /\ from[i] < from[j]
      BY <2>3 DEF Stable
    <3>2. Promise!Size = n BY <1>2 DEF Promise!Size
    <3>3. \A v, w : Promise!Order(cmp, v, w) = Order(cmp, v, w) BY SameOperators
    <3>4. answer' = Promise!Nothing /\ Len(Contents') = Promise!Size
      BY <2>2, <2>4, <2>5, <3>2, SameConstants
    <3>5. \E f \in [1 .. Promise!Size -> 1 .. Promise!Size] :
            /\ \A i, j \in 1 .. Promise!Size : i # j => f[i] # f[j]
            /\ \A i \in 1 .. Promise!Size : Contents'[i] = Contents[f[i]]
            /\ \A i, j \in 1 .. Promise!Size : i < j =>
                 \/ Promise!Order(cmp, Contents'[i], Contents'[j]) < 0
                 \/ Promise!Order(cmp, Contents'[i], Contents'[j]) = 0 /\ f[i] < f[j]
      <4>1. from \in [1 .. Promise!Size -> 1 .. Promise!Size] BY <3>1, <3>2
      <4> WITNESS from \in [1 .. Promise!Size -> 1 .. Promise!Size]
      <4>2. \A i, j : Promise!Order(cmp, Contents'[i], Contents'[j]) = Order(cmp, sorted[i], sorted[j])
        BY <2>5, <3>3
      <4> HIDE DEF n, data, cmp
      <4>3. \A i, j \in 1 .. Promise!Size : i # j => from[i] # from[j] BY <3>1, <3>2
      <4>4. \A i \in 1 .. Promise!Size : Contents'[i] = Contents[from[i]]
        <5>1. Contents' = sorted /\ Contents = data BY <1>2, <2>5
        <5>2. \A i \in 1 .. Promise!Size : sorted[i] = data[from[i]] BY <3>1, <3>2
        <5> QED BY <5>1, <5>2
      <4>5. \A i, j \in 1 .. Promise!Size : i < j =>
              \/ Promise!Order(cmp, Contents'[i], Contents'[j]) < 0
              \/ Promise!Order(cmp, Contents'[i], Contents'[j]) = 0 /\ from[i] < from[j]
        <5> SUFFICES ASSUME NEW i \in 1 .. n, NEW j \in 1 .. n, i < j
                     PROVE  \/ Promise!Order(cmp, Contents'[i], Contents'[j]) < 0
                            \/ Promise!Order(cmp, Contents'[i], Contents'[j]) = 0 /\ from[i] < from[j]
          BY <3>2
        <5>1. \/ Order(cmp, sorted[i], sorted[j]) < 0
              \/ Order(cmp, sorted[i], sorted[j]) = 0 /\ from[i] < from[j]
          BY <3>1
        <5>2. Promise!Order(cmp, Contents'[i], Contents'[j]) = Order(cmp, sorted[i], sorted[j]) BY <4>2
        <5> QED BY <5>1, <5>2
      <4> QED BY <4>3, <4>4, <4>5
    <3> QED BY <3>4, <3>5 DEF Promise!Sort
  <2> QED BY <1>1, <2>5, <2>6 DEF StoreKept, IsStore
<1>6. CASE ~IsOrder(cmp, data)
  <2>1. PICK d : store' = new_array(d) /\ (d \in Permuted(data) \/ d = data)
    <3>1. vs_arr_sort_with(data, cmp)
            = {ArraySet(d, Nothing) : d \in Permuted(data)} \cup {ArraySet(data, Abort)}
      BY <1>6 DEF vs_arr_sort_with
    <3> QED BY <1>4, <3>1 DEF ArraySet, Result
  <2>2. d \in Seq(Values)
    <3>1. CASE d \in Permuted(data)
      <4>1. PICK q \in [DOMAIN data -> DOMAIN data] : d = [i \in DOMAIN data |-> data[q[i]]]
        BY <3>1 DEF Permuted
      <4>2. DOMAIN data = 1 .. n BY <1>2
      <4>3. \A i \in 1 .. n : data[q[i]] \in Values BY <1>2, <4>1, <4>2, ElementOfSeq
      <4> HIDE DEF n, data
      <4> QED BY <1>2, <4>1, <4>2, <4>3
    <3> QED BY <1>2, <2>1, <3>1
  <2> QED BY <1>1, <1>2, <1>6, <2>1, <2>2, NewArray DEF StoreKept, IsStore
<1> QED BY <1>2, <1>5, <1>6

(* length answers with the number of elements, by either receiver.         *)
LEMMA LengthKeeps ==
  ASSUME NEW c, Answering(c), c.name = "length"
  PROVE  Same /\ Promise!Length(c)
<1>1. Same /\ answer' = N(store.len)
  <2>1. vs_any_get_prop(store, "length") = N(store.len) BY DEF vs_any_get_prop
  <2>2. Outcomes(store, c) = {Result(store, N(store.len))} \/ Outcomes(store, c) = {}
    BY <2>1 DEF Outcomes
  <2> QED BY <2>2 DEF Answering, Result, Same
<1>2. Promise!Size = store.len BY ContentsAre, StoreIs DEF Answering
<1> QED BY <1>1, <1>2, ContentsAre, SameConstants DEF Promise!Length, Promise!Keep, Same

(* An assignment to length cuts or extends, by a typed receiver; by one of *)
(* type "*" it is refused.                                                 *)
LEMMA SetLengthKeeps ==
  ASSUME NEW c, Answering(c), c.name = "setLength"
  PROVE  /\ StoreKept /\ Promise!SetLength(c)
         /\ c.path = "boxed" => Same
<1>1. IsStore(store) /\ Promise!Size = store.len /\ store.len \in Nat
  BY ContentsAre, StoreIs DEF Answering
<1>2. CASE c.path = "boxed"
  <2>1. Same /\ answer' = ReferenceError BY <1>2, Dispatch DEF Result, Same
  <2> QED BY <1>1, <1>2, <2>1, ContentsAre, SameConstants DEF Promise!SetLength, Promise!Keep, Same, StoreKept
<1>3. CASE c.path = "typed"
  <2>1. /\ c.args \in Arguments(c.name)
        /\ \/ /\ store.kind = "Array" /\ IsArray(store)
              /\ \E r \in call_arr(store, c) : store' = r.store /\ answer' = r.answer
           \/ /\ store.kind \in Vectors /\ Buffer(store)
              /\ \E r \in call_vec(store, c) : store' = r.store /\ answer' = r.answer
    <3>1. c.name \in SequenceCalls \cup {"setLength"} OBVIOUS
    <3> QED BY <1>3, <3>1, TypedOnly
  <2> DEFINE n == c.args[1][2]
             t == [i \in 1 .. n |-> IF i <= store.len THEN Held(store)[i] ELSE Zero(store.kind)]
  <2>2. n \in Nat BY <2>1, ArgumentsAre
  <2>3. StoreKept /\ Held(store') = t /\ answer' = Nothing
    <3>1. CASE store.kind = "Array" /\ IsArray(store)
      <4> DEFINE d == ArrayResize(store.cells, n)
      <4>1. store.kind \notin Vectors BY <3>1 DEF Vectors, NumericVectors
      <4>2. call_arr(store, c) = {ArraySet(d, Nothing)} BY DEF call_arr
      <4>3. store.cells \in Seq(Values) /\ store.len = Len(store.cells) /\ Held(store) = store.cells
        BY <3>1, ArrayIs
      <4>4. d \in Seq(Values) BY <2>2, <4>3, ArrayResized
      <4>5. Zero("Array") = Undefined BY DEF Zero, NumericVectors
      <4>6. d = t BY <3>1, <4>3, <4>5 DEF ArrayResize
      <4> HIDE DEF d, t
      <4>7. store' = new_array(d) /\ answer' = Nothing BY <2>1, <4>1, <4>2 DEF ArraySet, Result
      <4> QED BY <3>1, <4>4, <4>6, <4>7, NewArray DEF StoreKept, IsStore
    <3>2. CASE store.kind \in Vectors /\ Buffer(store)
      <4>1. store.kind # "Array" BY <3>2 DEF Vectors, NumericVectors
      <4>2. call_vec(store, c) = {Result(resize(store, n), Nothing)} BY DEF call_vec
      <4>3. store' = resize(store, n) /\ answer' = Nothing BY <2>1, <4>1, <4>2 DEF Result
      <4> HIDE DEF n
      <4> QED BY <2>2, <3>2, <4>3, Resize DEF StoreKept, IsStore
    <3> QED BY <2>1, <3>1, <3>2
  <2>4. [i \in 1 .. n |-> IF i <= Promise!Size THEN Contents[i] ELSE Promise!Zero(store.kind)] = t
    BY <1>1, ContentsAre, SameOperators
  <2> QED BY <1>3, <2>3, <2>4, ContentsAre, SameConstants DEF Promise!SetLength
<1> QED BY <1>2, <1>3 DEF Answering, IsCall


-----------------------------------------------------------------------------
(* Reading and writing an element, by a typed receiver and by one of type "*". *)

(* An element read by a receiver of type "*".                              *)
LEMMA BoxedGet ==
  ASSUME NEW s, IsStore(s), s.kind # "Object", s.len <= MaxLength, NEW key \in Values
  PROVE  LET k == any_to_number(key) IN
         vs_any_index_get(s, key) = IF Below(k, s.len) THEN Held(s)[k[2] + 1]
                                    ELSE IF s.kind = "Array" THEN Undefined ELSE RangeError
<1> DEFINE k == any_to_number(key)
           n == s.len
           in_range == ~IsNegative(k) /\ k # NaN /\ usize(k) < n
<1>1. k \in Numeric BY Converted
<1>2. n \in 0 .. MaxLength BY StoreIs
<1>3. in_range = Below(k, n)
  <2> HIDE DEF k, n
  <2> QED BY <1>1, <1>2, IndexTests
<1>4. Below(k, n) => usize(k) = k[2] /\ k[2] + 1 \in 1 .. n
  <2> HIDE DEF k
  <2>1. Below(k, n) => usize(k) = k[2] /\ k[2] \in Nat /\ k[2] < n BY <1>1, <1>2, IndexTests DEF Below
  <2> QED BY <1>2, <2>1
<1>5. \A i \in 1 .. n : Held(s)[i] = s.cells[i] BY StoreIs
<1>6. CASE s.kind = "Array"
  <2>1. vs_any_index_get(s, key) = IF in_range THEN s.cells[usize(k) + 1] ELSE Undefined
    BY <1>6 DEF vs_any_index_get
  <2> HIDE DEF in_range, k, n
  <2> QED BY <1>3, <1>4, <1>5, <1>6, <2>1 DEF k, n
<1>7. CASE s.kind # "Array"
  <2>1. vs_any_index_get(s, key) = IF in_range THEN get_any(s, usize(k)) ELSE RangeError
    BY <1>7 DEF vs_any_index_get
  <2>2. Buffer(s) BY <1>7, StoreIs DEF Kinds
  <2>3. Below(k, n) => get_any(s, k[2]) = s.cells[k[2] + 1]
    <3>1. n <= Len(s.cells) /\ Len(s.cells) \in Nat BY <2>2 DEF Buffer
    <3> DEFINE m == Len(s.cells)
    <3> HIDE DEF k, n, m
    <3>2. Below(k, n) => k[2] < m BY <1>1, <1>2, <3>1, IndexTests DEF Below, m, n
    <3> QED BY <3>2 DEF get_any, m
  <2> HIDE DEF in_range, k, n
  <2> QED BY <1>3, <1>4, <1>5, <1>7, <2>1, <2>3 DEF k, n
<1> QED BY <1>6, <1>7

(* An element read by a typed receiver, in line or through the runtime.    *)
LEMMA TypedGet ==
  ASSUME NEW s, IsStore(s), s.kind # "Object", s.len <= MaxLength, NEW k \in Numeric, k # NaN
  PROVE  SeqGet(s, k) = IF Below(k, s.len) THEN Unboxed(s.kind, Held(s)[k[2] + 1])
                        ELSE IF s.kind = "Array" THEN Undefined ELSE RangeError
<1>1. s.len \in 0 .. MaxLength BY StoreIs
<1>2. Below(k, s.len) => k[2] + 1 \in 1 .. s.len /\ k[2] \in Nat
  <2>1. Below(k, s.len) => k[2] \in Nat /\ k[2] < s.len BY <1>1, IndexTests DEF Below
  <2> QED BY <1>1, <2>1
<1>3. \A i \in 1 .. s.len : /\ Held(s)[i] = s.cells[i] /\ Held(s)[i] \in Values
                            /\ Stored(s.kind, Held(s)[i]) = Held(s)[i]
  BY StoreIs
<1>4. CASE s.kind \in NumericVectors
  <2>1. Buffer(s) /\ s.kind # "Array" BY <1>4, StoreIs DEF Vectors, NumericVectors
  <2>2. vs_vec_get(s, k) = IF Below(k, s.len) THEN Held(s)[k[2] + 1] ELSE RangeError BY <2>1, VecGet
  <2>3. idx_in_bounds(k, s.len) = Below(k, s.len) BY <1>1, IndexTests
  <2>4. SeqGet(s, k) = IF Below(k, s.len) THEN get_any(s, k[2]) ELSE RangeError
    <3>1. SeqGet(s, k) = IF idx_in_bounds(k, s.len) THEN get_any(s, k[2])
                         ELSE IF vs_vec_get(s, k) = RangeError THEN RangeError ELSE Unreachable
      BY <1>4, <2>1 DEF SeqGet, NumericVectors
    <3> QED BY <2>2, <2>3, <3>1
  <2>5. Below(k, s.len) => get_any(s, k[2]) = Held(s)[k[2] + 1]
    <3> DEFINE m == Len(s.cells)
               n == s.len
               x == k[2]
    <3>1. n <= m /\ m \in Nat BY <2>1 DEF Buffer
    <3>2. Below(k, s.len) => x \in Nat /\ x < n BY <1>1, IndexTests DEF Below
    <3> HIDE DEF m, n, x
    <3>3. Below(k, s.len) => x < m BY <1>1, <3>1, <3>2 DEF n
    <3> QED BY <1>2, <1>3, <3>3 DEF get_any, m, x
  <2>6. Below(k, s.len) => Unboxed(s.kind, Held(s)[k[2] + 1]) = Held(s)[k[2] + 1]
    BY <1>2, <1>3, <1>4 DEF Unboxed, NumericVectors
  <2> QED BY <2>1, <2>4, <2>5, <2>6
<1>5. CASE s.kind = "C"
  <2>1. Buffer(s) BY <1>5, StoreIs DEF Vectors
  <2>2. vs_vec_get(s, k) = IF Below(k, s.len) THEN Held(s)[k[2] + 1] ELSE RangeError BY <2>1, VecGet
  <2>3. SeqGet(s, k) = IF vs_vec_get(s, k) = RangeError THEN RangeError ELSE Unboxed("C", vs_vec_get(s, k))
    BY <1>5 DEF SeqGet, NumericVectors
  <2>4. \A v \in Values : v # RangeError BY ValueCases DEF RangeError, NaN, Infinity, Undefined, Null
  <2> QED BY <1>2, <1>3, <1>5, <2>2, <2>3, <2>4
<1>6. CASE s.kind = "Array"
  <2>1. SeqGet(s, k) = vs_arr_get(s.cells, k) BY <1>6 DEF SeqGet, NumericVectors
  <2>2. IsArray(s) BY <1>6, StoreIs
  <2>3. s.cells \in Seq(Values) /\ s.len = Len(s.cells) BY <2>2, ArrayIs
  <2>4. vs_arr_get(s.cells, k) = IF Below(k, s.len) THEN s.cells[k[2] + 1] ELSE Undefined BY <2>3, ArrGet
  <2>5. \A v : Unboxed("Array", v) = v BY DEF Unboxed, NumericVectors
  <2> QED BY <1>2, <1>3, <1>6, <2>1, <2>4, <2>5
<1> QED BY <1>4, <1>5, <1>6, StoreIs DEF Kinds, Vectors

(* A read changes nothing and answers with the element, by either receiver. *)
LEMMA GetKeeps ==
  ASSUME NEW c, Answering(c), c.name = "get"
  PROVE  /\ Same
         /\ store.kind = "Object" => Promise!GetProperty(c)
         /\ store.kind # "Object" /\ (c.path = "boxed" \/ any_to_number(c.args[1]) # NaN) => Promise!Get(c)
<1> DEFINE key == c.args[1]
           k == any_to_number(key)
<1>1. key \in Values BY ArgumentsAre DEF Answering, IsCall, Unary
<1>2. k \in Numeric BY <1>1, Converted
<1>3. IsStore(store) /\ store.len <= MaxLength /\ store.len \in Nat BY StoreIs DEF Answering
<1>4. CASE c.path = "boxed"
  <2>1. Same /\ answer' = vs_any_index_get(store, key)
    <3>1. Outcomes(store, c) = {Result(store, vs_any_index_get(store, key))} BY <1>4 DEF Outcomes
    <3> QED BY <3>1 DEF Answering, Result, Same
  <2>2. ASSUME store.kind = "Object" PROVE Promise!GetProperty(c)
    <3>1. IsObject(store) BY <1>3, <2>2, StoreIs
    <3>2. answer' = get_prop(store, key) BY <2>1, <2>2 DEF vs_any_index_get
    <3>3. Promise!Size = store.len /\ Contents = store.cells BY <1>3, <3>1, StoreIs, ContentsAre, ObjectIs
    <3>4. key \in Promise!Keys <=> has_prop(store, key) BY <3>1, <3>3, GetProp DEF Promise!Keys
    <3>5. CASE has_prop(store, key)
      <4> DEFINE all == {Contents[i] : i \in 1 .. Promise!Size}
                 p == CHOOSE q \in all : q[1] = key
      <4>1. PICK i \in 1 .. store.len : store.cells[i][1] = key BY <3>1, <3>5, GetProp
      <4>2. p \in all /\ p[1] = key BY <3>3, <4>1
      <4>3. PICK j \in 1 .. store.len : p = store.cells[j] BY <3>3, <4>2
      <4>4. get_prop(store, key) = store.cells[j][2]
        <5>1. store.cells[j][1] = key BY <4>2, <4>3
        <5> HIDE DEF p, key
        <5> QED BY <3>1, <5>1, GetProp
      <4>5. Promise!ValueOf(key) = p[2] BY DEF Promise!ValueOf
      <4> QED BY <2>1, <3>2, <3>4, <3>5, <4>3, <4>4, <4>5, ContentsAre DEF Promise!GetProperty, Promise!Keep, Same
    <3>6. CASE ~has_prop(store, key)
      <4>1. get_prop(store, key) = Undefined BY <3>1, <3>6, GetProp
      <4> QED BY <2>1, <3>2, <3>4, <3>6, <4>1, ContentsAre, SameConstants
          DEF Promise!GetProperty, Promise!Keep, Same
    <3> QED BY <3>5, <3>6
  <2>3. ASSUME store.kind # "Object" PROVE Promise!Get(c)
    <3>1. answer' = IF Below(k, store.len) THEN Held(store)[k[2] + 1]
                    ELSE IF store.kind = "Array" THEN Undefined ELSE RangeError
      BY <1>1, <1>3, <2>1, <2>3, BoxedGet
    <3>2. Promise!At(c, k) = answer'
      <4>1. (store.kind \in Vectors) = (store.kind # "Array")
        BY <1>3, <2>3, StoreIs DEF Kinds, Vectors, NumericVectors
      <4>2. (Promise!IsIndex(k) /\ k[2] < Promise!Size) <=> Below(k, store.len)
        BY <1>3, StoreIs, ContentsAre, SameOperators DEF Promise!IsIndex, Below
      <4> HIDE DEF k
      <4> QED BY <1>4, <3>1, <4>1, <4>2, ContentsAre, SameConstants DEF Promise!At, Promise!Seen, Promise!IsVector
    <3> QED BY <2>1, <3>2, ContentsAre, SameOperators DEF Promise!Get, Promise!Keep, Same
  <2> QED BY <2>1, <2>2, <2>3
<1>5. CASE c.path = "typed"
  <2>1. Same /\ store.kind # "Object" /\ answer' = SeqGet(store, k)
    <3>1. Checked(store.kind, c).args[1] = k
      <4>1. Checked(store.kind, c) = [c EXCEPT !.args = <<k>>] BY DEF Checked
      <4>2. c = [name |-> c.name, path |-> c.path, args |-> c.args] BY DEF Answering, IsCall, Make
      <4>3. Checked(store.kind, c).args = <<k>> BY <4>1, <4>2
      <4> QED BY <4>3
    <3>2. Outcomes(store, c) = {} \/ Outcomes(store, c) = {Result(store, SeqGet(store, k))}
      <4> HIDE DEF k
      <4> QED BY <1>5, <3>1 DEF Outcomes
    <3>3. store.kind # "Object" BY <1>5, Dispatch
    <3> QED BY <3>2, <3>3 DEF Answering, Result, Same
  <2>2. ASSUME k # NaN PROVE Promise!Get(c)
    <3>1. answer' = IF Below(k, store.len) THEN Unboxed(store.kind, Held(store)[k[2] + 1])
                    ELSE IF store.kind = "Array" THEN Undefined ELSE RangeError
      <4> HIDE DEF k
      <4> QED BY <1>2, <1>3, <2>1, <2>2, TypedGet
    <3>2. Promise!At(c, k) = answer'
      <4>1. (store.kind \in Vectors) = (store.kind # "Array")
        BY <1>3, <2>1, StoreIs DEF Kinds, Vectors, NumericVectors
      <4>2. (Promise!IsIndex(k) /\ k[2] < Promise!Size) <=> Below(k, store.len)
        BY <1>3, StoreIs, ContentsAre, SameOperators DEF Promise!IsIndex, Below
      <4> HIDE DEF k
      <4> QED BY <1>5, <3>1, <4>1, <4>2, ContentsAre, SameConstants, SameOperators
          DEF Promise!At, Promise!Seen, Promise!IsVector
    <3> QED BY <2>1, <3>2, ContentsAre, SameOperators DEF Promise!Get, Promise!Keep, Same
  <2> QED BY <1>5, <2>1, <2>2
<1> QED BY <1>4, <1>5 DEF Answering, IsCall


(* What an in-line write, a typed write through the runtime and a boxed    *)
(* write leave, which is the same.                                         *)
LEMMA SetIs ==
  ASSUME NEW s, IsStore(s), s.kind # "Object", s.len <= MaxLength, NEW k \in Numeric, NEW x \in Values
  PROVE  LET r == SeqSet(s, k, x) IN
         /\ r = vs_any_index_set(s, k, x)
         /\ IsStore(r.store) /\ r.store.kind = s.kind /\ r.answer \in {Nothing, Abort, RangeError}
         /\ r.answer # Abort => r.store.len >= s.len
         /\ s.kind \in Vectors /\ k # NaN /\ ~UpTo(k, s.len) => r = Result(s, RangeError)
         /\ s.kind \in Vectors /\ k # NaN /\ UpTo(k, s.len) =>
              r.answer = Nothing /\ Held(r.store) = Written(s.kind, Held(s), k[2], x)
         /\ s.kind = "Array" /\ IsNegative(k) => r = Result(s, Nothing)
         /\ s.kind = "Array" /\ k # NaN /\ ~IsNegative(k) /\ usize(k) # UsizeMax =>
              /\ IsNumber(k) /\ k[2] \in Nat
              /\ r.answer = Nothing /\ Held(r.store) = Written("Array", Held(s), k[2], x)
<1> DEFINE r == SeqSet(s, k, x)
           n == s.len
<1>1. n \in 0 .. MaxLength /\ any_to_number(k) = k BY StoreIs, NumericCases
<1>2. CASE s.kind \in Vectors
  <2>1. Buffer(s) /\ s.kind # "Array" BY <1>2, StoreIs DEF Vectors, NumericVectors
  <2>2. vs_any_index_set(s, k, x) = vs_vec_set(s, k, x) BY <1>1, <2>1 DEF vs_any_index_set
  <2>3. r = vs_vec_set(s, k, x)
    <3>1. CASE s.kind = "C" BY <3>1 DEF SeqSet, NumericVectors
    <3>2. CASE s.kind \in NumericVectors
      <4>1. r = IF idx_in_bounds(k, n) THEN Result(set_any(s, k[2], x), Nothing) ELSE vs_vec_set(s, k, x)
        BY <3>2 DEF SeqSet, NumericVectors
      <4>2. idx_in_bounds(k, n) = Below(k, n) BY <1>1, IndexTests
      <4>3. Below(k, n) => k # NaN BY DEF Below, IsNumber, NaN
      <4>4. Below(k, n) => vs_vec_set(s, k, x) = Result(set_any(s, k[2], x), Nothing)
        BY <2>1, <4>3, VecSet
      <4> QED BY <4>1, <4>2, <4>4
    <3> QED BY <1>2, <3>1, <3>2 DEF Vectors
  <2>4. ASSUME NEW i \in Numeric, i # NaN
        PROVE  LET q == vs_vec_set(s, i, x) IN
               /\ IsStore(q.store) /\ q.store.kind = s.kind /\ q.store.len >= s.len
               /\ q.answer \in {Nothing, RangeError}
               /\ ~UpTo(i, n) => q = Result(s, RangeError)
               /\ UpTo(i, n) => q.answer = Nothing /\ Held(q.store) = Written(s.kind, Held(s), i[2], x)
    <3> DEFINE q == vs_vec_set(s, i, x)
    <3>1. /\ ~UpTo(i, n) => q = Result(s, RangeError)
          /\ UpTo(i, n) => /\ q.answer = Nothing
                           /\ Buffer(q.store) /\ q.store.kind = s.kind /\ q.store.len >= s.len
                           /\ Held(q.store) = Written(s.kind, Held(s), i[2], x)
      BY <2>1, <2>4, VecSet
    <3> HIDE DEF q
    <3>2. CASE UpTo(i, n) BY <3>1, <3>2 DEF IsStore, q
    <3>3. CASE ~UpTo(i, n)
      <4>1. q.store = s /\ q.answer = RangeError BY <3>1, <3>3 DEF Result
      <4> QED BY <1>1, <3>1, <3>3, <4>1 DEF q
    <3> QED BY <3>2, <3>3
  <2>5. CASE k # NaN BY <1>2, <2>1, <2>2, <2>3, <2>4, <2>5
  <2>6. CASE k = NaN
    <3> DEFINE z == N(0)
    <3>1. z \in Numeric /\ z # NaN BY DEF N, Numeric, NaN
    <3>2. usize(z) = usize(k) /\ IsNegative(z) = IsNegative(k)
      <4>1. usize(k) = 0 BY <2>6 DEF usize, NaN, Infinity, IsNumber
      <4>2. z \in Values /\ IsNumber(z) /\ z[2] = 0 BY DEF N, Values, IsNumber
      <4>3. usize(z) = 0
        <5> HIDE DEF z
        <5>1. usize(z) = IF z[2] < 0 THEN 0 ELSE IF z[2] < UsizeMax THEN z[2] ELSE UsizeMax
          BY <4>2, UsizeIs
        <5> QED BY <4>2, <5>1, CollectionsAssumption
      <4>4. ~IsNegative(z) /\ ~IsNegative(k) BY <2>6, <4>2 DEF IsNegative, IsNumber, NaN
      <4>5. IsNegative(z) = FALSE /\ IsNegative(k) = FALSE BY <4>4 DEF IsNegative
      <4> QED BY <4>1, <4>3, <4>5
    <3>3. vs_vec_set(s, k, x) = vs_vec_set(s, z, x) BY <3>2 DEF vs_vec_set
    <3> HIDE DEF z
    <3>4. LET q == vs_vec_set(s, z, x) IN
          /\ IsStore(q.store) /\ q.store.kind = s.kind /\ q.store.len >= s.len
          /\ q.answer \in {Nothing, RangeError}
      BY <2>4, <3>1
    <3> QED BY <2>1, <2>2, <2>3, <2>6, <3>3, <3>4
  <2> QED BY <2>5, <2>6
<1>3. CASE s.kind = "Array"
  <2>1. IsArray(s) /\ s.kind \notin Vectors BY <1>3, StoreIs DEF Vectors, NumericVectors
  <2> DEFINE data == s.cells
             q == vs_arr_set(data, k, x)
  <2>2. data \in Seq(Values) /\ n = Len(data) /\ Held(s) = data /\ new_array(data) = s BY <2>1, ArrayIs
  <2>3. r = q /\ vs_any_index_set(s, k, x) = q
    BY <1>1, <1>3 DEF SeqSet, vs_any_index_set, NumericVectors
  <2>4. /\ \E d \in Seq(Values) : q.store = new_array(d)
        /\ IsNegative(k) => q = ArraySet(data, Nothing)
        /\ k # NaN /\ usize(k) # UsizeMax /\ ~IsNegative(k) =>
             /\ IsNumber(k) /\ k[2] \in Nat
             /\ q = ArraySet(Written("Array", data, k[2], x), Nothing)
        /\ q.answer = Nothing => q.store.len >= Len(data)
        /\ q.answer \in {Nothing, Abort}
    <3>1. Len(data) <= MaxLength BY <2>2
    <3> HIDE DEF data
    <3> QED BY <2>2, <3>1, ArrSet
  <2> HIDE DEF q, data
  <2>5. PICK d \in Seq(Values) : q.store = new_array(d) BY <2>4
  <2>6. IsArray(q.store) /\ q.store.kind = "Array" /\ Held(q.store) = d BY <2>5, NewArray
  <2>7. IsNegative(k) => q = Result(s, Nothing) BY <2>2, <2>4 DEF ArraySet
  <2>8. k # NaN /\ ~IsNegative(k) /\ usize(k) # UsizeMax =>
          /\ IsNumber(k) /\ k[2] \in Nat /\ q.answer = Nothing
          /\ Held(q.store) = Written("Array", data, k[2], x)
    <3> SUFFICES ASSUME k # NaN, ~IsNegative(k), usize(k) # UsizeMax
                 PROVE  /\ IsNumber(k) /\ k[2] \in Nat /\ q.answer = Nothing
                        /\ Held(q.store) = Written("Array", data, k[2], x)
      OBVIOUS
    <3> DEFINE t == Written("Array", data, k[2], x)
    <3>1. IsNumber(k) /\ k[2] \in Nat /\ q = ArraySet(t, Nothing) BY <2>4
    <3> HIDE DEF t
    <3>2. q.answer = Nothing /\ q.store.cells = t BY <3>1 DEF ArraySet, Result, new_array
    <3>3. q.store.cells = d BY <2>5, NewArray
    <3> QED BY <2>6, <3>1, <3>2, <3>3 DEF t
  <2> QED BY <1>3, <2>1, <2>2, <2>3, <2>4, <2>6, <2>7, <2>8 DEF IsStore
<1> QED BY <1>2, <1>3, StoreIs DEF Kinds


(* Such a write is the one the promise gives: of v, when x is what the     *)
(* receiver makes of it.                                                   *)
LEMMA StoreOf ==
  ASSUME NEW s, IsStore(s), s.kind = store.kind, s.kind # "Object", s.len <= MaxLength,
         NEW k \in Numeric, k # NaN, s.kind = "Array" => usize(k) # UsizeMax,
         NEW x \in Values, NEW v \in Values, Stored(s.kind, x) = Stored(s.kind, v),
         s.kind = "C" => v[1] \in {"object", "null", "undefined"},
         store' = SeqSet(s, k, x).store, answer' = SeqSet(s, k, x).answer
  PROVE  Promise!Store(Held(s), k, v)
<1> DEFINE t == Held(s)
           n == s.len
           r == SeqSet(s, k, x)
           i == k[2]
<1>1. n \in 0 .. MaxLength /\ Len(t) = n BY StoreIs
<1>2. Promise!IsIndex(k) <=> IsNumber(k) /\ i >= 0 BY SameOperators DEF Promise!IsIndex
<1>3. Promise!IsVector = (s.kind \in Vectors) BY SameConstants DEF Promise!IsVector
<1>4. Promise!Put(t, i, v) = Written(s.kind, t, i, x)
  BY SameOperators, SameConstants DEF Promise!Put, Written
<1>5. s.kind = "C" => v[1] \in {"object", "null", "undefined"} OBVIOUS
<1>6. CASE s.kind \in Vectors
  <2>1. /\ ~UpTo(k, n) => r = Result(s, RangeError)
        /\ UpTo(k, n) => r.answer = Nothing /\ Held(r.store) = Written(s.kind, t, i, x)
    BY <1>6, SetIs
  <2>2. (Promise!IsIndex(k) /\ i <= Len(t)) <=> UpTo(k, n) BY <1>1, <1>2 DEF UpTo
  <2>3. CASE UpTo(k, n)
    <3>1. Held(store') = Promise!Put(t, i, v) /\ answer' = Nothing BY <1>4, <2>1, <2>3
    <3> QED BY <1>3, <1>5, <1>6, <2>2, <2>3, <3>1, ContentsAre, SameConstants DEF Promise!Store
  <2>4. CASE ~UpTo(k, n)
    <3>1. Held(store') = t /\ answer' = RangeError BY <2>1, <2>4 DEF Result
    <3> QED BY <1>3, <1>5, <1>6, <2>2, <2>4, <3>1, ContentsAre, SameConstants DEF Promise!Store
  <2> QED BY <2>3, <2>4
<1>7. CASE s.kind = "Array"
  <2>1. s.kind \notin Vectors /\ s.kind # "C" BY <1>7 DEF Vectors, NumericVectors
  <2>2. /\ IsNegative(k) => r = Result(s, Nothing)
        /\ ~IsNegative(k) => /\ IsNumber(k) /\ i \in Nat
                             /\ r.answer = Nothing /\ Held(r.store) = Written(s.kind, t, i, x)
    BY <1>7, SetIs
  <2>3. CASE IsNegative(k)
    <3>1. Held(store') = t /\ answer' = Nothing BY <2>2, <2>3 DEF Result
    <3>2. ~Promise!IsIndex(k)
      <4>1. IsNumber(k) /\ i < 0 BY <2>3 DEF IsNegative
      <4>2. i \in Int BY <4>1, NumericCases
      <4> HIDE DEF i
      <4> QED BY <1>2, <4>1, <4>2
    <3> QED BY <1>3, <2>1, <3>1, <3>2, ContentsAre, SameConstants DEF Promise!Store
  <2>4. CASE ~IsNegative(k)
    <3>1. Held(store') = Promise!Put(t, i, v) /\ answer' = Nothing BY <1>4, <2>2, <2>4
    <3>2. Promise!IsIndex(k) BY <1>2, <2>2, <2>4
    <3> QED BY <1>3, <2>1, <3>1, <3>2, ContentsAre, SameConstants DEF Promise!Store
  <2> QED BY <2>3, <2>4
<1> QED BY <1>6, <1>7, StoreIs DEF Kinds

(* set writes an element, or a property.                                   *)
SetHolds(c) ==
  LET k == any_to_number(c.args[1]) IN
  /\ k # NaN
  /\ store.kind = "Array" => usize(k) # UsizeMax
  /\ store.kind = "C" /\ c.path = "boxed" => c.args[2][1] \in {"object", "null"}
(* A write of an element or a property.                                    *)
LEMMA SetKeeps ==
  ASSUME NEW c, Answering(c), c.name = "set"
  PROVE  /\ StoreKept
         /\ answer' # Abort => store'.len >= store.len
         /\ store.kind = "Array" /\ IsNegative(any_to_number(c.args[1])) => Same
         /\ store.kind = "Object" => /\ Promise!SetProperty(c)
                                     /\ \A i \in 1 .. store.len : store'.cells[i][1] = store.cells[i][1]
         /\ store.kind # "Object" /\ SetHolds(c) => Promise!Set(c)
<1> DEFINE key == c.args[1]
           v == c.args[2]
           k == any_to_number(key)
           x == IF c.path = "typed" THEN Stored(store.kind, v) ELSE v
<1>1. key \in Values /\ v \in Values /\ c.args \in Seq(Values) /\ Len(c.args) = 2
  BY ArgumentsAre DEF Answering, IsCall
<1>2. k \in Numeric /\ any_to_number(k) = k
  <2>1. k \in Numeric BY <1>1, Converted
  <2> HIDE DEF k
  <2> QED BY <2>1, NumericCases
<1>3. IsStore(store) /\ store.len <= MaxLength /\ store.len \in Nat BY StoreIs DEF Answering
<1>4. CASE store.kind = "Object"
  <2> DEFINE p == set_prop(store, key, v)
             had == \E i \in 1 .. store.len : store.cells[i][1] = key
  <2>1. store' = p.store /\ answer' = p.answer
    <3>1. c.path = "boxed" BY <1>4, Dispatch
    <3>2. Outcomes(store, c) = {vs_any_index_set(store, key, v)} BY <3>1 DEF Outcomes
    <3>3. vs_any_index_set(store, key, v) = p BY <1>4 DEF vs_any_index_set
    <3> QED BY <3>2, <3>3 DEF Answering
  <2>2. IsObject(store) BY <1>3, <1>4, StoreIs
  <2>3. /\ IsObject(p.store) /\ p.answer = Nothing /\ p.store.kind = "Object"
        /\ p.store.len >= store.len /\ \A i \in 1 .. store.len : p.store.cells[i][1] = store.cells[i][1]
        /\ Held(p.store) = IF had THEN [i \in 1 .. store.len |->
                                          IF store.cells[i][1] = key THEN <<key, v>> ELSE store.cells[i]]
                           ELSE Append(store.cells, <<key, v>>)
    BY <1>1, <2>2, SetProp, ZenonT(30)
  <2>4. c.args = <<key, v>>
    <3> DEFINE a == c.args
    <3>1. a \in Seq(Values) /\ Len(a) = 2 BY <1>1
    <3> HIDE DEF a
    <3>2. a = <<a[1], a[2]>> BY <3>1
    <3> QED BY <3>2 DEF a
  <2>5. Promise!Size = store.len /\ Contents = store.cells BY <2>2, <1>3, StoreIs, ContentsAre, ObjectIs
  <2>6. key \in Promise!Keys <=> had
    <3> HIDE DEF key
    <3>1. Promise!Keys = {Contents[i][1] : i \in 1 .. Promise!Size} BY DEF Promise!Keys
    <3> QED BY <2>5, <3>1
  <2> HIDE DEF p
  <2>7. Promise!SetProperty(c)
    <3>1. Contents' = IF had THEN [i \in 1 .. Promise!Size |-> IF Contents[i][1] = key THEN c.args ELSE Contents[i]]
                      ELSE Append(Contents, c.args)
      BY <2>1, <2>3, <2>4, <2>5, ContentsAre
    <3> HIDE DEF key, had
    <3> QED BY <2>1, <2>3, <2>6, <3>1, SameConstants DEF Promise!SetProperty, key
  <2> QED BY <1>4, <2>1, <2>3, <2>7 DEF StoreKept, IsStore
<1>5. CASE store.kind # "Object"
  <2>1. store' = SeqSet(store, k, x).store /\ answer' = SeqSet(store, k, x).answer
    <3>1. CASE c.path = "boxed"
      <4>1. Outcomes(store, c) = {vs_any_index_set(store, key, v)} BY <3>1 DEF Outcomes
      <4>2. vs_any_index_set(store, key, v) = vs_any_index_set(store, k, v)
        BY <1>2, <1>5 DEF vs_any_index_set
      <4>3. SeqSet(store, k, v) = vs_any_index_set(store, k, v)
        <5> HIDE DEF k, v
        <5> QED BY <1>1, <1>2, <1>3, <1>5, SetIs
      <4> QED BY <3>1, <4>1, <4>2, <4>3 DEF Answering
    <3>2. CASE c.path = "typed"
      <4>1. c = [name |-> c.name, path |-> c.path, args |-> c.args] BY DEF Answering, IsCall, Make
      <4>2. Checked(store.kind, c) = [c EXCEPT !.args = <<k, Stored(store.kind, v)>>] BY DEF Checked
      <4>3. Checked(store.kind, c).args = <<k, x>> BY <3>2, <4>1, <4>2
      <4> HIDE DEF k, x
      <4>4. Outcomes(store, c) = {} \/ Outcomes(store, c) = {SeqSet(store, k, x)} BY <3>2, <4>3 DEF Outcomes
      <4> QED BY <4>4 DEF Answering
    <3> QED BY <3>1, <3>2 DEF Answering, IsCall
  <2>2. x \in Values /\ Stored(store.kind, x) = Stored(store.kind, v)
    <3>1. CASE store.kind \in Vectors
      <4>1. Stored(store.kind, v) \in Elements(store.kind) BY <1>1, <3>1, StoredIsElement
      <4> QED BY <1>1, <4>1 DEF Elements
    <3>2. CASE store.kind = "Array"
      <4>1. \A w : Stored("Array", w) = w BY DEF Stored
      <4> QED BY <1>1, <3>2, <4>1
    <3> QED BY <1>3, <1>5, <3>1, <3>2, StoreIs DEF Kinds
  <2> DEFINE r == SeqSet(store, k, x)
  <2>3. /\ IsStore(r.store) /\ r.store.kind = store.kind /\ r.answer \in {Nothing, Abort, RangeError}
        /\ r.answer # Abort => r.store.len >= store.len
        /\ store.kind = "Array" /\ IsNegative(k) => r = Result(store, Nothing)
    <3> HIDE DEF k, x
    <3> QED BY <1>2, <1>3, <1>5, <2>2, SetIs
  <2>4. store.kind = "Array" /\ IsNegative(k) => Same
    <3> HIDE DEF r, k
    <3> QED BY <2>1, <2>3 DEF Result, Same, r
  <2>5. ASSUME SetHolds(c) PROVE Promise!Set(c)
    <3>1. k # NaN /\ (store.kind = "Array" => usize(k) # UsizeMax) BY <2>5 DEF SetHolds
    <3>2. store.kind = "C" => v[1] \in {"object", "null", "undefined"}
      <4>1. CASE c.path = "boxed" BY <2>5, <4>1 DEF SetHolds
      <4>2. CASE c.path = "typed"
        <5>1. Accepts(store.kind, c) BY <4>2, Dispatch
        <5> QED BY <5>1 DEF Accepts, IsElement
      <4> QED BY <4>1, <4>2 DEF Answering, IsCall
    <3>3. Promise!Store(Held(store), k, v)
      <4> HIDE DEF k, x, v
      <4> QED BY <1>1, <1>2, <1>3, <1>5, <2>1, <2>2, <3>1, <3>2, StoreOf
    <3> QED BY <3>3, ContentsAre, SameOperators DEF Promise!Set
  <2> HIDE DEF r, k, x
  <2>6. StoreKept /\ (answer' # Abort => store'.len >= store.len) BY <2>1, <2>3 DEF StoreKept, r
  <2> QED BY <1>5, <2>4, <2>5, <2>6 DEF k
<1> QED BY <1>4, <1>5


(* in answers whether the position or the key is there.                    *)
LEMMA HasKeeps ==
  ASSUME NEW c, Answering(c), c.name = "has"
  PROVE  /\ Same
         /\ store.kind = "Object" => Promise!HasProperty(c)
         /\ store.kind # "Object" => Promise!Has(c)
<1> DEFINE key == c.args[1]
           k == any_to_number(key)
           there == vs_any_has_prop(key, store)
<1>1. key \in Values BY ArgumentsAre DEF Answering, IsCall, Unary
<1>2. k \in Numeric BY <1>1, Converted
<1>3. IsStore(store) /\ store.len \in 0 .. MaxLength BY StoreIs DEF Answering
<1>4. Same /\ answer' = Bool(there)
  <2>1. c.path = "boxed" BY DEF Answering, IsCall, TypedCalls
  <2>2. Outcomes(store, c) = {Result(store, Bool(there))} BY <2>1 DEF Outcomes
  <2> HIDE DEF there
  <2> QED BY <2>2 DEF Answering, Result, Same
<1>5. CASE store.kind = "Object"
  <2>1. IsObject(store) BY <1>3, <1>5, StoreIs
  <2>2. Promise!Size = store.len /\ Contents = store.cells BY <1>3, <2>1, StoreIs, ContentsAre, ObjectIs
  <2> DEFINE in == key \in Promise!Keys
  <2>3. there = in
    <3>1. there = has_prop(store, key) BY <1>5 DEF vs_any_has_prop
    <3> HIDE DEF key, there
    <3>2. has_prop(store, key) <=> \E i \in 1 .. store.len : store.cells[i][1] = key BY <2>1, GetProp
    <3>3. Promise!Keys = {Contents[i][1] : i \in 1 .. Promise!Size} BY DEF Promise!Keys
    <3>4. has_prop(store, key) \in BOOLEAN BY DEF has_prop
    <3> QED BY <2>2, <3>1, <3>2, <3>3, <3>4
  <2>4. answer' = Bool(in) BY <1>4, <2>3
  <2> QED BY <1>4, <1>5, <2>4, ContentsAre, SameConstants DEF Promise!HasProperty, Promise!Keep, Same
<1>6. CASE store.kind # "Object"
  <2> DEFINE in == Promise!IsIndex(k) /\ k[2] < Promise!Size
  <2>1. there = in
    <3>1. there = (~IsNegative(k) /\ k # NaN /\ usize(k) < store.len) BY <1>6 DEF vs_any_has_prop
    <3>2. (~IsNegative(k) /\ k # NaN /\ usize(k) < store.len) = Below(k, store.len)
      <4> HIDE DEF k
      <4> QED BY <1>2, <1>3, IndexTests
    <3>3. in = Below(k, store.len) BY <1>3, StoreIs, ContentsAre, SameOperators DEF Promise!IsIndex, Below
    <3> QED BY <3>1, <3>2, <3>3
  <2>2. answer' = Bool(in) BY <1>4, <2>1
  <2>3. Promise!any_to_number(key) = k BY SameOperators
  <2> HIDE DEF k
  <2> QED BY <1>4, <1>6, <2>2, <2>3, ContentsAre, SameConstants DEF Promise!Has, Promise!Keep, Same
<1> QED BY <1>5, <1>6

(* What is left without one pair is what is before it and what is after.   *)
LEMMA WithoutIs ==
  ASSUME NEW t \in Pairs, NEW at \in 1 .. Len(t)
  PROVE  Without(t, at) = SubSeq(t, 1, at - 1) \o SubSeq(t, at + 1, Len(t))
<1> DEFINE n == Len(t)
<1>0. t \in Seq(Values \X Values) /\ n \in Nat /\ at \in 1 .. n /\ Len(t) = n BY DEF Pairs
<1> DEFINE a == SubSeq(t, 1, at - 1)
           b == SubSeq(t, at + 1, n)
           w == [j \in 1 .. n - 1 |-> IF j < at THEN t[j] ELSE t[j + 1]]
<1>1. Without(t, at) = w BY <1>0 DEF Without
<1>2. /\ a \in Seq(Values \X Values) /\ Len(a) = at - 1 /\ \A j \in 1 .. at - 1 : a[j] = t[j]
  BY <1>0
<1>3. /\ b \in Seq(Values \X Values) /\ Len(b) = n - at /\ \A j \in 1 .. n - at : b[j] = t[at + j]
  <2>1. at + 1 \in Int /\ n \in Int /\ (\A j \in 1 .. n - at : at + j = (at + 1) + j - 1 /\ at + j \in 1 .. n)
    BY <1>0
  <2>2. /\ Len(b) = IF at + 1 <= n THEN n - (at + 1) + 1 ELSE 0
        /\ b = [i \in 1 .. Len(b) |-> t[(at + 1) + i - 1]]
    BY <1>0, <2>1, SubSeqProperties
  <2> DEFINE m == Len(b)
  <2>3. m = n - at BY <1>0, <2>2
  <2>4. \A j \in 1 .. n - at : b[j] = t[at + j] BY <2>1, <2>2, <2>3
  <2> HIDE DEF m, n, b
  <2>5. \A j \in 1 .. n - at : t[at + j] \in Values \X Values BY <1>0, <2>1
  <2>6. b = [j \in 1 .. n - at |-> t[at + j]] BY <2>1, <2>2, <2>3 DEF m
  <2>7. n - at \in Nat BY <1>0 DEF n
  <2> QED BY <2>3, <2>4, <2>5, <2>6, <2>7 DEF m
<1> HIDE DEF a, b, w, n
<1>4. Len(a \o b) = n - 1 /\ a \o b \in Seq(Values \X Values)
  <2>1. Len(a \o b) = Len(a) + Len(b) /\ a \o b \in Seq(Values \X Values) BY <1>2, <1>3, ConcatProperties
  <2>2. (at - 1) + (n - at) = n - 1 BY <1>0 DEF n
  <2> QED BY <1>2, <1>3, <2>1, <2>2
<1>5. \A j \in 1 .. n - 1 : (a \o b)[j] = IF j < at THEN t[j] ELSE t[j + 1]
  <2> SUFFICES ASSUME NEW j \in 1 .. n - 1 PROVE (a \o b)[j] = IF j < at THEN t[j] ELSE t[j + 1]
    OBVIOUS
  <2>0. n \in Nat /\ at \in 1 .. n BY <1>0 DEF n
  <2>1. CASE j < at
    <3>1. j \in 1 .. at - 1 BY <2>0, <2>1
    <3>2. (a \o b)[j] = a[j] BY <1>2, <1>3, <3>1, ConcatProperties
    <3> QED BY <1>2, <2>1, <3>1, <3>2
  <2>2. CASE ~(j < at)
    <3> DEFINE i == j - (at - 1)
    <3>1. i \in 1 .. n - at /\ at + i = j + 1 /\ j \in (at - 1) + 1 .. (at - 1) + (n - at) BY <2>0, <2>2
    <3>2. (a \o b)[j] = b[j - Len(a)]
      <4>1. j \in 1 .. Len(a) + Len(b) /\ ~(j <= Len(a)) BY <1>2, <1>3, <2>0, <2>2, <3>1
      <4> QED BY <1>2, <1>3, <4>1, ConcatProperties
    <3>3. b[i] = t[j + 1]
      <4> HIDE DEF i
      <4>1. b[i] = t[at + i] BY <1>3, <3>1
      <4> QED BY <3>1, <4>1
    <3> QED BY <1>2, <2>2, <3>2, <3>3
  <2> QED BY <2>1, <2>2
<1>6. a \o b = [j \in 1 .. n - 1 |-> (a \o b)[j]]
  <2> DEFINE ab == a \o b
  <2>1. ab \in Seq(Values \X Values) /\ Len(ab) = n - 1 BY <1>4
  <2> HIDE DEF ab
  <2>2. ab = [j \in 1 .. n - 1 |-> ab[j]] BY <2>1
  <2> QED BY <2>2 DEF ab
<1>7. w = a \o b
  <2> DEFINE ab == a \o b
  <2>1. ab = [j \in 1 .. n - 1 |-> ab[j]] /\ \A j \in 1 .. n - 1 : ab[j] = IF j < at THEN t[j] ELSE t[j + 1]
    BY <1>5, <1>6
  <2> HIDE DEF ab
  <2>2. w = ab BY <2>1 DEF w
  <2> QED BY <2>2 DEF ab
<1> QED BY <1>1, <1>7 DEF a, b, n

(* delete takes a property away, and of a sequence nothing.                *)
LEMMA DeleteKeeps ==
  ASSUME NEW c, Answering(c), c.name = "delete"
  PROVE  /\ StoreKept
         /\ store.kind = "Object" => Promise!DeleteProperty(c)
         /\ store.kind # "Object" => Same /\ Promise!Delete(c)
<1> DEFINE key == c.args[1]
           p == vs_any_delete_prop(store, key)
<1>1. IsStore(store) BY DEF Answering
<1>2. store' = p.store /\ answer' = p.answer
  <2>1. c.path = "boxed" BY DEF Answering, IsCall, TypedCalls
  <2>2. Outcomes(store, c) = {p} BY <2>1 DEF Outcomes
  <2> QED BY <2>2 DEF Answering
<1>3. CASE store.kind # "Object"
  <2>1. p = Result(store, Bool(FALSE)) BY <1>3 DEF vs_any_delete_prop
  <2>2. Same /\ answer' = Bool(FALSE) BY <1>2, <2>1 DEF Result, Same
  <2> QED BY <1>1, <1>3, <2>2, ContentsAre, SameConstants DEF Promise!Delete, Promise!Keep, Same, StoreKept
<1>4. CASE store.kind = "Object"
  <2>1. IsObject(store) BY <1>1, <1>4, StoreIs
  <2>2. Promise!Size = store.len /\ Contents = store.cells /\ store.len \in Nat
    BY <1>1, <2>1, StoreIs, ContentsAre, ObjectIs
  <2> DEFINE q == delete_prop(store, key)
  <2>3. p = q BY <1>4 DEF vs_any_delete_prop
  <2> HIDE DEF p, key
  <2>4. /\ IsObject(q.store) /\ q.store.kind = "Object"
        /\ ~has_prop(store, key) => Held(q.store) = store.cells /\ q.answer = Bool(FALSE)
        /\ \A at \in 1 .. store.len : store.cells[at][1] = key =>
             Held(q.store) = Without(store.cells, at) /\ q.answer = Bool(TRUE)
    BY <2>1, DeleteProp
  <2>5. has_prop(store, key) <=> \E i \in 1 .. store.len : store.cells[i][1] = key BY <2>1, GetProp
  <2>6. key \in Promise!Keys <=> has_prop(store, key)
    <3>1. Promise!Keys = {Contents[i][1] : i \in 1 .. Promise!Size} BY DEF Promise!Keys
    <3> QED BY <2>2, <2>5, <3>1
  <2> HIDE DEF q
  <2>7. StoreKept BY <1>2, <1>4, <2>3, <2>4 DEF StoreKept, IsStore
  <2>8. CASE ~has_prop(store, key)
    <3>1. Contents' = Contents /\ answer' = Bool(FALSE) BY <1>2, <2>2, <2>3, <2>4, <2>8, ContentsAre
    <3>2. (key \in Promise!Keys) = FALSE BY <2>6, <2>8
    <3> QED BY <1>4, <2>7, <3>1, <3>2, SameConstants DEF Promise!DeleteProperty, key
  <2>9. CASE has_prop(store, key)
    <3> DEFINE at == CHOOSE i \in 1 .. Promise!Size : Contents[i][1] = key
               n == store.len
               t == store.cells
    <3>1. at \in 1 .. n /\ t[at][1] = key BY <2>2, <2>5, <2>9
    <3> HIDE DEF at
    <3>2. Held(store') = Without(t, at) /\ answer' = Bool(TRUE) BY <1>2, <2>3, <2>4, <3>1
    <3>3. t \in Seq(Values \X Values) /\ Len(t) = n BY <2>1, ObjectIs DEF Pairs
    <3>4. /\ Promise!Between(0, at - 1) = SubSeq(t, 1, at - 1)
          /\ Promise!Between(at, n) = SubSeq(t, at + 1, n)
      <4>1. 0 \in Int /\ at \in Int /\ at - 1 \in Int /\ n \in Int /\ 0 + 1 = 1 BY <2>2, <3>1
      <4>2. Held(store) = t BY <2>1, ObjectIs
      <4> QED BY <4>1, <4>2, BetweenIs
    <3>5. Without(t, at) = SubSeq(t, 1, at - 1) \o SubSeq(t, at + 1, n) BY <3>1, <3>3, WithoutIs DEF Pairs
    <3>6. (key \in Promise!Keys) = TRUE BY <2>6, <2>9
    <3>7. Contents' = Promise!Between(0, at - 1) \o Promise!Between(at, Promise!Size)
      BY <2>2, <3>2, <3>4, <3>5, ContentsAre
    <3> HIDE DEF n, t
    <3>8. Contents' = IF c.args[1] \notin Promise!Keys THEN Contents
                      ELSE LET pos == CHOOSE i \in 1 .. Promise!Size : Contents[i][1] = c.args[1]
                           IN  Promise!Between(0, pos - 1) \o Promise!Between(pos, Promise!Size)
      BY <3>6, <3>7 DEF key, at
    <3>9. answer' = Promise!Bool(c.args[1] \in Promise!Keys) BY <3>2, <3>6, SameConstants DEF key
    <3> QED BY <1>4, <2>7, <3>8, <3>9 DEF Promise!DeleteProperty
  <2> QED BY <2>8, <2>9
<1> QED BY <1>3, <1>4


(* A number that is a position of a short receiver.                        *)
LEMMA PositionNumber ==
  ASSUME NEW n \in 0 .. MaxLength
  PROVE  /\ N(n) \in Numeric /\ N(n) # NaN /\ IsNumber(N(n)) /\ N(n)[2] = n
         /\ usize(N(n)) # UsizeMax /\ ~IsNegative(N(n))
<1> DEFINE k == N(n)
<1>1. n \in Nat /\ n < UsizeMax /\ n \in Int BY CollectionsAssumption
<1>2. k \in Values /\ k \in Numeric /\ k # NaN /\ IsNumber(k) /\ k[2] = n
  BY <1>1 DEF N, Numeric, Values, NaN, IsNumber
<1> HIDE DEF k
<1>3. usize(k) = IF k[2] < 0 THEN 0 ELSE IF k[2] < UsizeMax THEN k[2] ELSE UsizeMax BY <1>2, UsizeIs
<1>4. usize(k) = n BY <1>1, <1>2, <1>3
<1>5. ~IsNegative(k) BY <1>1, <1>2 DEF IsNegative
<1> QED BY <1>1, <1>2, <1>4, <1>5 DEF k

(* An element read from a receiver of its kind, or what an empty one gives. *)
LEMMA UnboxedIs ==
  ASSUME NEW kind \in Vectors \cup {"Array"}, NEW v \in Values
  PROVE  /\ kind # "C" \/ v[1] \in {"object", "null", "undefined"} => Unboxed(kind, v) \in Values
         /\ kind = "C" /\ v[1] \notin {"object", "null", "undefined"} => Unboxed(kind, v) = TypeError
         /\ kind = "Array" => Unboxed(kind, v) = v
         /\ \A w \in Values : w # TypeError
         /\ Unboxed("C", Undefined) = Null
<1>1. CASE kind \in NumericVectors
  <2>1. Unboxed(kind, v) = Stored(kind, v) BY <1>1 DEF Unboxed, NumericVectors
  <2>2. Stored(kind, v) \in Values BY <1>1, StoredIsElement DEF Elements, Vectors
  <2>3. kind # "C" /\ kind # "Array" BY <1>1 DEF NumericVectors
  <2> QED BY <2>1, <2>2, <2>3, ValueCases DEF TypeError, NaN, Infinity, Undefined, Null, Unboxed, NumericVectors
<1>2. CASE kind = "C"
  <2>1. Null \in Values BY DEF Values
  <2> QED BY <1>2, <2>1, ValueCases DEF Unboxed, NumericVectors, TypeError, NaN, Infinity, Undefined, Null
<1>3. CASE kind = "Array"
  BY <1>3, ValueCases DEF Unboxed, NumericVectors, TypeError, NaN, Infinity, Undefined, Null
<1> QED BY <1>1, <1>2, <1>3 DEF Vectors

(* x[x.length] = x.pop() puts the last element where it was, one further   *)
(* than an array is then long, and past the end of a vector; where the     *)
(* elements are numbers the value comes before the index, and it departs.  *)
LEMMA MoveLastKeeps ==
  ASSUME NEW c, Answering(c), c.name = "moveLast"
  PROVE  StoreKept /\ (store.kind \notin NumericVectors => Promise!MoveLast(c))
<1> DEFINE n == store.len
           kind == store.kind
           p == Pop(store)
           q == p.store
           y == p.answer
           k == N(IF kind \in NumericVectors THEN q.len ELSE n)
           r == SeqSet(q, k, y)
<1>1. IsStore(store) /\ n \in 0 .. MaxLength /\ Len(Held(store)) = n BY StoreIs DEF Answering
<1>2. kind # "Object" /\ kind \in Vectors \cup {"Array"} /\ store' = MoveLast(store).store /\ answer' = MoveLast(store).answer
  <2>1. c.path = "typed" BY DEF Answering, IsCall, BoxedCalls, Unary
  <2>2. kind # "Object" BY <2>1, Dispatch
  <2>3. Outcomes(store, c) = {} \/ Outcomes(store, c) = {MoveLast(store)} BY <2>1 DEF Outcomes
  <2> QED BY <1>1, <2>2, <2>3, StoreIs DEF Answering, Kinds
<1>3. /\ n = 0 => p = Result(store, Unboxed(kind, Undefined))
      /\ n # 0 => /\ IsStore(q) /\ q.kind = kind /\ q.len = n - 1
                  /\ Held(q) = SubSeq(Held(store), 1, n - 1)
                  /\ y = Unboxed(kind, Held(store)[n])
  BY <1>1, <1>2, PopIs
<1>4. MoveLast(store) = IF y = TypeError THEN p ELSE r BY DEF MoveLast
<1>5. IsStore(q) /\ q.kind = kind /\ q.len \in 0 .. MaxLength
  <2>1. CASE n = 0
    <3>1. q = store BY <1>3, <2>1 DEF Result
    <3> QED BY <1>1, <3>1
  <2>2. CASE n # 0
    <3> HIDE DEF q, p, n
    <3>1. n - 1 \in 0 .. MaxLength BY <1>1, <2>2, CollectionsAssumption
    <3> QED BY <1>3, <2>2, <3>1
  <2> QED BY <2>1, <2>2
<1>6. k \in Numeric /\ k # NaN /\ usize(k) # UsizeMax
  <2>1. (IF kind \in NumericVectors THEN q.len ELSE n) \in 0 .. MaxLength BY <1>1, <1>5
  <2> QED BY <2>1, PositionNumber
<1>7. Promise!Size = n BY <1>1, ContentsAre
<1>8. CASE n = 0
  <2>1. q = store /\ y = Unboxed(kind, Undefined) BY <1>3, <1>8 DEF Result
  <2>2. Undefined \in Values /\ Undefined[1] = "undefined" BY DEF Values, Undefined
  <2>3. y \in Values /\ y # TypeError BY <1>2, <2>1, <2>2, UnboxedIs
  <2>4. k = N(0) BY <1>8, <2>1
  <2>5. store' = SeqSet(store, k, y).store /\ answer' = SeqSet(store, k, y).answer
    <3> HIDE DEF p, q, y, k
    <3> QED BY <1>2, <1>4, <2>1, <2>3
  <2>6. kind = "C" => y[1] \in {"object", "null", "undefined"} BY <2>1, <2>2, UnboxedIs DEF Null
  <2> HIDE DEF p, q, y, k
  <2>7. StoreKept BY <1>1, <1>2, <1>6, <2>3, <2>5, SetIs DEF StoreKept
  <2>8. Promise!Store(Held(store), k, y) BY <1>1, <1>2, <1>6, <2>3, <2>5, <2>6, StoreOf
  <2>9. Promise!MoveLast(c)
    BY <1>7, <1>8, <2>1, <2>4, <2>8, ContentsAre, SameConstants, SameOperators DEF Promise!MoveLast
  <2> QED BY <2>7, <2>9
<1>9. CASE n # 0
  <2> DEFINE last == Held(store)[n]
             rest == SubSeq(Held(store), 1, n - 1)
  <2>1. last \in Values
    <3>1. n \in 1 .. n /\ Held(store) \in Seq(Values) BY <1>1, <1>2, <1>9, StoreIs
    <3> QED BY <1>1, <3>1, ElementOfSeq
  <2>2. Promise!Between(0, n - 1) = rest
    <3>1. 0 \in Int /\ n - 1 \in Int /\ 0 + 1 = 1 BY <1>1
    <3> QED BY <3>1, BetweenIs
  <2>3. y = Unboxed(kind, last) /\ Held(q) = rest BY <1>3, <1>9
  <2> HIDE DEF p, q, y, k, last, rest
  <2>4. CASE y = TypeError
    <3>1. store' = q /\ answer' = TypeError BY <1>2, <1>4, <2>4 DEF q, y
    <3>2. Promise!MoveLast(c)
      <4>1. Promise!Unboxed(kind, Contents[Promise!Size]) = Promise!TypeError
        BY <1>7, <2>3, <2>4, ContentsAre, SameConstants, SameOperators DEF last
      <4>2. Contents' = Promise!Between(0, Promise!Size - 1) BY <1>7, <2>2, <2>3, <3>1, ContentsAre
      <4> QED BY <1>7, <1>9, <3>1, <4>1, <4>2, SameConstants DEF Promise!MoveLast
    <3> QED BY <1>5, <3>1, <3>2 DEF StoreKept
  <2>5. CASE y # TypeError
    <3>1. y \in Values /\ (kind = "C" => last[1] \in {"object", "null", "undefined"})
      BY <1>2, <2>1, <2>3, <2>5, UnboxedIs
    <3>2. store' = r.store /\ answer' = r.answer BY <1>2, <1>4, <2>5
    <3>3. StoreKept BY <1>2, <1>5, <1>6, <3>1, <3>2, SetIs DEF StoreKept
    <3>4. ASSUME kind \notin NumericVectors PROVE Promise!Store(rest, N(n), last)
      <4>1. k = N(n) BY <3>4 DEF k
      <4>2. CASE kind = "Array"
        <5>1. y = last BY <1>2, <2>1, <2>3, <4>2, UnboxedIs
        <5> QED BY <1>2, <1>5, <1>6, <2>3, <3>1, <3>2, <4>1, <4>2, <5>1, StoreOf
      <4>3. CASE kind = "C"
        <5>1. IsNumber(k) /\ k[2] = n BY <1>1, <4>1, PositionNumber
        <5>2. q.len = n - 1 BY <1>3, <1>9 DEF q
        <5>3. ~UpTo(k, q.len)
          <6>1. ~(n <= n - 1) BY <1>1
          <6> QED BY <5>1, <5>2, <6>1 DEF UpTo
        <5>4. r = Result(q, RangeError)
          BY <1>2, <1>5, <1>6, <3>1, <4>3, <5>3, SetIs DEF Vectors
        <5>5. Held(store') = rest /\ answer' = RangeError BY <2>3, <3>2, <5>4 DEF Result
        <5>6. Promise!IsVector BY <4>3, SameConstants DEF Promise!IsVector, Vectors
        <5>7. Len(rest) = n - 1
          <6>1. Len(Held(q)) = q.len BY <1>5, StoreIs
          <6> QED BY <2>3, <5>2, <6>1
        <5>8. ~(Promise!IsIndex(k) /\ k[2] <= Len(rest))
          <6>1. ~(n <= n - 1) BY <1>1
          <6> QED BY <5>1, <5>7, <6>1
        <5> QED BY <3>1, <4>1, <5>5, <5>6, <5>8, ContentsAre, SameConstants DEF Promise!Store
      <4> QED BY <1>2, <3>4, <4>2, <4>3 DEF Vectors
    <3>5. kind \notin NumericVectors => Promise!MoveLast(c)
      <4>1. Promise!Unboxed(kind, Contents[Promise!Size]) # Promise!TypeError
        BY <1>7, <2>3, <2>5, ContentsAre, SameConstants, SameOperators DEF last
      <4>2. Contents[Promise!Size] = last /\ Promise!Between(0, Promise!Size - 1) = rest
        BY <1>7, <2>2, ContentsAre DEF last
      <4> QED BY <1>7, <1>9, <3>4, <4>1, <4>2, SameConstants DEF Promise!MoveLast
    <3> QED BY <3>3, <3>5
  <2> QED BY <2>4, <2>5
<1> QED BY <1>8, <1>9

-----------------------------------------------------------------------------
(* Every call. *)

(* The names of the calls.                                                 *)
LEMMA CallNames ==
  ASSUME NEW c, Answering(c)
  PROVE  /\ c.name \in {"push", "unshift", "pop", "shift", "slice", "splice", "indexOf", "concat", "reverse",
                        "sort", "length", "setLength", "moveLast", "get", "set", "has", "delete"}
         /\ store.kind = "Object" => c.path = "boxed" /\ c.name \in {"get", "set", "has", "delete"}
<1>1. CASE c.path = "boxed"
  <2>1. c.name \in BoxedCalls(store.kind) BY <1>1, Dispatch
  <2> QED BY <1>1, <2>1 DEF BoxedCalls, Unary
<1>2. CASE c.path = "typed"
  <2>1. c.name \in TypedCalls /\ store.kind # "Object" BY <1>2, Dispatch
  <2> QED BY <2>1 DEF TypedCalls
<1> QED BY <1>1, <1>2 DEF Answering, IsCall

(* A call of an array that no borrow would stop.                           *)
Lends(c) ==
  ~(c.name \in Mutators /\ IF c.name = "set" THEN ~IsNegative(any_to_number(c.args[1])) ELSE c.path = "typed")

(* A call keeps a receiver a receiver of its kind; a call that takes       *)
(* nothing away leaves at least as many elements, under the same keys,     *)
(* unless it ends the program; one that an array's borrow allows leaves    *)
(* the array; and it has the effect that is promised of it, or departs.    *)
LEMMA CallKeeps ==
  ASSUME NEW c, Answering(c)
  PROVE  /\ StoreKept
         /\ c.name \notin Removers /\ answer' # Abort =>
              /\ store'.len >= store.len
              /\ store.kind = "Object" => \A i \in 1 .. store.len : store'.cells[i][1] = store.cells[i][1]
         /\ store.kind = "Array" /\ Lends(c) => Same
         /\ Departs(c) \/ Promise!Answered(c)
<1> DEFINE Grows == /\ store'.len >= store.len
                    /\ store.kind = "Object" => \A i \in 1 .. store.len : store'.cells[i][1] = store.cells[i][1]
<1>1. IsStore(store) /\ store.len \in 0 .. MaxLength BY StoreIs DEF Answering
<1>2. Same => StoreKept /\ Grows
  <2>1. store.len >= store.len BY <1>1
  <2> QED BY <1>1, <2>1 DEF Same, StoreKept
<1>3. CASE store.kind = "Object"
  <2>1. c.name \in {"get", "set", "has", "delete"} BY <1>3, CallNames
  <2>2. CASE c.name = "get" BY <1>2, <1>3, <2>2, GetKeeps DEF Promise!Answered
  <2>3. CASE c.name = "set" BY <1>3, <2>3, SetKeeps DEF Promise!Answered
  <2>4. CASE c.name = "has" BY <1>2, <1>3, <2>4, HasKeeps DEF Promise!Answered
  <2>5. CASE c.name = "delete" BY <1>3, <2>5, DeleteKeeps DEF Promise!Answered, Removers
  <2> QED BY <2>1, <2>2, <2>3, <2>4, <2>5
<1>4. CASE store.kind # "Object"
  <2>1. CASE c.name = "push" BY <1>4, <2>1, OnlyTyped, PushKeeps DEF Promise!Answered, Lends, Mutators, SequenceCalls
  <2>2. CASE c.name = "unshift" BY <1>4, <2>2, OnlyTyped, UnshiftKeeps DEF Promise!Answered, Lends, Mutators, SequenceCalls, Removers
  <2>3. CASE c.name = "pop" BY <1>4, <2>3, OnlyTyped, PopKeeps DEF Promise!Answered, Lends, Mutators, SequenceCalls, Removers
  <2>4. CASE c.name = "shift" BY <1>4, <2>4, OnlyTyped, ShiftKeeps DEF Promise!Answered, Lends, Mutators, SequenceCalls, Removers
  <2>5. CASE c.name = "slice" BY <1>2, <1>4, <2>5, SliceKeeps DEF Promise!Answered
  <2>6. CASE c.name = "splice"
    <3> DEFINE s == norm_index(c.args[1], store.len)
               w == usize(c.args[2])
    <3>1. s + w <= UsizeMax \/ s + w > UsizeMax
      <4>1. c.args[1] \in Values /\ c.args[2] \in Values BY <2>6, ArgumentsAre DEF Answering, IsCall
      <4>2. s \in Int /\ w \in Int /\ UsizeMax \in Int BY <1>1, <4>1, NormIndex, UsizeIs, CollectionsAssumption
      <4> HIDE DEF s, w
      <4> QED BY <4>2
    <3>2. Departs(c) \/ Promise!Splice(c) BY <2>6, <3>1, SpliceKeeps DEF Departs
    <3> QED BY <1>4, <2>6, <3>2, OnlyTyped, SpliceKeeps DEF Promise!Answered, Lends, Mutators, SequenceCalls, Removers
  <2>7. CASE c.name = "indexOf" BY <1>2, <1>4, <2>7, IndexOfKeeps DEF Promise!Answered
  <2>8. CASE c.name = "concat" BY <1>2, <1>4, <2>8, ConcatKeeps DEF Promise!Answered
  <2>9. CASE c.name = "reverse" BY <1>4, <2>9, OnlyTyped, ReverseKeeps DEF Promise!Answered, Lends, Mutators, SequenceCalls, Removers
  <2>10. CASE c.name = "sort"
    <3>1. Departs(c) \/ Promise!Sort(c) BY <2>10, SortKeeps DEF Departs
    <3> QED BY <1>4, <2>10, <3>1, OnlyTyped, SortKeeps DEF Promise!Answered, Lends, Mutators, SequenceCalls, Removers
  <2>11. CASE c.name = "length" BY <1>2, <1>4, <2>11, LengthKeeps DEF Promise!Answered
  <2>12. CASE c.name = "setLength"
    <3>1. c.path \in {"typed", "boxed"} BY DEF Answering, IsCall
    <3> QED BY <1>4, <2>12, <3>1, SetLengthKeeps DEF Promise!Answered, Lends, Mutators, Removers
  <2>13. CASE c.name = "moveLast"
    <3>1. c.path = "typed" BY <2>13 DEF Answering, IsCall, BoxedCalls, Unary
    <3>2. Departs(c) \/ Promise!MoveLast(c) BY <2>13, MoveLastKeeps DEF Departs
    <3> QED BY <1>4, <2>13, <3>1, <3>2, MoveLastKeeps DEF Promise!Answered, Lends, Mutators, Removers
  <2>14. CASE c.name = "get"
    <3>1. c.path \in {"typed", "boxed"} BY DEF Answering, IsCall
    <3>2. Departs(c) \/ Promise!Get(c) BY <1>4, <2>14, <3>1, GetKeeps DEF Departs, KeyOf
    <3> QED BY <1>2, <1>4, <2>14, <3>2, GetKeeps DEF Promise!Answered
  <2>15. CASE c.name = "set"
    <3>1. Departs(c) \/ Promise!Set(c)
      <4>1. CASE SetHolds(c) BY <1>4, <2>15, <4>1, SetKeeps
      <4>2. CASE ~SetHolds(c) BY <1>4, <2>15, <4>2 DEF SetHolds, Departs, KeyOf
      <4> QED BY <4>1, <4>2
    <3> QED BY <1>4, <2>15, <3>1, SetKeeps DEF Promise!Answered, Lends, Mutators
  <2>16. CASE c.name = "has" BY <1>2, <1>4, <2>16, HasKeeps DEF Promise!Answered
  <2>17. CASE c.name = "delete" BY <1>2, <1>4, <2>17, DeleteKeeps DEF Promise!Answered, Removers
  <2> QED BY <1>4, <2>1, <2>2, <2>3, <2>4, <2>5, <2>6, <2>7, <2>8, <2>9, <2>10, <2>11, <2>12, <2>13, <2>14,
             <2>15, <2>16, <2>17, CallNames
<1> QED BY <1>3, <1>4


-----------------------------------------------------------------------------
(* The invariant. *)

(* The receiver is well formed, of a kind the program uses.                *)
StoreInv == IsStore(store) /\ store.len <= MaxLength /\ store.kind \in Receivers

(* Between two calls there is no answer left.                              *)
CallInv == call = Rest => answer = Nothing

(* The keys of the first positions.                                        *)
Visited(s, m) == [i \in 1 .. m |-> vs_enum_key2(s, i - 1)]

(* What a loop has visited, as far as it has come.                         *)
LoopInv ==
  /\ loop \in [at : {"none", "test", "body", "done"}, idx : Nat, seen : Seq(Values), moved : BOOLEAN]
  /\ Running /\ ~loop.moved =>
       /\ loop.at = "body" => loop.idx < store.len /\ loop.seen = Visited(store, loop.idx + 1)
       /\ loop.at = "test" => loop.idx <= store.len /\ loop.seen = Visited(store, loop.idx)
       /\ loop.at = "done" => loop.seen = Visited(store, store.len)

(* What an iteration has made of the elements it has passed; those it is   *)
(* of are the elements there were when it began, and while a join holds an *)
(* array borrowed, those there are.                                        *)
Marks == {"boolean"} \X BOOLEAN
Passed(f) == {i \in 1 .. Len(f.replies) : f.replies[i]}
IsFrame(f) ==
  f \in [mode : Promise!Iterations, items : Seq(Values), pos : Nat,
         out : Seq(Values \cup {Nothing} \cup Marks), start : Seq(Values), replies : Seq(BOOLEAN)]
Made(f) ==
  LET done == Len(f.replies) IN
  /\ f.mode = "join"    => f.out = [i \in 1 .. done |-> JoinText(f.start[i])]
  /\ f.mode = "map"     => f.out = [i \in 1 .. done |-> Bool(f.replies[i])]
  /\ f.mode = "filter"  => /\ Len(f.out) = Cardinality(Passed(f))
                           /\ \A i \in Passed(f) :
                                f.out[Cardinality({j \in Passed(f) : j <= i})] = f.start[i]
  /\ f.mode = "some"    => ((f.out # <<>>) <=> (Passed(f) # {}))
  /\ f.mode = "every"   => ((f.out # <<>>) <=> (Passed(f) # 1 .. done))
  /\ f.mode = "forEach" => f.out = <<>>
Counted(f) ==
  /\ f.items = f.start
  /\ f.mode # "none" /\ f.pos < Len(f.items) => Len(f.replies) = f.pos
  /\ f.mode \notin {"none", "some", "every"} => f.pos <= Len(f.items) /\ Len(f.replies) = f.pos
FrameInv ==
  /\ IsFrame(frame) /\ Counted(frame)
  /\ frame.mode # "none" => store.kind # "Object" /\ Made(frame)
  /\ Joining /\ store.kind = "Array" => Contents = frame.start

Inv == StoreInv /\ CallInv /\ LoopInv /\ FrameInv

(* Keys are values, and those of the positions there are stay theirs.      *)
LEMMA VisitedIs ==
  ASSUME NEW s, IsStore(s), NEW m \in 0 .. s.len
  PROVE  /\ Visited(s, m) \in Seq(Values) /\ Len(Visited(s, m)) = m
         /\ m < s.len => /\ vs_enum_key2(s, m) \in Values
                         /\ Visited(s, m + 1) = Append(Visited(s, m), vs_enum_key2(s, m))
<1> DEFINE key(i) == vs_enum_key2(s, i - 1)
           n == s.len
<1>1. n \in Nat /\ m \in Nat /\ m <= n BY StoreIs
<1>2. \A i \in 1 .. n : key(i) \in Values
  <2> SUFFICES ASSUME NEW i \in 1 .. n PROVE key(i) \in Values OBVIOUS
  <2>1. i - 1 \in Nat /\ i - 1 < n /\ (i - 1) + 1 = i BY <1>1
  <2>2. CASE s.kind = "Object"
    <3>1. IsObject(s) BY <2>2, StoreIs
    <3>2. s.cells[i][1] \in Values BY <3>1, ObjectIs
    <3>3. key(i) = s.cells[i][1]
      <4>1. prop_key_at(s, i - 1) = s.cells[(i - 1) + 1][1] BY <2>1 DEF prop_key_at
      <4> QED BY <2>1, <2>2, <4>1 DEF vs_enum_key2
    <3> QED BY <3>2, <3>3
  <2>3. CASE s.kind # "Object"
    <3>1. key(i) = N(i - 1) BY <2>3 DEF vs_enum_key2
    <3> QED BY <2>1, <3>1 DEF N, Values
  <2> QED BY <2>2, <2>3
<1>3. Visited(s, m) = [i \in 1 .. m |-> key(i)] BY DEF Visited
<1> HIDE DEF key, n
<1>4. \A i \in 1 .. m : key(i) \in Values BY <1>1, <1>2
<1>5. Visited(s, m) \in Seq(Values) /\ Len(Visited(s, m)) = m BY <1>1, <1>3, <1>4
<1>6. ASSUME m < n
      PROVE  key(m + 1) \in Values /\ Visited(s, m + 1) = Append(Visited(s, m), key(m + 1))
  <2> DEFINE v == Visited(s, m)
             w == Visited(s, m + 1)
             x == key(m + 1)
             a == Append(v, x)
  <2>1. m + 1 \in 1 .. n BY <1>1, <1>6
  <2>2. x \in Values BY <1>2, <2>1
  <2>3. w = [i \in 1 .. m + 1 |-> key(i)] BY DEF Visited, key
  <2>4. \A i \in 1 .. m : v[i] = key(i) BY <1>3
  <2>5. v \in Seq(Values) /\ Len(v) = m BY <1>5
  <2> HIDE DEF v, x, w
  <2>6. a \in Seq(Values) /\ Len(a) = m + 1 /\ a[m + 1] = x /\ \A i \in 1 .. m : a[i] = v[i] BY <2>2, <2>5
  <2> HIDE DEF a
  <2>7. a = [i \in 1 .. m + 1 |-> a[i]] BY <1>1, <2>6
  <2>8. \A i \in 1 .. m + 1 : a[i] = key(i)
    <3> SUFFICES ASSUME NEW i \in 1 .. m + 1 PROVE a[i] = key(i) OBVIOUS
    <3>1. i \in 1 .. m \/ i = m + 1 BY <1>1
    <3> QED BY <2>4, <2>6, <3>1 DEF x
  <2> QED BY <2>2, <2>3, <2>7, <2>8 DEF v, w, x, a
<1>7. key(m + 1) = vs_enum_key2(s, m)
  <2>1. (m + 1) - 1 = m BY <1>1
  <2> QED BY <2>1 DEF key
<1> QED BY <1>5, <1>6, <1>7 DEF n

(* A receiver with more elements, the old ones under their keys, has the   *)
(* same first keys.                                                        *)
LEMMA VisitedKept ==
  ASSUME NEW s, IsStore(s), NEW t, IsStore(t), t.kind = s.kind, t.len >= s.len,
         s.kind = "Object" => \A i \in 1 .. s.len : t.cells[i][1] = s.cells[i][1],
         NEW m \in 0 .. s.len
  PROVE  Visited(t, m) = Visited(s, m)
<1>1. s.len \in Nat /\ t.len \in Nat BY StoreIs
<1>2. \A i \in 1 .. m : vs_enum_key2(t, i - 1) = vs_enum_key2(s, i - 1)
  <2> SUFFICES ASSUME NEW i \in 1 .. m PROVE vs_enum_key2(t, i - 1) = vs_enum_key2(s, i - 1) OBVIOUS
  <2>1. i \in 1 .. s.len /\ i - 1 < s.len /\ i - 1 < t.len /\ (i - 1) + 1 = i BY <1>1
  <2>2. CASE s.kind = "Object"
    <3>1. prop_key_at(t, i - 1) = t.cells[(i - 1) + 1][1] /\ prop_key_at(s, i - 1) = s.cells[(i - 1) + 1][1]
      BY <2>1 DEF prop_key_at
    <3>2. prop_key_at(t, i - 1) = t.cells[i][1] /\ prop_key_at(s, i - 1) = s.cells[i][1] BY <2>1, <3>1
    <3> QED BY <2>1, <2>2, <3>2 DEF vs_enum_key2
  <2>3. CASE s.kind # "Object" BY <2>3 DEF vs_enum_key2
  <2> QED BY <2>2, <2>3
<1> QED BY <1>2 DEF Visited


-----------------------------------------------------------------------------
(* Iterations. *)

(* A position among those that pass, counted from the first.               *)
PlaceOf(P, i) == Cardinality({j \in P : j <= i})

(* What passes, in its order.                                              *)
Filtered(P, out, start) == /\ Len(out) = Cardinality(P)
                           /\ \A i \in P : out[PlaceOf(P, i)] = start[i]

(* One more that passes goes to the end, and the others stay in place.     *)
LEMMA FilterGrows ==
  ASSUME NEW d \in Nat, NEW P \in SUBSET (1 .. d), NEW S, NEW out \in Seq(S), NEW start,
         Filtered(P, out, start), NEW x \in S, x = start[d + 1]
  PROVE  Filtered(P \cup {d + 1}, Append(out, x), start)
<1> DEFINE Q == P \cup {d + 1}
           o == Append(out, x)
           n == Len(out)
<1>0. Len(out) = Cardinality(P) /\ \A i \in P : out[PlaceOf(P, i)] = start[i] BY DEF Filtered
<1>1. IsFiniteSet(1 .. d)
  <2>1. 1 \in Int /\ d \in Int OBVIOUS
  <2> QED BY <2>1, FS_Interval
<1>2. IsFiniteSet(P) BY <1>1, FS_Subset
<1>3. Cardinality(P) = n /\ n \in Nat BY <1>0
<1>4. d + 1 \notin P /\ \A i \in P : i \in Int /\ i < d + 1 OBVIOUS
<1>5. Cardinality(Q) = n + 1 BY <1>2, <1>3, <1>4, FS_AddElement
<1>6. Len(o) = n + 1 /\ o[n + 1] = x /\ \A i \in 1 .. n : o[i] = out[i] OBVIOUS
<1>7. ASSUME NEW i \in P PROVE o[PlaceOf(Q, i)] = start[i]
  <2> DEFINE A == {j \in P : j <= i}
             p == PlaceOf(P, i)
  <2>1. {j \in Q : j <= i} = A
    <3>1. ~(d + 1 <= i) BY <1>4
    <3> QED BY <3>1
  <2>2. PlaceOf(Q, i) = p BY <2>1 DEF PlaceOf
  <2>3. IsFiniteSet(A) /\ Cardinality(A) <= Cardinality(P)
    <3>1. A \in SUBSET P OBVIOUS
    <3> HIDE DEF A
    <3> QED BY <1>2, <3>1, FS_Subset
  <2>4. Cardinality(A) \in Nat /\ Cardinality(A) # 0
    <3>1. i \in A BY <1>4
    <3> HIDE DEF A
    <3>2. A # {} BY <3>1
    <3> QED BY <2>3, <3>2, FS_CardinalityType, FS_EmptySet
  <2>5. p = Cardinality(A) BY DEF PlaceOf
  <2> HIDE DEF A, p, o, n
  <2>6. p \in 1 .. n BY <1>3, <2>3, <2>4, <2>5
  <2>7. out[p] = start[i] BY <1>0 DEF p
  <2> QED BY <1>6, <2>2, <2>6, <2>7
<1>8. o[PlaceOf(Q, d + 1)] = start[d + 1]
  <2>1. {j \in Q : j <= d + 1} = Q
    <3>1. \A j \in Q : j <= d + 1 BY <1>4
    <3> HIDE DEF Q
    <3> QED BY <3>1
  <2>2. PlaceOf(Q, d + 1) = n + 1 BY <1>5, <2>1 DEF PlaceOf
  <2> QED BY <1>6, <2>2
<1> QED BY <1>5, <1>6, <1>7, <1>8 DEF Filtered

(* What passes of one reply more.                                          *)
LEMMA PassedGrows ==
  ASSUME NEW replies \in Seq(BOOLEAN), NEW b \in BOOLEAN
  PROVE  LET d == Len(replies)
             h == Append(replies, b)
             P == {i \in 1 .. d : replies[i]} IN
         /\ h \in Seq(BOOLEAN) /\ Len(h) = d + 1 /\ d \in Nat
         /\ h[d + 1] = b /\ \A i \in 1 .. d : h[i] = replies[i]
         /\ {i \in 1 .. d + 1 : h[i]} = IF b THEN P \cup {d + 1} ELSE P
         /\ P \in SUBSET (1 .. d)
<1> DEFINE d == Len(replies)
           h == Append(replies, b)
           P == {i \in 1 .. d : replies[i]}
           Q == {i \in 1 .. d + 1 : h[i]}
<1>1. /\ h \in Seq(BOOLEAN) /\ Len(h) = d + 1 /\ d \in Nat
      /\ h[d + 1] = b /\ \A i \in 1 .. d : h[i] = replies[i]
  OBVIOUS
<1> HIDE DEF d, h
<1>2. \A i : i \in 1 .. d + 1 <=> i \in 1 .. d \/ i = d + 1 BY <1>1
<1>3. \A i : i \in Q <=> i \in P \/ (i = d + 1 /\ b)
  <2> SUFFICES ASSUME NEW i PROVE i \in Q <=> i \in P \/ (i = d + 1 /\ b) OBVIOUS
  <2>1. CASE i \in 1 .. d
    <3>1. i # d + 1 BY <1>1, <2>1
    <3> QED BY <1>1, <1>2, <2>1, <3>1
  <2>2. CASE i = d + 1
    <3>1. i \notin 1 .. d BY <1>1, <2>2
    <3>2. i \notin P BY <3>1
    <3>3. i \in Q <=> b BY <1>1, <1>2, <2>2
    <3> QED BY <2>2, <3>2, <3>3
  <2>3. CASE i \notin 1 .. d + 1 BY <1>2, <2>3
  <2> QED BY <1>2, <2>1, <2>2, <2>3
<1>4. Q = IF b THEN P \cup {d + 1} ELSE P
  <2> HIDE DEF Q, P
  <2> QED BY <1>3
<1> QED BY <1>1, <1>4 DEF d, h

(* A sequence, one longer.                                                 *)
LEMMA OneMore ==
  ASSUME NEW S, NEW d \in Nat, NEW s \in Seq(S), NEW t, NEW x \in S, x = t[d + 1],
         s = [i \in 1 .. d |-> t[i]], t = [i \in 1 .. d + 1 |-> t[i]]
  PROVE  Append(s, x) = t
<1> DEFINE a == Append(s, x)
<1>1. Len(s) = d OBVIOUS
<1>2. a \in Seq(S) /\ Len(a) = d + 1 /\ a[d + 1] = x /\ \A i \in 1 .. d : a[i] = s[i] BY <1>1
<1> HIDE DEF a
<1>3. a = [i \in 1 .. d + 1 |-> a[i]] BY <1>2
<1>4. \A i \in 1 .. d + 1 : a[i] = t[i]
  <2> SUFFICES ASSUME NEW i \in 1 .. d + 1 PROVE a[i] = t[i] OBVIOUS
  <2>1. i \in 1 .. d \/ i = d + 1 OBVIOUS
  <2> QED BY <1>2, <2>1
<1> QED BY <1>3, <1>4 DEF a

(* A step of an iteration.                                                 *)
Step(f, reply, current) ==
  [f EXCEPT !.pos = IF <<f.mode, reply>> \in {<<"some", TRUE>>, <<"every", FALSE>>}
                    THEN Len(f.items) ELSE @ + 1,
            !.replies = Append(@, reply),
            !.out = CASE f.mode = "join" -> Append(@, JoinText(current))
                      [] f.mode = "map" -> Append(@, Bool(reply))
                      [] f.mode = "filter" /\ reply -> Append(@, current)
                      [] f.mode = "some" /\ reply -> <<Bool(TRUE)>>
                      [] f.mode = "every" /\ ~reply -> <<Bool(FALSE)>>
                      [] OTHER -> @]

(* It makes of the next element what the iteration promises, and passes it. *)
LEMMA StepMakes ==
  ASSUME NEW f, IsFrame(f), Counted(f), f.mode # "none", Made(f), f.pos < Len(f.items),
         NEW reply \in BOOLEAN, f.mode = "join" => reply = TRUE,
         NEW current, current = f.start[f.pos + 1]
  PROVE  LET g == Step(f, reply, current) IN
         /\ IsFrame(g) /\ Counted(g) /\ Made(g)
         /\ g.mode = f.mode /\ g.start = f.start
<1> DEFINE Marked == Values \cup {Nothing} \cup Marks
           d == f.pos
           n == Len(f.items)
           h == Append(f.replies, reply)
           stops == <<f.mode, reply>> \in {<<"some", TRUE>>, <<"every", FALSE>>}
           pos == IF stops THEN n ELSE d + 1
           out == CASE f.mode = "join" -> Append(f.out, JoinText(current))
                    [] f.mode = "map" -> Append(f.out, Bool(reply))
                    [] f.mode = "filter" /\ reply -> Append(f.out, current)
                    [] f.mode = "some" /\ reply -> <<Bool(TRUE)>>
                    [] f.mode = "every" /\ ~reply -> <<Bool(FALSE)>>
                    [] OTHER -> f.out
           g == Step(f, reply, current)
<1>1. /\ f.mode \in {"join", "forEach", "map", "filter", "some", "every"}
      /\ f.items \in Seq(Values) /\ f.start = f.items /\ f.out \in Seq(Marked) /\ f.replies \in Seq(BOOLEAN)
      /\ d \in Nat /\ n \in Nat /\ d < n /\ Len(f.replies) = d
  BY DEF IsFrame, Counted, Promise!Iterations
<1>2. /\ h \in Seq(BOOLEAN) /\ Len(h) = d + 1
      /\ h[d + 1] = reply /\ \A i \in 1 .. d : h[i] = f.replies[i]
      /\ {i \in 1 .. d + 1 : h[i]} = IF reply THEN Passed(f) \cup {d + 1} ELSE Passed(f)
      /\ Passed(f) \in SUBSET (1 .. d)
  <2> DEFINE rs == f.replies
             m == Len(rs)
             P == {i \in 1 .. m : rs[i]}
             a == Append(rs, reply)
  <2>1. rs \in Seq(BOOLEAN) /\ m = d BY <1>1
  <2>2. Passed(f) = P /\ h = a BY DEF Passed
  <2> HIDE DEF rs
  <2>3. /\ a \in Seq(BOOLEAN) /\ Len(a) = m + 1
        /\ a[m + 1] = reply /\ \A i \in 1 .. m : a[i] = rs[i]
        /\ {i \in 1 .. m + 1 : a[i]} = IF reply THEN P \cup {m + 1} ELSE P
        /\ P \in SUBSET (1 .. m)
    BY <2>1, PassedGrows
  <2> HIDE DEF a, m, P, h, d
  <2> QED BY <2>1, <2>2, <2>3 DEF rs
<1>3. current \in Values /\ current \in Marked /\ JoinText(current) \in Marked
  <2>1. d + 1 \in 1 .. n BY <1>1
  <2>2. current \in Values BY <1>1, <2>1, ElementOfSeq
  <2> QED BY <2>2 DEF JoinText
<1>4. \A b \in BOOLEAN : Bool(b) \in Marked BY DEF Bool, Marks
<1>5. /\ f.mode = "join" => out = Append(f.out, JoinText(current))
      /\ f.mode = "map" => out = Append(f.out, Bool(reply))
      /\ f.mode = "filter" => out = IF reply THEN Append(f.out, current) ELSE f.out
      /\ f.mode = "some" => out = IF reply THEN <<Bool(TRUE)>> ELSE f.out
      /\ f.mode = "every" => out = IF reply THEN f.out ELSE <<Bool(FALSE)>>
      /\ f.mode = "forEach" => out = f.out
  OBVIOUS
<1>6. stops <=> (f.mode = "some" /\ reply) \/ (f.mode = "every" /\ ~reply) OBVIOUS
<1>7. /\ g = [mode |-> f.mode, items |-> f.items, pos |-> pos, out |-> out, start |-> f.start, replies |-> h]
      /\ g.mode = f.mode /\ g.items = f.items /\ g.pos = pos /\ g.out = out /\ g.start = f.start /\ g.replies = h
  <2>1. g = [f EXCEPT !.pos = pos, !.replies = h, !.out = out] BY DEF Step
  <2> HIDE DEF g, pos, h, out
  <2> QED BY <2>1 DEF IsFrame
<1> HIDE DEF g, pos, h, out, stops
<1>8. out \in Seq(Marked)
  <2> DEFINE yes == Bool(TRUE)
             no == Bool(FALSE)
             mark == Bool(reply)
             text == JoinText(current)
  <2>1. yes \in Marked /\ no \in Marked /\ mark \in Marked /\ text \in Marked BY <1>3, <1>4
  <2>2. \/ out \in {Append(f.out, text), Append(f.out, mark), Append(f.out, current), f.out}
        \/ out = <<yes>> \/ out = <<no>>
    <3> HIDE DEF yes, no, mark, text
    <3> QED BY <1>1, <1>5 DEF yes, no, mark, text
  <2> HIDE DEF Marked, yes, no, mark, text
  <2>3. \A x \in Marked : Append(f.out, x) \in Seq(Marked) /\ <<x>> \in Seq(Marked) BY <1>1
  <2> QED BY <1>1, <1>3, <2>1, <2>2, <2>3
<1>9. pos \in Nat /\ pos <= n /\ (~stops => pos = d + 1) /\ (stops => pos = n) BY <1>1 DEF pos
<1>10. IsFrame(g)
  <2> HIDE DEF Marked
  <2> QED BY <1>1, <1>2, <1>7, <1>8, <1>9 DEF IsFrame, Promise!Iterations, Marked
<1>11. Counted(g)
  <2> HIDE DEF d, n
  <2>1. pos < n => Len(h) = pos BY <1>1, <1>2, <1>9
  <2>2. f.mode \notin {"none", "some", "every"} => Len(h) = pos BY <1>2, <1>6, <1>9
  <2> QED BY <1>1, <1>7, <1>9, <2>1, <2>2 DEF Counted, n
<1>12. Passed(g) = IF reply THEN Passed(f) \cup {d + 1} ELSE Passed(f) BY <1>2, <1>7 DEF Passed
<1>13. Made(g)
  <2>1. CASE f.mode = "join"
    <3> DEFINE t == [i \in 1 .. d + 1 |-> JoinText(f.start[i])]
    <3>1. f.out = [i \in 1 .. d |-> JoinText(f.start[i])] BY <1>1, <2>1 DEF Made
    <3>2. out = t
      <4> DEFINE s == f.out
                 x == JoinText(current)
      <4>1. s \in Seq(Marked) /\ x \in Marked /\ out = Append(s, x) BY <1>1, <1>3, <1>5, <2>1
      <4>2. x = t[d + 1] /\ s = [i \in 1 .. d |-> t[i]] /\ t = [i \in 1 .. d + 1 |-> t[i]] BY <1>1, <3>1
      <4> HIDE DEF s, x, t, Marked, d
      <4> QED BY <1>1, <4>1, <4>2, OneMore
    <3> QED BY <1>2, <1>7, <2>1, <3>2 DEF Made
  <2>2. CASE f.mode = "map"
    <3> DEFINE t == [i \in 1 .. d + 1 |-> Bool(h[i])]
    <3>1. f.out = [i \in 1 .. d |-> Bool(f.replies[i])] BY <1>1, <2>2 DEF Made
    <3>2. out = t
      <4> DEFINE s == f.out
                 x == Bool(reply)
      <4>1. s \in Seq(Marked) /\ x \in Marked /\ out = Append(s, x) BY <1>1, <1>4, <1>5, <2>2
      <4>2. x = t[d + 1] /\ s = [i \in 1 .. d |-> t[i]] /\ t = [i \in 1 .. d + 1 |-> t[i]]
        <5>1. d + 1 \in 1 .. d + 1 /\ \A i \in 1 .. d : i \in 1 .. d + 1 BY <1>1
        <5>2. h[d + 1] = reply /\ \A i \in 1 .. d : h[i] = f.replies[i] BY <1>2
        <5> HIDE DEF d
        <5>3. t[d + 1] = x BY <5>1, <5>2
        <5>4. \A i \in 1 .. d : t[i] = Bool(f.replies[i]) BY <5>1, <5>2
        <5>5. t = [i \in 1 .. d + 1 |-> t[i]] OBVIOUS
        <5> HIDE DEF t, x
        <5> QED BY <3>1, <5>3, <5>4, <5>5
      <4> HIDE DEF s, x, t, Marked, d
      <4> QED BY <1>1, <4>1, <4>2, OneMore
    <3> QED BY <1>2, <1>7, <2>2, <3>2 DEF Made
  <2>3. CASE f.mode = "filter"
    <3>1. Filtered(Passed(f), f.out, f.start) BY <2>3 DEF Made, Filtered, PlaceOf
    <3>2. Filtered(Passed(g), out, f.start)
      <4>1. CASE reply
        <5> DEFINE P == Passed(f)
                   s == f.out
                   first == f.start
        <5>1. P \in SUBSET (1 .. d) /\ Passed(g) = P \cup {d + 1} BY <1>2, <1>12, <4>1
        <5>2. out = Append(s, current) BY <1>5, <2>3, <4>1
        <5>3. s \in Seq(Marked) /\ Filtered(P, s, first) /\ current = first[d + 1] /\ d \in Nat BY <1>1, <3>1
        <5> DEFINE Q == P \cup {d + 1}
                   more == Append(s, current)
        <5>4. Filtered(Q, more, first)
          <6> HIDE DEF P, d, Marked, s, first
          <6> QED BY <1>3, <5>1, <5>3, FilterGrows
        <5>5. Q = Passed(g) /\ more = out BY <5>1, <5>2
        <5> HIDE DEF Q, more
        <5>6. Filtered(Passed(g), out, first) BY <5>4, <5>5
        <5> QED BY <5>6
      <4>2. CASE ~reply BY <1>5, <1>12, <2>3, <3>1, <4>2
      <4> QED BY <4>1, <4>2
    <3> QED BY <1>7, <2>3, <3>2 DEF Made, Filtered, PlaceOf
  <2>4. CASE f.mode = "some"
    <3>1. f.out # <<>> <=> Passed(f) # {} BY <2>4 DEF Made
    <3>2. out # <<>> <=> Passed(g) # {}
      <4> DEFINE yes == Bool(TRUE)
      <4>1. CASE reply
        <5>1. out = <<yes>> BY <1>5, <2>4, <4>1
        <5>2. Passed(g) # {} BY <1>12, <4>1
        <5> HIDE DEF yes
        <5>3. Len(<<yes>>) = 1 OBVIOUS
        <5> QED BY <5>1, <5>2, <5>3
      <4>2. CASE ~reply BY <1>5, <1>12, <2>4, <3>1, <4>2
      <4> QED BY <4>1, <4>2
    <3> QED BY <1>7, <2>4, <3>2 DEF Made
  <2>5. CASE f.mode = "every"
    <3>1. f.out # <<>> <=> Passed(f) # 1 .. d BY <1>1, <2>5 DEF Made
    <3>2. 1 .. d + 1 = (1 .. d) \cup {d + 1} /\ d + 1 \notin 1 .. d BY <1>1
    <3>3. out # <<>> <=> Passed(g) # 1 .. d + 1
      <4> HIDE DEF d
      <4>1. CASE reply
        <5>1. Passed(f) = 1 .. d <=> Passed(f) \cup {d + 1} = (1 .. d) \cup {d + 1} BY <1>2, <3>2
        <5>2. out = f.out /\ Passed(g) = Passed(f) \cup {d + 1} BY <1>5, <1>12, <2>5, <4>1
        <5> QED BY <3>1, <3>2, <5>1, <5>2
      <4>2. CASE ~reply
        <5> DEFINE no == Bool(FALSE)
        <5>1. out = <<no>> BY <1>5, <2>5, <4>2
        <5>2. Passed(g) # 1 .. d + 1
          <6>1. Passed(g) = Passed(f) BY <1>12, <4>2
          <6> QED BY <1>2, <3>2, <6>1
        <5> HIDE DEF no
        <5>3. Len(<<no>>) = 1 OBVIOUS
        <5> QED BY <5>1, <5>2, <5>3
      <4> QED BY <4>1, <4>2
    <3> QED BY <1>2, <1>7, <2>5, <3>3 DEF Made
  <2>6. CASE f.mode = "forEach" BY <1>5, <1>7, <2>6 DEF Made
  <2> QED BY <1>1, <2>1, <2>2, <2>3, <2>4, <2>5, <2>6
<1> QED BY <1>7, <1>10, <1>11, <1>13 DEF g


-----------------------------------------------------------------------------
(* Steps. *)

(* What a call of the program leaves.                                      *)
Grows ==
  /\ store'.len >= store.len
  /\ store.kind = "Object" => \A i \in 1 .. store.len : store'.cells[i][1] = store.cells[i][1]

(* The calls are those the checker lets through.                           *)
LEMMA CallStep ==
  ASSUME StoreInv, Call
  PROVE  /\ call' # Rest /\ StoreInv' /\ store'.kind = store.kind
         /\ call'.name \notin Removers /\ answer' # Abort => Grows
         /\ Joining /\ store.kind = "Array" => Same
         /\ Departs(call') \/ Promise!Answered(call')
<1>1. PICK c \in Calls(store.kind) \cup Inside(store.kind) :
        /\ \E r \in Outcomes(store, c) :
             /\ r.store.len <= MaxLength
             /\ IF Borrowed(c) THEN store' = store /\ answer' = Abort
                ELSE store' = r.store /\ answer' = r.answer
        /\ call' = c
  BY DEF Call
<1>2. IsCall(store.kind, c) BY ProgramAssumption DEF StoreInv
<1>3. call' # Rest
  <2>1. c.name # "none"
    BY <1>2 DEF IsCall, BoxedCalls, TypedCalls, Unary
  <2>2. Rest.name = "none" BY DEF Rest, Make
  <2> QED BY <1>1, <2>1, <2>2
<1>4. CASE Borrowed(c)
  <2>1. store' = store /\ answer' = Abort BY <1>1, <1>4
  <2>2. Departs(call') BY <1>1, <1>4 DEF Departs
  <2>3. StoreInv' BY <2>1 DEF StoreInv
  <2> QED BY <1>3, <2>1, <2>2, <2>3 DEF Same
<1>5. CASE ~Borrowed(c)
  <2>1. PICK r \in Outcomes(store, c) : r.store.len <= MaxLength /\ store' = r.store /\ answer' = r.answer
    BY <1>1, <1>5
  <2>2. Answering(c) BY <1>2, <2>1 DEF Answering, StoreInv
  <2>3. /\ StoreKept
        /\ c.name \notin Removers /\ answer' # Abort => Grows
        /\ store.kind = "Array" /\ Lends(c) => Same
        /\ Departs(c) \/ Promise!Answered(c)
    BY <2>2, CallKeeps DEF Grows
  <2>4. StoreInv' BY <2>1, <2>3 DEF StoreInv, StoreKept
  <2>5. Joining /\ store.kind = "Array" => Lends(c) BY <1>5 DEF Borrowed, Lends
  <2> QED BY <1>1, <1>3, <2>3, <2>4, <2>5 DEF StoreKept
<1> QED BY <1>4, <1>5

(* The start of a program.                                                 *)
LEMMA InitHolds == Init => Inv
<1> SUFFICES ASSUME Init PROVE Inv OBVIOUS
<1>1. PICK kind \in Receivers : \E xs \in Literals(kind) :
         store = CASE kind = "Array"  -> new_array(xs)
                   [] kind = "Object" -> [kind |-> kind, cells |-> xs, len |-> Len(xs)]
                   [] OTHER           -> new_vector(kind, xs)
  BY DEF Init
<1>2. PICK xs \in Literals(kind) :
         store = CASE kind = "Array"  -> new_array(xs)
                   [] kind = "Object" -> [kind |-> kind, cells |-> xs, len |-> Len(xs)]
                   [] OTHER           -> new_vector(kind, xs)
  BY <1>1
<1>3. IsLiteral(kind, xs) BY ProgramAssumption
<1>4. StoreInv
  <2>0. Len(xs) <= MaxLength BY <1>3 DEF IsLiteral
  <2>1. CASE kind = "Array"
    <3>1. xs \in Seq(Values) BY <1>3, <2>1 DEF IsLiteral
    <3>2. store = new_array(xs) BY <1>2, <2>1
    <3> QED BY <2>0, <2>1, <3>1, <3>2, NewArray DEF StoreInv, IsStore
  <2>2. CASE kind = "Object"
    <3>1. /\ xs \in Seq(Values \X Values)
          /\ \A i, j \in DOMAIN xs : xs[i][1] = xs[j][1] => i = j
      BY <1>3, <2>2 DEF IsLiteral
    <3>2. store = [kind |-> "Object", cells |-> xs, len |-> Len(xs)] BY <1>2, <2>2
    <3>3. DOMAIN xs = 1 .. Len(xs) /\ Len(xs) \in Nat BY <3>1
    <3>4. IsObject(store) BY <3>1, <3>2, <3>3 DEF IsObject
    <3> QED BY <2>0, <2>2, <3>2, <3>4 DEF StoreInv, IsStore
  <2>3. CASE kind \notin {"Array", "Object"}
    <3>1. kind \in Vectors BY <2>3, CollectionsAssumption DEF Kinds
    <3>2. xs \in Seq(Values) BY <1>3, <2>3 DEF IsLiteral
    <3>3. store = new_vector(kind, xs) BY <1>2, <2>3
    <3> QED BY <2>0, <3>1, <3>2, <3>3, NewVector DEF StoreInv, IsStore
  <2> QED BY <2>1, <2>2, <2>3
<1>5. CallInv BY DEF Init, CallInv
<1>6. LoopInv BY DEF Init, LoopInv, NoLoop
<1>7. FrameInv BY DEF Init, FrameInv, NoFrame, IsFrame, Counted, Joining, Promise!Iterations
<1> QED BY <1>4, <1>5, <1>6, <1>7 DEF Inv


(* A call leaves the loop and the iteration it is made in as they must be. *)
LEMMA CallHolds == ASSUME Inv, Call PROVE Inv'
<1>1. /\ call' # Rest /\ StoreInv' /\ store'.kind = store.kind
      /\ call'.name \notin Removers /\ answer' # Abort => Grows
      /\ Joining /\ store.kind = "Array" => Same
  BY CallStep DEF Inv
<1>2. call = Rest /\ loop.at \in {"none", "body"} /\ frame' = frame
      /\ loop' = IF loop.at = "body" /\ call'.name \in Removers
                 THEN [loop EXCEPT !.moved = TRUE, !.seen = <<>>] ELSE loop
  BY DEF Call, InProgram
<1>3. CallInv' BY <1>1 DEF CallInv
<1>4. LoopInv'
  <2>1. loop \in [at : {"none", "test", "body", "done"}, idx : Nat, seen : Seq(Values), moved : BOOLEAN]
    BY DEF Inv, LoopInv
  <2>2. CASE loop.at = "body" /\ call'.name \in Removers
    <3>1. loop' = [loop EXCEPT !.moved = TRUE, !.seen = <<>>] BY <1>2, <2>2
    <3>2. <<>> \in Seq(Values) OBVIOUS
    <3> QED BY <2>1, <3>1, <3>2 DEF LoopInv
  <2>3. CASE ~(loop.at = "body" /\ call'.name \in Removers)
    <3>1. loop' = loop BY <1>2, <2>3
    <3>2. CASE loop.at = "none" BY <2>1, <3>1, <3>2 DEF LoopInv
    <3>3. CASE loop.at = "body"
      <4> SUFFICES ASSUME Running', ~loop.moved
                   PROVE  loop.idx < store'.len /\ loop.seen = Visited(store', loop.idx + 1)
        BY <2>1, <3>1, <3>3 DEF LoopInv
      <4>1. answer' # Abort BY DEF Running, Abort
      <4>2. Grows BY <1>1, <2>3, <3>3, <4>1
      <4>3. Running BY <1>2 DEF Inv, CallInv, Running, Nothing
      <4>4. loop.idx < store.len /\ loop.seen = Visited(store, loop.idx + 1) /\ loop.idx \in Nat
        BY <3>3, <4>3 DEF Inv, LoopInv
      <4>5. store.len \in Nat /\ store'.len \in Nat /\ store'.len >= store.len /\ IsStore(store) /\ IsStore(store')
        BY <1>1, <4>2, StoreIs DEF Inv, StoreInv, Grows
      <4>6. loop.idx + 1 \in 0 .. store.len BY <4>4, <4>5
      <4>7. Visited(store', loop.idx + 1) = Visited(store, loop.idx + 1)
        BY <1>1, <4>2, <4>5, <4>6, VisitedKept DEF Grows
      <4> QED BY <4>4, <4>5, <4>7
    <3> QED BY <1>2, <3>2, <3>3
  <2> QED BY <2>2, <2>3
<1>5. FrameInv'
  <2>1. FrameInv BY DEF Inv
  <2>2. IsFrame(frame') /\ Counted(frame') BY <1>2, <2>1 DEF FrameInv
  <2>3. frame'.mode # "none" => store'.kind # "Object" /\ Made(frame') BY <1>1, <1>2, <2>1 DEF FrameInv
  <2>4. Joining' /\ store'.kind = "Array" => Contents' = frame'.start
    <3> SUFFICES ASSUME Joining', store'.kind = "Array" PROVE Contents' = frame'.start OBVIOUS
    <3>1. Joining /\ store.kind = "Array" BY <1>1, <1>2 DEF Joining
    <3>2. Contents = frame.start BY <2>1, <3>1 DEF FrameInv
    <3>3. Contents' = Contents BY <1>1, <3>1 DEF Same, Contents
    <3> QED BY <1>2, <3>2, <3>3
  <2> QED BY <2>2, <2>3, <2>4 DEF FrameInv
<1> QED BY <1>1, <1>3, <1>4, <1>5 DEF Inv

(* The loop's own steps.                                                   *)
LEMMA LoopHolds ==
  ASSUME Inv, LoopStep, ForInBegin \/ ForInTest \/ ForInContinue \/ ForInBreak \/ ForInExit
  PROVE  Inv'
<1>1. call = Rest /\ frame.mode = "none" /\ store' = store /\ call' = call /\ answer' = answer /\ frame' = frame
  BY DEF LoopStep
<1>2. /\ StoreInv /\ CallInv /\ FrameInv
      /\ loop \in [at : {"none", "test", "body", "done"}, idx : Nat, seen : Seq(Values), moved : BOOLEAN]
      /\ IsStore(store) /\ store.len \in Nat
  BY StoreIs DEF Inv, LoopInv, StoreInv
<1>3. Running BY <1>1, <1>2 DEF CallInv, Running, Nothing
<1>4. StoreInv' /\ CallInv' /\ FrameInv'
  BY <1>1, <1>2 DEF StoreInv, CallInv, FrameInv, Joining, Contents
<1>5. ~loop.moved =>
        /\ loop.at = "body" => loop.idx < store.len /\ loop.seen = Visited(store, loop.idx + 1)
        /\ loop.at = "test" => loop.idx <= store.len /\ loop.seen = Visited(store, loop.idx)
        /\ loop.at = "done" => loop.seen = Visited(store, store.len)
  BY <1>3 DEF Inv, LoopInv
<1>6. NoLoop.idx = 0 /\ NoLoop.seen = <<>> BY DEF NoLoop
<1>7. LoopInv'
  <2>1. CASE ForInBegin
    <3>1. loop' = [at |-> "test", idx |-> 0, seen |-> <<>>, moved |-> FALSE] BY <2>1 DEF ForInBegin, NoLoop
    <3>2. Visited(store, 0) = <<>> /\ 0 \in 0 .. store.len
      <4>1. Visited(store, 0) \in Seq(Values) /\ Len(Visited(store, 0)) = 0 BY <1>2, VisitedIs
      <4> QED BY <1>2, <4>1
    <3> QED BY <1>1, <1>2, <3>1, <3>2 DEF LoopInv
  <2>2. CASE ForInTest
    <3>1. loop.at = "test" BY <2>2 DEF ForInTest
    <3>2. CASE HasNext(store, loop.idx)
      <4> DEFINE key == vs_enum_key2(store, loop.idx)
                 seen == IF loop.moved THEN loop.seen ELSE Append(loop.seen, key)
      <4>1. loop.idx < store.len /\ loop.idx \in 0 .. store.len BY <1>2, <3>2 DEF HasNext, vs_enum_len2
      <4>2. key \in Values /\ Visited(store, loop.idx + 1) = Append(Visited(store, loop.idx), key)
        BY <1>2, <4>1, VisitedIs
      <4>3. loop' = [loop EXCEPT !.at = "body", !.seen = seen] BY <2>2, <3>2 DEF ForInTest
      <4> HIDE DEF key
      <4>4. seen \in Seq(Values) BY <1>2, <4>2
      <4>5. ~loop.moved => seen = Visited(store, loop.idx + 1) BY <1>5, <3>1, <4>2
      <4> HIDE DEF seen
      <4> QED BY <1>1, <1>2, <4>1, <4>3, <4>4, <4>5 DEF LoopInv
    <3>3. CASE ~HasNext(store, loop.idx)
      <4>1. ~(loop.idx < store.len) BY <3>3 DEF HasNext, vs_enum_len2
      <4>2. loop' = [loop EXCEPT !.at = "done"] BY <2>2, <3>3 DEF ForInTest
      <4>3. ~loop.moved => loop.seen = Visited(store, store.len)
        <5>1. ~loop.moved => loop.idx = store.len BY <1>2, <1>5, <3>1, <4>1
        <5> QED BY <1>5, <3>1, <5>1
      <4> QED BY <1>1, <1>2, <4>2, <4>3 DEF LoopInv
    <3> QED BY <3>2, <3>3
  <2>3. CASE ForInContinue
    <3>1. loop.at = "body" /\ loop' = [loop EXCEPT !.at = "test", !.idx = @ + 1]
      BY <2>3 DEF ForInContinue, AfterBody
    <3> DEFINE next == loop.idx + 1
    <3>2. next \in Nat /\ (~loop.moved => next <= store.len) BY <1>2, <1>5, <3>1
    <3>3. loop' = [loop EXCEPT !.at = "test", !.idx = next] BY <3>1
    <3>4. ~loop.moved => loop.seen = Visited(store, next) BY <1>5, <3>1
    <3> HIDE DEF next
    <3> QED BY <1>1, <1>2, <3>2, <3>3, <3>4 DEF LoopInv
  <2>4. CASE ForInBreak \/ ForInExit
    <3>1. loop' = [at |-> "none", idx |-> 0, seen |-> <<>>, moved |-> FALSE]
      BY <2>4 DEF ForInBreak, ForInExit, NoLoop
    <3> QED BY <3>1 DEF LoopInv
  <2> QED BY <2>1, <2>2, <2>3, <2>4
<1> QED BY <1>4, <1>7 DEF Inv


(* The iterations' own steps, and the end of a call.                       *)
LEMMA FrameHolds ==
  ASSUME Inv, AfterCall \/ IterationBegin \/ IterationStep \/ IterationEnd
  PROVE  Inv'
<1>1. StoreInv /\ CallInv /\ LoopInv /\ FrameInv BY DEF Inv
<1>2. store' = store /\ loop' = loop
  BY DEF AfterCall, IterationBegin, IterationStep, IterationEnd, FrameStep
<1>3. StoreInv' BY <1>1, <1>2 DEF StoreInv
<1>4. Contents' = Contents BY <1>2 DEF Contents
<1>5. CASE AfterCall
  <2>1. Running /\ answer' = Nothing /\ call' = Rest /\ frame' = frame BY <1>5 DEF AfterCall
  <2>2. CallInv' BY <2>1 DEF CallInv
  <2>3. LoopInv' BY <1>1, <1>2, <2>1 DEF LoopInv
  <2>4. FrameInv' BY <1>1, <1>2, <1>4, <2>1 DEF FrameInv, Joining
  <2> QED BY <1>3, <2>2, <2>3, <2>4 DEF Inv
<1>6. CASE ~AfterCall
  <2>1. call = Rest /\ loop.at = "none"
    BY <1>6 DEF IterationBegin, IterationStep, IterationEnd, FrameStep
  <2>2. LoopInv'
    <3>1. loop \in [at : {"none", "test", "body", "done"}, idx : Nat, seen : Seq(Values), moved : BOOLEAN]
      BY <1>1 DEF LoopInv
    <3> QED BY <1>2, <2>1, <3>1 DEF LoopInv
  <2>3. CASE IterationBegin
    <3>1. PICK mode \in {"join"} \cup (IF store.kind = "Array" THEN Callbacks ELSE {}) :
            frame' = [NoFrame EXCEPT !.mode = mode, !.items = Contents, !.start = Contents]
      BY <2>3 DEF IterationBegin
    <3>2. call' = call /\ answer' = answer /\ store.kind # "Object" BY <2>3 DEF IterationBegin
    <3>3. /\ mode \in Promise!Iterations /\ mode # "none"
          /\ frame' = [mode |-> mode, items |-> Contents, pos |-> 0, out |-> <<>>,
                       start |-> Contents, replies |-> <<>>]
      BY <3>1 DEF NoFrame, Callbacks, Promise!Iterations
    <3>4. Contents \in Seq(Values) BY <1>1, <3>2, StoreIs, ContentsAre DEF StoreInv
    <3>5. IsFrame(frame') /\ Counted(frame')
      <4>1. Len(Contents) \in Nat /\ Len(<<>>) = 0 BY <3>4
      <4> QED BY <3>3, <3>4, <4>1 DEF IsFrame, Counted
    <3>6. Made(frame')
      <4>1. frame'.replies = <<>> /\ frame'.out = <<>> BY <3>3
      <4>2. Passed(frame') = {} /\ 1 .. Len(frame'.replies) = {} /\ Len(frame'.out) = 0 BY <4>1 DEF Passed
      <4>3. Cardinality({}) = 0 BY FS_EmptySet
      <4>4. \A F : [i \in {} |-> F[i]] = <<>> OBVIOUS
      <4>5. /\ [i \in 1 .. Len(frame'.replies) |-> JoinText(frame'.start[i])] = <<>>
            /\ [i \in 1 .. Len(frame'.replies) |-> Bool(frame'.replies[i])] = <<>>
        BY <4>2
      <4> QED BY <4>1, <4>2, <4>3, <4>5 DEF Made
    <3>7. CallInv' BY <1>1, <3>2 DEF CallInv
    <3>8. FrameInv' BY <1>2, <1>4, <3>2, <3>3, <3>5, <3>6 DEF FrameInv
    <3> QED BY <1>3, <2>2, <3>7, <3>8 DEF Inv
  <2>4. CASE IterationStep
    <3>1. PICK reply \in BOOLEAN : (Joining => reply = TRUE) /\ frame' = Step(frame, reply, Current)
      BY <2>4 DEF IterationStep, Step, Joining
    <3>2. call' = call /\ answer' = answer /\ frame.mode # "none" /\ frame.pos < Len(frame.items)
      BY <2>4 DEF IterationStep
    <3>3. Current = frame.start[frame.pos + 1] BY <1>1 DEF Current, FrameInv, Counted
    <3>4. frame.mode = "join" => reply = TRUE BY <3>1 DEF Joining
    <3>5. /\ IsFrame(frame') /\ Counted(frame') /\ Made(frame')
          /\ frame'.mode = frame.mode /\ frame'.start = frame.start
      <4> DEFINE f == frame
                 current == Current
                 g == Step(f, reply, current)
      <4>1. IsFrame(f) /\ Counted(f) /\ f.mode # "none" /\ Made(f) /\ f.pos < Len(f.items)
        BY <1>1, <3>2 DEF FrameInv
      <4>2. current = f.start[f.pos + 1] /\ (f.mode = "join" => reply = TRUE) BY <3>3, <3>4
      <4> HIDE DEF f, current
      <4>3. IsFrame(g) /\ Counted(g) /\ Made(g) /\ g.mode = f.mode /\ g.start = f.start BY <4>1, <4>2, StepMakes
      <4>4. frame' = g BY <3>1 DEF f, current
      <4> QED BY <4>3, <4>4 DEF f
    <3>6. CallInv' BY <1>1, <3>2 DEF CallInv
    <3>7. FrameInv' BY <1>1, <1>2, <1>4, <3>2, <3>5 DEF FrameInv, Joining
    <3> QED BY <1>3, <2>2, <3>6, <3>7 DEF Inv
  <2>5. CASE IterationEnd
    <3>1. /\ frame.mode # "none" /\ call' = Make(frame.mode, "typed", <<>>)
          /\ frame' = NoFrame
      BY <2>5 DEF IterationEnd
    <3>2. call' # Rest BY <3>1 DEF Rest, Make
    <3>3. CallInv' BY <3>2 DEF CallInv
    <3>4. FrameInv' BY <3>1 DEF FrameInv, NoFrame, IsFrame, Counted, Joining, Promise!Iterations
    <3> QED BY <1>3, <2>2, <3>3, <3>4 DEF Inv
  <2> QED BY <1>6, <2>3, <2>4, <2>5
<1> QED BY <1>5, <1>6

(* Every step keeps the invariant.                                         *)
LEMMA NextKeeps == Inv /\ [Next]_vars => Inv'
<1> SUFFICES ASSUME Inv, [Next]_vars PROVE Inv' OBVIOUS
<1>1. CASE Call BY <1>1, CallHolds
<1>2. CASE ForInBegin \/ ForInTest \/ ForInContinue \/ ForInBreak \/ ForInExit
  <2>1. LoopStep BY <1>2 DEF ForInBegin, ForInTest, ForInContinue, ForInBreak, ForInExit
  <2> QED BY <1>2, <2>1, LoopHolds
<1>3. CASE AfterCall \/ IterationBegin \/ IterationStep \/ IterationEnd BY <1>3, FrameHolds
<1>4. CASE UNCHANGED vars
  BY <1>4 DEF vars, Inv, StoreInv, CallInv, LoopInv, FrameInv, Running, Joining, Contents
<1> QED BY <1>1, <1>2, <1>3, <1>4 DEF Next

(* In every program the receiver is well formed, a for..in loop has        *)
(* visited the keys up to its position, and an iteration has made of the   *)
(* elements that were there when it began what it promises.                *)
THEOREM CollectionsInvariant == Spec => []Inv
BY InitHolds, NextKeeps, PTL DEF Spec


-----------------------------------------------------------------------------
(* What the invariant says of the runtime. *)

(* An element has one value, however it is reached: a read in line, one    *)
(* through the typed entry point and one of a "*" receiver agree, and so   *)
(* do the writes (inline_get, vs_vec_get, vs_any_index_get and their       *)
(* stores).                                                                *)
THEOREM EveryPathAgrees == Spec => []PathsAgree
<1>1. Inv => PathsAgree
  <2> SUFFICES ASSUME StoreInv, store.kind # "Object",
                      NEW k \in {N(i) : i \in -1 .. MaxLength + 1} \cup {Infinity}
               PROVE  LET boxed == vs_any_index_get(store, k)
                      IN  /\ SeqGet(store, k) = IF boxed = RangeError THEN boxed ELSE Unboxed(store.kind, boxed)
                          /\ \A i \in 1 .. store.len :
                               LET x == store.cells[i]
                               IN  SeqSet(store, k, x) = vs_any_index_set(store, k, x)
    BY DEF Inv, PathsAgree
  <2>1. /\ IsStore(store) /\ store.len <= MaxLength /\ store.kind \in Vectors \cup {"Array"}
        /\ store.len \in Nat /\ MaxLength \in Nat /\ Len(Held(store)) = store.len
        /\ Held(store) \in Seq(Values)
        /\ \A i \in 1 .. store.len : store.cells[i] \in Values
    BY StoreIs, CollectionsAssumption DEF StoreInv, Kinds
  <2>2. k \in Numeric /\ k # NaN /\ k \in Values /\ any_to_number(k) = k
    <3>1. CASE k = Infinity
      <4>1. k \in Numeric /\ k # NaN BY <3>1 DEF Numeric, Infinity, NaN
      <4> QED BY <4>1, NumericCases
    <3>2. CASE k \in {N(i) : i \in -1 .. MaxLength + 1}
      <4>1. PICK i \in -1 .. MaxLength + 1 : k = N(i) BY <3>2
      <4>2. i \in Int BY <2>1
      <4>3. k \in Numeric /\ k # NaN BY <4>1, <4>2 DEF Numeric, N, NaN
      <4> QED BY <4>3, NumericCases
    <3> QED BY <3>1, <3>2
  <2> DEFINE boxed == vs_any_index_get(store, k)
             held == Held(store)
  <2>3. boxed = IF Below(k, store.len) THEN held[k[2] + 1]
                ELSE IF store.kind = "Array" THEN Undefined ELSE RangeError
    BY <2>1, <2>2, BoxedGet
  <2>4. SeqGet(store, k) = IF Below(k, store.len) THEN Unboxed(store.kind, held[k[2] + 1])
                           ELSE IF store.kind = "Array" THEN Undefined ELSE RangeError
    BY <2>1, <2>2, TypedGet
  <2>5. SeqGet(store, k) = IF boxed = RangeError THEN boxed ELSE Unboxed(store.kind, boxed)
    <3> HIDE DEF boxed, held
    <3>1. CASE Below(k, store.len)
      <4>1. k[2] + 1 \in 1 .. store.len BY <2>1, <2>2, <3>1, NumericCases DEF Below, IsNumber
      <4>2. held[k[2] + 1] \in Values BY <2>1, <4>1 DEF held
      <4>3. held[k[2] + 1] # RangeError BY <4>2 DEF Values, RangeError, NaN, Infinity, Undefined, Null
      <4> QED BY <2>3, <2>4, <3>1, <4>3
    <3>2. CASE ~Below(k, store.len) /\ store.kind = "Array"
      <4>1. Undefined # RangeError BY DEF Undefined, RangeError
      <4>2. Unboxed("Array", Undefined) = Undefined
        <5>1. Undefined \in Values BY DEF Values
        <5> QED BY <5>1, UnboxedIs
      <4> QED BY <2>3, <2>4, <3>2, <4>1, <4>2
    <3>3. CASE ~Below(k, store.len) /\ store.kind # "Array" BY <2>3, <2>4, <3>3
    <3> QED BY <3>1, <3>2, <3>3
  <2>6. ASSUME NEW i \in 1 .. store.len
        PROVE  SeqSet(store, k, store.cells[i]) = vs_any_index_set(store, k, store.cells[i])
    <3> DEFINE x == store.cells[i]
    <3>1. x \in Values BY <2>1
    <3> HIDE DEF x
    <3>2. SeqSet(store, k, x) = vs_any_index_set(store, k, x) BY <2>1, <2>2, <3>1, SetIs
    <3> QED BY <3>2 DEF x
  <2> QED BY <2>5, <2>6
<1> QED BY <1>1, CollectionsInvariant, PTL

(* A for..in loop whose body takes nothing away visits every key once, in  *)
(* order, those it adds too (lower_for_in, vs_enum_len2, vs_enum_key2).    *)
THEOREM LoopVisitsEveryKey == Spec => []LoopVisitsKeys
<1>1. Inv => LoopVisitsKeys
  <2> SUFFICES ASSUME Inv, Running, ~loop.moved
               PROVE  CASE loop.at = "body" -> loop.seen = SubSeq(EnumeratedKeys, 1, loop.idx + 1)
                        [] loop.at = "test" -> loop.seen = SubSeq(EnumeratedKeys, 1, loop.idx)
                        [] loop.at = "done" -> loop.seen = EnumeratedKeys
                        [] OTHER            -> TRUE
    BY DEF LoopVisitsKeys
  <2> DEFINE keys == EnumeratedKeys
             n == store.len
  <2>1. n \in Nat BY StoreIs DEF Inv, StoreInv
  <2>2. keys = Visited(store, n) BY DEF EnumeratedKeys, Visited
  <2>3. \A m \in 0 .. n : SubSeq(keys, 1, m) = Visited(store, m)
    <3> SUFFICES ASSUME NEW m \in 0 .. n PROVE SubSeq(keys, 1, m) = Visited(store, m) OBVIOUS
    <3>1. keys \in Seq(Values) /\ Len(keys) = n /\ \A i \in 1 .. n : keys[i] = vs_enum_key2(store, i - 1)
      <4>1. n \in 0 .. n BY <2>1
      <4>2. keys \in Seq(Values) /\ Len(keys) = n BY <2>2, <4>1, VisitedIs DEF Inv, StoreInv
      <4> QED BY <4>2 DEF EnumeratedKeys
    <3>2. Visited(store, m) = [i \in 1 .. m |-> vs_enum_key2(store, i - 1)] BY DEF Visited
    <3> DEFINE part == SubSeq(keys, 1, m)
    <3> HIDE DEF keys, n
    <3>3. part = [i \in 1 .. m |-> part[i]] /\ \A i \in 1 .. m : part[i] = keys[i] BY <2>1, <3>1
    <3> HIDE DEF part
    <3>4. \A i \in 1 .. m : part[i] = vs_enum_key2(store, i - 1) BY <2>1, <3>1, <3>3
    <3>5. part = Visited(store, m) BY <3>2, <3>3, <3>4
    <3> QED BY <3>5 DEF part
  <2>4. /\ loop.idx \in Nat
        /\ loop.at = "body" => loop.idx < n /\ loop.seen = Visited(store, loop.idx + 1)
        /\ loop.at = "test" => loop.idx <= n /\ loop.seen = Visited(store, loop.idx)
        /\ loop.at = "done" => loop.seen = Visited(store, n)
    BY DEF Inv, LoopInv
  <2> HIDE DEF keys, n
  <2>5. loop.at = "body" => loop.seen = SubSeq(keys, 1, loop.idx + 1)
    <3> SUFFICES ASSUME loop.at = "body" PROVE loop.seen = SubSeq(keys, 1, loop.idx + 1) OBVIOUS
    <3> DEFINE m == loop.idx + 1
    <3>1. m \in 0 .. n BY <2>1, <2>4
    <3> QED BY <2>3, <2>4, <3>1
  <2>6. loop.at = "test" => loop.seen = SubSeq(keys, 1, loop.idx)
    <3> SUFFICES ASSUME loop.at = "test" PROVE loop.seen = SubSeq(keys, 1, loop.idx) OBVIOUS
    <3>1. loop.idx \in 0 .. n BY <2>1, <2>4
    <3> QED BY <2>3, <2>4, <3>1
  <2> QED BY <2>2, <2>4, <2>5, <2>6 DEF keys
<1> QED BY <1>1, CollectionsInvariant, PTL

(* An iteration is of the elements there were when it began: join, map and *)
(* filter make of them, in order, what its callbacks have said so far, and *)
(* some and every stop with the reply that decides them, whatever the      *)
(* callbacks do to the receiver (vs_arr_map and the like work on a clone). *)
THEOREM IterationsAreOfSnapshots == Spec => []IterationIsOfSnapshot
<1>1. Inv => IterationIsOfSnapshot
  <2> SUFFICES ASSUME FrameInv, frame.mode # "none"
               PROVE  IterationIsOfSnapshot
    BY DEF Inv, IterationIsOfSnapshot
  <2> DEFINE done == Len(frame.replies)
             passed == {i \in 1 .. done : frame.replies[i]}
  <2>1. /\ frame.mode \in {"join", "forEach", "map", "filter", "some", "every"}
        /\ frame.items = frame.start /\ Made(frame) /\ Counted(frame) /\ frame.pos \in Nat
    BY DEF FrameInv, IsFrame, Counted, Promise!Iterations
  <2>2. Len(frame.items) \in Nat
    <3>1. frame.items \in Seq(Values) BY DEF FrameInv, IsFrame
    <3> QED BY <3>1
  <2>3. frame.pos < Len(frame.items) => done = frame.pos BY <2>1 DEF Counted
  <2>4. frame.pos >= Len(frame.items) /\ frame.mode \notin {"some", "every"} => done = Len(frame.start)
    BY <2>1, <2>2 DEF Counted
  <2>5. Passed(frame) = passed BY DEF Passed
  <2> HIDE DEF done, passed
  <2>6. /\ frame.mode = "join"    => frame.out = [i \in 1 .. done |-> JoinText(frame.start[i])]
        /\ frame.mode = "map"     => frame.out = [i \in 1 .. done |-> Bool(frame.replies[i])]
        /\ frame.mode = "filter"  => /\ Len(frame.out) = Cardinality(passed)
                                     /\ \A i \in passed :
                                          frame.out[Cardinality({j \in passed : j <= i})] = frame.start[i]
        /\ frame.mode = "some"    => ((frame.out # <<>>) = (passed # {}))
        /\ frame.mode = "every"   => ((frame.out # <<>>) = (passed # 1 .. done))
        /\ frame.mode = "forEach" => frame.out = <<>>
    <3>1. frame.mode = "filter" => /\ Len(frame.out) = Cardinality(passed)
                                   /\ \A i \in passed :
                                        frame.out[Cardinality({j \in passed : j <= i})] = frame.start[i]
      BY <2>1, <2>5 DEF Made
    <3>2. frame.mode = "some" => ((frame.out # <<>>) <=> (passed # {})) BY <2>1, <2>5 DEF Made
    <3>3. frame.mode = "every" => ((frame.out # <<>>) <=> (passed # 1 .. done)) BY <2>1, <2>5 DEF Made, done
    <3>4. /\ frame.mode = "join"    => frame.out = [i \in 1 .. done |-> JoinText(frame.start[i])]
          /\ frame.mode = "map"     => frame.out = [i \in 1 .. done |-> Bool(frame.replies[i])]
          /\ frame.mode = "forEach" => frame.out = <<>>
      BY <2>1 DEF Made, done
    <3> QED BY <3>1, <3>2, <3>3, <3>4
  <2> QED BY <2>1, <2>3, <2>4, <2>6 DEF IterationIsOfSnapshot, Joining, done, passed
<1> QED BY <1>1, CollectionsInvariant, PTL

(* Every call, by a typed or a boxed receiver and after whatever calls,    *)
(* has the effect and the answer that an ordinary sequence gives it, the   *)
(* named departures excepted; loops and iterations leave the receiver.     *)
THEOREM KeepsItsPromise == Spec => KeepsPromise
<1>1. Inv /\ [Next]_vars => [Promise!Next \/ Departs(call')]_<<store, call, answer>>
  <2> SUFFICES ASSUME Inv, [Next]_vars
               PROVE  \/ Promise!Next \/ Departs(call')
                      \/ UNCHANGED <<store, call, answer>>
    OBVIOUS
  <2>1. CASE Call
    <3>1. store'.kind = store.kind /\ (Departs(call') \/ Promise!Answered(call')) BY <2>1, CallStep DEF Inv
    <3> QED BY <3>1 DEF Promise!Next
  <2>2. CASE AfterCall
    <3>1. call' = Rest /\ store' = store BY <2>2 DEF AfterCall
    <3>2. call'.name \in Promise!Iterations /\ Contents' = Contents
      BY <3>1 DEF Rest, Make, Promise!Iterations, Contents
    <3> QED BY <3>1, <3>2 DEF Promise!Next
  <2>3. CASE ForInBegin \/ ForInTest \/ ForInContinue \/ ForInBreak \/ ForInExit
    BY <2>3 DEF ForInBegin, ForInTest, ForInContinue, ForInBreak, ForInExit, LoopStep
  <2>4. CASE IterationBegin \/ IterationStep
    BY <2>4 DEF IterationBegin, IterationStep, FrameStep
  <2>5. CASE IterationEnd
    <3>1. store' = store /\ call'.name = frame.mode BY <2>5 DEF IterationEnd, FrameStep, Make
    <3>2. frame.mode \in Promise!Iterations BY DEF Inv, FrameInv, IsFrame
    <3>3. Contents' = Contents BY <3>1 DEF Contents
    <3> QED BY <3>1, <3>2, <3>3 DEF Promise!Next
  <2>6. CASE UNCHANGED vars BY <2>6 DEF vars
  <2> QED BY <2>1, <2>2, <2>3, <2>4, <2>5, <2>6 DEF Next
<1> QED BY <1>1, CollectionsInvariant, PTL DEF Spec, KeepsPromise
=============================================================================
