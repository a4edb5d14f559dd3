---------------------------- MODULE TypingProofs ----------------------------
(***************************************************************************)
(* Type soundness of Typing: the machine code chosen from the static types *)
(* of a statement yields, for every word width and all values of the       *)
(* operands, a value of the type the checker gave it.                      *)
(***************************************************************************)
EXTENDS Typing, FiniteSetTheorems, SeqLemmas

-----------------------------------------------------------------------------
(* Machine integers. *)

(* A power of two is the number of the subsets of a set, and positive.     *)
LEMMA PowersArePositive ==
  ASSUME NEW n \in Nat
  PROVE  2 ^ n \in Nat \ {0}
<1>1. IsFiniteSet(1 .. n) /\ Cardinality(1 .. n) = n
  <2>1. Cardinality(1 .. n) = IF 1 > n THEN 0 ELSE n - 1 + 1 BY FS_Interval
  <2> QED BY <2>1, FS_Interval
<1>2. Cardinality(SUBSET (1 .. n)) = 2 ^ n /\ IsFiniteSet(SUBSET (1 .. n)) BY <1>1, FS_SUBSET
<1>3. Cardinality(SUBSET (1 .. n)) \in Nat BY <1>2, FS_CardinalityType
<1>4. SUBSET (1 .. n) # {} OBVIOUS
<1>5. Cardinality(SUBSET (1 .. n)) # 0 BY <1>2, <1>4, FS_EmptySet
<1> QED BY <1>2, <1>3, <1>5

(* The words: 2 * Half32 of them.                                          *)
LEMMA HalfIsPositive == Half32 \in Nat \ {0} /\ Range32 \in Nat \ {0} /\ Range32 = 2 * Half32
BY TypingAssumption, PowersArePositive, Width - 1 \in Nat DEF Half32, Range32

(* A residue is a word.                                                    *)
LEMMA ResiduesAreWords ==
  ASSUME NEW x \in Int
  PROVE  x % Range32 \in UInts
<1> DEFINE r == Range32
<1>1. r \in Nat \ {0} BY HalfIsPositive
<1>2. x % r \in 0 .. r - 1
  <2> HIDE DEF r
  <2> QED BY <1>1
<1> QED BY <1>2 DEF UInts

(* ToInt32 and ToUint32 are total.                                         *)
LEMMA ToInt32 ==
  ASSUME NEW x \in Numbers
  PROVE  to_int32(x) \in Ints /\ to_uint32(x) \in UInts
<1> DEFINE m == IF x[1] = "fin" THEN Trunc(x[2]) % Range32 ELSE 0
<1>1. m \in UInts
  <2>1. CASE x[1] = "fin"
    <3>1. x[2] \in Int BY <2>1 DEF Numbers, NaN, Inf
    <3>2. Trunc(x[2]) \in Int BY <3>1 DEF Trunc
    <3> QED BY <2>1, <3>2, ResiduesAreWords
  <2>2. CASE x[1] # "fin" BY <2>2, HalfIsPositive DEF UInts
  <2> QED BY <2>1, <2>2
<1>2. to_int32(x) = IF m >= Half32 THEN m - Range32 ELSE m BY DEF to_int32
<1>3. to_int32(x) \in Ints
  <2> HIDE DEF m
  <2> QED BY <1>1, <1>2, HalfIsPositive DEF UInts, Ints
<1>4. to_int32(x) \in Int BY <1>3, HalfIsPositive DEF Ints
<1> QED BY <1>3, <1>4, ResiduesAreWords DEF to_uint32

(* The fast path and the slow one give a word of the type.                 *)
LEMMA NumbersBecomeWords ==
  ASSUME NEW x \in Numbers
  PROVE  convert_num_to_int(x, "Int") \in Ints /\ convert_num_to_int(x, "UInt") \in UInts
<1>1. CASE x[1] = "fin"
  <2>1. x[2] \in Int BY <1>1 DEF Numbers, NaN, Inf
  <2> DEFINE h == x[2]
             half == Half32
  <2>2. half \in Nat \ {0} /\ Range32 = 2 * half BY HalfIsPositive
  <2>3. h > 2 * (-half - 1) /\ h < 2 * half => Trunc(h) \in -half .. half - 1
    <3> HIDE DEF half, h
    <3>1. h \in Int BY <2>1 DEF h
    <3> QED BY <2>2, <3>1 DEF Trunc
  <2>4. h > -2 /\ h < 2 * (2 * half) => Trunc(h) \in 0 .. 2 * half - 1
    <3> HIDE DEF half, h
    <3>1. h \in Int BY <2>1 DEF h
    <3> QED BY <2>2, <3>1 DEF Trunc
  <2> QED BY <1>1, <2>2, <2>3, <2>4, ToInt32 DEF convert_num_to_int, Ints, UInts
<1>2. CASE x[1] # "fin" BY <1>2, ToInt32 DEF convert_num_to_int
<1> QED BY <1>1, <1>2

(* An int or uint operation wraps around.                                  *)
LEMMA WrappedIsWord ==
  ASSUME NEW n \in Int
  PROVE  Wrapped("Int", n) \in Held("Int") /\ Wrapped("UInt", n) \in Held("UInt")
<1>1. Fin(2 * n) \in Numbers BY DEF Fin, Numbers
<1>2. to_int32(Fin(2 * n)) \in Ints BY <1>1, ToInt32
<1>3. n % Range32 \in UInts BY ResiduesAreWords
<1> QED BY <1>2, <1>3 DEF Wrapped, Held

(* Bits that are put together are a number.                                *)
LEMMA BitsAreNumber ==
  ASSUME NEW bit
  PROVE  FromBits(bit) \in Int
<1> DEFINE Z == Int
           w == Width
           part(i) == IF bit[i - 1] THEN 2 ^ (i - 1) ELSE 0
           Low(g) == [i \in 0 .. w |-> IF i = 0 THEN 0 ELSE g[i - 1] + part(i)]
           low == CHOOSE g : g = Low(g)
           add == [p \in Z \X (1 .. w) |-> p[1] + part(p[2])]
<1>1. FromBits(bit) = low[Width] BY DEF FromBits
<1>2. w \in Nat BY TypingAssumption
<1>3. \A i \in 1 .. w : part(i) \in Int
  <2> TAKE i \in 1 .. w
  <2>1. i - 1 \in Nat BY <1>2
  <2> QED BY <2>1, PowersArePositive
<1> HIDE DEF part, w
<1>4. add \in [Z \X (1 .. w) -> Z] BY <1>3
<1>5. PICK g : IsRun(g, w, Z, 0, add)
  <2>1. 0 \in Z OBVIOUS
  <2> HIDE DEF add, Z
  <2> QED BY <1>2, <1>4, <2>1, Recursion
<1>6. g \in [0 .. w -> Int] /\ g[0] = 0 /\ \A i \in 1 .. w : g[i] = add[<<g[i - 1], i>>]
  BY <1>5 DEF IsRun
<1>7. \A i \in 1 .. w : g[i] = g[i - 1] + part(i)
  <2> TAKE i \in 1 .. w
  <2>1. i - 1 \in 0 .. w BY <1>2
  <2>2. g[i - 1] \in Z BY <2>1, <1>6
  <2>3. add[<<g[i - 1], i>>] = g[i - 1] + part(i) BY <2>2
  <2> HIDE DEF add
  <2> QED BY <1>6, <2>3
<1>8. g = Low(g)
  <2>1. \A i \in 0 .. w : g[i] = IF i = 0 THEN 0 ELSE g[i - 1] + part(i) BY <1>2, <1>6, <1>7
  <2> QED BY <2>1, <1>6
<1>9. low = Low(low)
  <2> HIDE DEF Low
  <2> QED BY <1>8
<1> HIDE DEF low
<1>10. low[0] = 0 /\ \A i \in 0 .. w - 1 : low[i + 1] = low[i] + part(i + 1)
  <2>1. \A i \in 0 .. w : low[i] = IF i = 0 THEN 0 ELSE low[i - 1] + part(i) BY <1>9
  <2>2. 0 \in 0 .. w BY <1>2
  <2>3. \A i \in 0 .. w - 1 : i + 1 \in 0 .. w /\ i + 1 # 0 /\ i + 1 - 1 = i BY <1>2
  <2> QED BY <2>1, <2>2, <2>3
<1> DEFINE S == {i \in 0 .. w : low[i] \in Int}
<1>11. 0 .. w \subseteq S
  <2>1. 0 \in S BY <1>2, <1>10
  <2>2. \A i \in 0 .. w - 1 : i \in S => i + 1 \in S
    <3> SUFFICES ASSUME NEW i \in 0 .. w - 1, low[i] \in Int PROVE i + 1 \in S OBVIOUS
    <3>1. i + 1 \in 0 .. w /\ i + 1 \in 1 .. w BY <1>2
    <3>2. low[i + 1] \in Int BY <3>1, <1>3, <1>10
    <3> QED BY <3>1, <3>2
  <2> HIDE DEF S
  <2> QED BY <1>2, <2>1, <2>2, Induction
<1>12. w \in 0 .. w /\ w = Width BY <1>2 DEF w
<1> QED BY <1>1, <1>11, <1>12

(* The operators on bits give an int, the unsigned shift a uint.           *)
LEMMA BitsAreWords ==
  ASSUME NEW op \in Bitwise32 \cup {">>>"}, NEW a, NEW b, a[2] \in Int, b[2] \in Int
  PROVE  bit_op(op, a, b) \in Held(IF op = ">>>" THEN "UInt" ELSE "Int")
<1> DEFINE x == a[2] % Range32
           n == b[2] % Width
           Bit(m, i)  == (m \div 2 ^ i) % 2 = 1
           Both(f) == [i \in 0 .. Width - 1 |-> <<Bit(a[2], i), Bit(b[2], i)>> \in f]
<1>1. x \in Int BY ResiduesAreWords, HalfIsPositive DEF UInts
<1>2. n \in Nat
  <2> HIDE DEF n
  <2>1. n = b[2] % Width BY DEF n
  <2> QED BY <2>1, TypingAssumption
<1>3. 2 ^ n \in Nat \ {0}
  <2> HIDE DEF n
  <2> QED BY <1>2, PowersArePositive
<1> DEFINE p == 2 ^ n
<1>4. x * p \in Int /\ a[2] \div p \in Int /\ x \div p \in Int
  <2>1. p \in Nat \ {0} BY <1>3
  <2>2. \A m, q \in Int : q > 0 => m \div q \in Int OBVIOUS
  <2> HIDE DEF x, p
  <2> QED BY <1>1, <2>1, <2>2
<1> HIDE DEF x, p
<1>5. CASE op = "<<" BY <1>5, <1>4, WrappedIsWord DEF bit_op, x, n, p
<1>6. CASE op = ">>" BY <1>6, <1>4, WrappedIsWord DEF bit_op, x, n, p
<1>7. CASE op = ">>>" BY <1>7, <1>4, WrappedIsWord DEF bit_op, x, n, p
<1>8. ASSUME NEW f PROVE Wrapped("Int", FromBits(Both(f))) \in Held("Int")
  <2> HIDE DEF Both
  <2> QED BY BitsAreNumber, WrappedIsWord
<1>9. CASE op = "&"
  <2>1. bit_op(op, a, b) = Wrapped("Int", FromBits(Both({<<TRUE, TRUE>>}))) BY <1>9 DEF bit_op
  <2> QED BY <1>8, <1>9, <2>1
<1>10. CASE op = "|"
  <2>1. bit_op(op, a, b) = Wrapped("Int", FromBits(Both((BOOLEAN \X BOOLEAN) \ {<<FALSE, FALSE>>})))
    BY <1>10 DEF bit_op
  <2> QED BY <1>8, <1>10, <2>1
<1>11. CASE op = "^"
  <2>1. bit_op(op, a, b) = Wrapped("Int", FromBits(Both({<<TRUE, FALSE>>, <<FALSE, TRUE>>})))
    BY <1>11 DEF bit_op
  <2> QED BY <1>8, <1>11, <2>1
<1> QED BY <1>5, <1>6, <1>7, <1>9, <1>10, <1>11 DEF Bitwise32

-----------------------------------------------------------------------------
(* Boxed values and the values of machine shape. *)

References_ == {"Object", "Vector", "Array", "Function", "RegExp", "Date", "Socket", "Namespace"}

(* The objects of a type are boxed under its tag, and have a name.         *)
LEMMA ObjectsAreTagged ==
  ASSUME NEW t \in PointerTypes \ {"String"}, NEW b \in ObjectsOf(t)
  PROVE  /\ b \in References
         /\ b[1] = Tag(ShapeOf(t)) /\ b = Boxed(b[1], b[2]) /\ b[2] # Nil
         /\ b[2][1] = "ref" /\ b[2][2] \in Words
<1>1. PICK s \in DOMAIN Instances : /\ s = t \/ <<s, t>> \in Widens
                                    /\ b \in {Boxed(TagOf(s), Ref(id)) : id \in Instances[s]}
  BY DEF ObjectsOf
<1>2. PICK id \in Instances[s] : b = Boxed(TagOf(s), Ref(id)) BY <1>1
<1>3. id \in Words BY <1>2 DEF Instances, Words
<1>4. b \in ObjectsOf(s) BY <1>1, <1>2 DEF ObjectsOf
<1>5. TagOf(s) = Tag(ShapeOf(t))
  BY <1>1 DEF Instances, Widens, PointerTypes, NullableTypes, ClassTypes, VectorTypes, TagOf, Tag, ShapeOf
<1> QED BY <1>1, <1>2, <1>3, <1>4, <1>5 DEF References, Boxed, Ref, Nil

(* An object of a class is an object of what the class widens to.          *)
LEMMA ObjectsWiden ==
  ASSUME NEW s, NEW t, <<s, t>> \in Widens
  PROVE  ObjectsOf(s) \subseteq ObjectsOf(t)
<1>1. \A r : r = s \/ <<r, s>> \in Widens => r = t \/ <<r, t>> \in Widens BY DEF Widens
<1> QED BY <1>1 DEF ObjectsOf

(* Every reference is an object of some pointer type.                      *)
LEMMA ReferencesAreObjects ==
  ASSUME NEW b \in References
  PROVE  /\ \E t \in PointerTypes \ {"String"} : b \in ObjectsOf(t)
         /\ b[1] \in References_ /\ b = Boxed(b[1], b[2]) /\ b[2] # Nil
         /\ b[2][1] = "ref" /\ b[2][2] \in Words
<1>1. PICK t \in DOMAIN Instances : b \in ObjectsOf(t) BY DEF References
<1>2. t \in PointerTypes \ {"String"}
  BY DEF Instances, PointerTypes, NullableTypes, ClassTypes, VectorTypes
<1>3. Tag(ShapeOf(t)) \in References_
  BY <1>2 DEF PointerTypes, NullableTypes, ClassTypes, VectorTypes, Tag, ShapeOf, References_
<1> QED BY <1>1, <1>2, <1>3, ObjectsAreTagged

(* The boxed values, by their tags.                                        *)
LEMMA BoxCases ==
  ASSUME NEW b \in Boxes
  PROVE  /\ b = Boxed(b[1], b[2])
         /\ \/ b = Undefined \/ b = Null
            \/ b[1] = "Int" /\ b[2] \in Ints
            \/ b[1] = "UInt" /\ b[2] \in UInts
            \/ b[1] = "Number" /\ b[2] \in Numbers
            \/ b[1] = "Boolean" /\ b[2] \in BOOLEAN
            \/ b[1] = "String" /\ b[2][1] = "text" /\ b[2] = Str(b[2][2]) /\ b[2][2] \in Seq(Atoms)
            \/ b[1] \in References_ /\ b \in References
<1>1. CASE b \in References BY <1>1, ReferencesAreObjects
<1>2. CASE b \in {"String"} \X (Strings \ {Nil}) BY <1>2 DEF Strings, Nil, Str, Boxed
<1>3. CASE b \in NumberBoxes BY <1>3 DEF NumberBoxes, Boxed
<1>4. CASE b \in ({"Boolean"} \X BOOLEAN) \cup {Undefined, Null} BY <1>4 DEF Boxed, Undefined, Null
<1> QED BY <1>1, <1>2, <1>3, <1>4 DEF Boxes

(* A number in a box.                                                      *)
LEMMA NumericIsNumber ==
  ASSUME NEW b \in Boxes, IsNumeric(b)
  PROVE  numeric(b) \in Numbers
<1>1. b[1] \in NumericTypes BY DEF IsNumeric
<1>2. \/ b[1] = "Number" /\ b[2] \in Numbers
      \/ b[1] # "Number" /\ b[2] \in Int
  BY <1>1, BoxCases, HalfIsPositive DEF NumericTypes, Undefined, Null, Boxed, References_, Ints, UInts
<1> QED BY <1>2 DEF numeric, Numbers, Fin

(* Texts, read and written.                                                *)
LEMMA TextsAreAtoms ==
  /\ \A s \in Words : Lit(s) \in Seq(Atoms)
  /\ \A x \in Numbers : number_to_string(x) \in Seq(Atoms)
  /\ \A s \in Seq(Atoms) : string_to_number(s) \in Numbers
  /\ \A s \in Seq(Atoms) : Units(s) \in 0 .. 2
<1>1. ASSUME NEW s \in Words PROVE Lit(s) \in Seq(Atoms)
  <2>1. <<"lit", s>> \in Atoms BY DEF Atoms
  <2> HIDE DEF Atoms
  <2> QED BY <2>1 DEF Lit
<1>2. ASSUME NEW x \in Numbers PROVE number_to_string(x) \in Seq(Atoms)
  <2>1. <<"num", x>> \in Atoms BY DEF Atoms
  <2> QED BY <2>1 DEF number_to_string
<1>3. ASSUME NEW s \in Seq(Atoms) PROVE string_to_number(s) \in Numbers
  <2>1. CASE s = <<>> BY <2>1 DEF string_to_number, Numbers, Fin
  <2>2. CASE Len(s) = 1 /\ s[1][1] = "num"
    <3>1. s[1] \in Atoms /\ s # <<>> BY <2>2
    <3>2. s[1][2] \in Numbers
      <4>1. s[1] \in {"num"} \X Numbers BY <2>2, <3>1 DEF Atoms, Literals
      <4> QED BY <4>1
    <3> QED BY <2>2, <3>1, <3>2 DEF string_to_number
  <2>3. CASE s # <<>> /\ ~(Len(s) = 1 /\ s[1][1] = "num")
    <3>1. string_to_number(s) = NaN BY <2>3 DEF string_to_number
    <3> QED BY <3>1 DEF Numbers
  <2> QED BY <2>1, <2>2, <2>3
<1> QED BY <1>1, <1>2, <1>3 DEF Units

(* Arithmetic stays within the Numbers, comparisons are true or false.     *)
LEMMA Arithmetic ==
  /\ \A x, y \in Numbers : Plus(x, y) \in Numbers /\ Negate(x) \in Numbers
  /\ \A h \in Int : Fin(h) \in Numbers
  /\ \A x, y \in Numbers : Less(x, y) \in BOOLEAN
  /\ \A x, y \in Numbers : \A op \in Relational \cup {"=="} : Compare(op, x, y) \in BOOLEAN
<1>1. \A h \in Int : Fin(h) \in Numbers BY DEF Fin, Numbers
<1>2. ASSUME NEW x \in Numbers PROVE \/ x[1] = "fin" /\ x[2] \in Int /\ x = Fin(x[2])
                                     \/ x = NaN \/ x = Inf(1) \/ x = Inf(-1)
  BY DEF Numbers, Fin
<1>3. ASSUME NEW x \in Numbers, NEW y \in Numbers PROVE Plus(x, y) \in Numbers
  <2>1. CASE x[1] = "fin" /\ y[1] = "fin"
    <3>1. x[2] + y[2] \in Int BY <1>2, <2>1 DEF NaN, Inf
    <3>2. Fin(x[2] + y[2]) \in Numbers BY <1>1, <3>1
    <3>3. Plus(x, y) = Fin(x[2] + y[2]) BY <2>1 DEF Plus, NaN
    <3> QED BY <3>2, <3>3
  <2>2. CASE x[1] # "fin" \/ y[1] # "fin"
    <3>1. Plus(x, y) \in {NaN, x, y}
      <4>1. x[1] \in {"fin", "nan", "inf"} /\ y[1] \in {"fin", "nan", "inf"} BY <1>2 DEF NaN, Inf
      <4>2. x[1] = "nan" => x = NaN BY <1>2 DEF Inf
      <4>3. y[1] = "nan" => y = NaN BY <1>2 DEF Inf
      <4> QED BY <2>2, <4>1, <4>2, <4>3 DEF Plus
    <3> QED BY <3>1 DEF Numbers
  <2> QED BY <2>1, <2>2
<1>4. ASSUME NEW x \in Numbers PROVE Negate(x) \in Numbers
  BY <1>1, <1>2 DEF Negate, Numbers, NaN, Inf, Fin
<1>5. ASSUME NEW x \in Numbers, NEW y \in Numbers PROVE Less(x, y) \in BOOLEAN
  <2>1. CASE x[1] = "fin" /\ y[1] = "fin"
    <3>1. x[2] \in Int /\ y[2] \in Int BY <1>2, <2>1 DEF NaN, Inf
    <3>2. Less(x, y) = (x[2] < y[2]) BY <2>1 DEF Less
    <3>3. (x[2] < y[2]) \in BOOLEAN BY <3>1
    <3> QED BY <3>2, <3>3
  <2>2. CASE ~(x[1] = "fin" /\ y[1] = "fin") BY <2>2 DEF Less
  <2> QED BY <2>1, <2>2
<1>6. ASSUME NEW x \in Numbers, NEW y \in Numbers, NEW op \in Relational \cup {"=="} PROVE Compare(op, x, y) \in BOOLEAN
  BY <1>5 DEF Compare, Relational
<1> QED BY <1>1, <1>3, <1>4, <1>5, <1>6

(* Comparing texts and null pointers is true or false.                     *)
LEMMA ComparedTexts ==
  ASSUME NEW p \in Strings, NEW q \in Strings, NEW op \in Relational
  PROVE  string_cmp(op, p, q) \in BOOLEAN
<1> DEFINE num(s) == IF s = Nil THEN Fin(0) ELSE string_to_number(s[2])
<1>1. \A s \in Strings : s # Nil => s[2] \in Seq(Atoms) BY DEF Strings, Nil
<1>2. ASSUME NEW s \in Strings
      PROVE  num(s) \in Numbers /\ (s # Nil => Fin(Units(s[2])) \in Numbers)
  <2>1. Fin(0) \in Numbers BY Arithmetic
  <2>2. CASE s = Nil BY <2>1, <2>2
  <2>3. CASE s # Nil
    <3>1. string_to_number(s[2]) \in Numbers /\ Units(s[2]) \in Int BY <2>3, <1>1, TextsAreAtoms
    <3> DEFINE u == Units(s[2])
    <3>2. Fin(u) \in Numbers
      <4> HIDE DEF u
      <4>1. u \in Int BY <3>1 DEF u
      <4> QED BY <4>1, Arithmetic
    <3> QED BY <2>3, <3>1, <3>2
  <2> QED BY <2>2, <2>3
<1>4. string_cmp(op, p, q) = IF Nil \in {p, q} THEN Compare(op, num(p), num(q))
                             ELSE Compare(op, Fin(Units(p[2])), Fin(Units(q[2])))
  BY DEF string_cmp
<1> HIDE DEF num
<1> QED BY <1>2, <1>4, Arithmetic

(* What the runtime reads in a box.                                        *)
LEMMA BoxesAreRead ==
  ASSUME NEW b \in Boxes
  PROVE  /\ any_truthy(b) \in BOOLEAN
         /\ any_to_number(b) \in Numbers
         /\ any_to_display(b) \in Seq(Atoms)
         /\ any_typeof(b) \in Seq(Atoms)
<1> USE BoxCases
<1>1. CASE b = Undefined \/ b = Null
  <2>1. b[1] \in {"Undefined", "Null"} BY <1>1 DEF Undefined, Null, Boxed
  <2>2. any_to_number(b) \in {Fin(0), NaN} BY <2>1 DEF any_to_number, IsNumeric, NumericTypes
  <2>3. any_to_display(b) \in {Lit("undefined"), Lit("null")}
    BY <2>1 DEF any_to_display, IsNumeric, NumericTypes
  <2>4. {Lit("undefined"), Lit("null"), Lit("object")} \subseteq Seq(Atoms) BY TextsAreAtoms DEF Words
  <2>5. any_typeof(b) \in {Lit("undefined"), Lit("object")} BY <2>1 DEF any_typeof, IsNumeric, NumericTypes
  <2>6. any_truthy(b) = FALSE BY <2>1 DEF any_truthy, IsNumeric, NumericTypes
  <2>7. Fin(0) \in Numbers /\ NaN \in Numbers BY DEF Fin, Numbers
  <2> QED BY <2>2, <2>3, <2>4, <2>5, <2>6, <2>7
<1>2. CASE IsNumeric(b)
  <2>1. b[1] \in NumericTypes BY <1>2 DEF IsNumeric
  <2>2. any_to_number(b) = numeric(b) BY <1>2, <2>1 DEF any_to_number, NumericTypes
  <2>3. any_to_display(b) = number_to_string(numeric(b)) BY <1>2, <2>1 DEF any_to_display, NumericTypes
  <2>4. any_typeof(b) = Lit("number") BY <1>2, <2>1 DEF any_typeof, NumericTypes
  <2>5. any_truthy(b) \in BOOLEAN BY <1>2, <2>1 DEF any_truthy, NumericTypes
  <2>6. Lit("number") \in Seq(Atoms) BY TextsAreAtoms DEF Words
  <2> QED BY <1>2, <2>2, <2>3, <2>4, <2>5, <2>6, NumericIsNumber, TextsAreAtoms
<1>3. CASE b[1] = "Boolean" /\ b[2] \in BOOLEAN
  <2>1. any_to_number(b) = Fin(IF b[2] THEN 2 ELSE 0) BY <1>3 DEF any_to_number, IsNumeric, NumericTypes
  <2>2. any_to_display(b) = Lit(IF b[2] THEN "true" ELSE "false")
    BY <1>3 DEF any_to_display, IsNumeric, NumericTypes
  <2>3. {Lit("true"), Lit("false"), Lit("boolean")} \subseteq Seq(Atoms) BY TextsAreAtoms DEF Words
  <2>4. any_typeof(b) = Lit("boolean") BY <1>3 DEF any_typeof, IsNumeric, NumericTypes
  <2>5. any_truthy(b) = b[2] BY <1>3 DEF any_truthy, IsNumeric, NumericTypes
  <2>6. Fin(0) \in Numbers /\ Fin(2) \in Numbers BY Arithmetic
  <2> QED BY <1>3, <2>1, <2>2, <2>3, <2>4, <2>5, <2>6
<1>4. CASE b[1] = "String" /\ b[2][1] = "text" /\ b[2] = Str(b[2][2]) /\ b[2][2] \in Seq(Atoms)
  <2>0. b[2] # Nil BY <1>4 DEF Nil, Str
  <2>1. any_to_number(b) = string_to_number(b[2][2])
    BY <1>4, <2>0 DEF any_to_number, IsNumeric, NumericTypes
  <2>2. any_to_display(b) = b[2][2] BY <1>4, <2>0 DEF any_to_display, IsNumeric, NumericTypes
  <2>3. any_typeof(b) = Lit("string") BY <1>4 DEF any_typeof, IsNumeric, NumericTypes
  <2>4. any_truthy(b) \in BOOLEAN BY <1>4 DEF any_truthy, IsNumeric, NumericTypes
  <2>5. Lit("string") \in Seq(Atoms) BY TextsAreAtoms DEF Words
  <2> QED BY <1>4, <2>1, <2>2, <2>3, <2>4, <2>5, TextsAreAtoms
<1>5. CASE b[1] \in References_ /\ b \in References
  <2>0. b[2] # Nil /\ b[2][2] \in Words BY <1>5, ReferencesAreObjects
  <2>1. any_to_number(b) = NaN BY <1>5 DEF any_to_number, IsNumeric, NumericTypes, References_
  <2>2. any_to_display(b) = Lit(IF b[1] \in {"Function", "Socket"} THEN b[1] ELSE b[2][2])
    BY <1>5, <2>0 DEF any_to_display, IsNumeric, NumericTypes, References_
  <2>3. any_typeof(b) \in {Lit("function"), Lit("object")}
    BY <1>5 DEF any_typeof, IsNumeric, NumericTypes, References_
  <2>4. any_truthy(b) \in BOOLEAN BY <1>5 DEF any_truthy, IsNumeric, NumericTypes, References_
  <2>5. {Lit("function"), Lit("object"), Lit("Function"), Lit("Socket"), Lit(b[2][2])} \subseteq Seq(Atoms)
    BY <2>0, TextsAreAtoms DEF Words
  <2> QED BY <1>5, <2>1, <2>2, <2>3, <2>4, <2>5 DEF Numbers
<1> QED BY <1>1, <1>2, <1>3, <1>4, <1>5 DEF IsNumeric, NumericTypes

(* The shapes of pointers.                                                 *)
LEMMA PointerShapes ==
  /\ Pointers = (References_ \cup {"String", "Obj", "VecP"}) \ {"Object", "Vector"}
  /\ \A t \in PointerTypes : ShapeOf(t) \in Pointers /\ (ShapeOf(t) = "String" <=> t = "String")
<1>1. \A t \in PointerTypes : /\ ShapeOf(t) \in (References_ \cup {"String", "Obj", "VecP"}) \ {"Object", "Vector"}
                              /\ ShapeOf(t) = "String" <=> t = "String"
  BY DEF PointerTypes, NullableTypes, ClassTypes, VectorTypes, ShapeOf, References_
<1>2. ASSUME NEW s \in (References_ \cup {"String", "Obj", "VecP"}) \ {"Object", "Vector"}
      PROVE  s \in Pointers
  <2>1. {"A", "VecInt", "String", "Array", "Function", "RegExp", "Date", "Socket", "Namespace"}
          \subseteq PointerTypes
    BY DEF PointerTypes, NullableTypes, ClassTypes, VectorTypes
  <2>2. /\ ShapeOf("A") = "Obj" /\ ShapeOf("VecInt") = "VecP"
        /\ \A t \in {"String", "Array", "Function", "RegExp", "Date", "Socket", "Namespace"} : ShapeOf(t) = t
    BY DEF ShapeOf, ClassTypes, VectorTypes
  <2>3. CASE s = "Obj" BY <2>1, <2>2, <2>3 DEF Pointers
  <2>4. CASE s = "VecP" BY <2>1, <2>2, <2>4 DEF Pointers
  <2>5. CASE s \in {"String", "Array", "Function", "RegExp", "Date", "Socket", "Namespace"}
    <3>1. s \in PointerTypes /\ ShapeOf(s) = s BY <2>1, <2>2, <2>5
    <3> QED BY <3>1 DEF Pointers
  <2> QED BY <2>3, <2>4, <2>5 DEF References_
<1> QED BY <1>1, <1>2 DEF Pointers

(* A pointer held by a variable is null or points to an object of the type.*)
LEMMA HeldPointers ==
  ASSUME NEW t \in PointerTypes \ {"String"}
  PROVE  /\ \A v \in Held(t) : /\ v = <<ShapeOf(t), v[2]>>
                               /\ v[2] = Nil \/ Boxed(Tag(ShapeOf(t)), v[2]) \in ObjectsOf(t)
         /\ <<ShapeOf(t), Nil>> \in Held(t)
         /\ \A b \in ObjectsOf(t) : <<ShapeOf(t), b[2]>> \in Held(t)
<1>1. Held(t) = {ShapeOf(t)} \X ({Nil} \cup {b[2] : b \in ObjectsOf(t)})
  BY DEF Held, PointerTypes, NullableTypes, ClassTypes, VectorTypes
<1>2. ASSUME NEW v \in Held(t), v[2] # Nil PROVE Boxed(Tag(ShapeOf(t)), v[2]) \in ObjectsOf(t)
  <2>1. PICK b \in ObjectsOf(t) : v[2] = b[2] BY <1>1, <1>2
  <2> QED BY <2>1, ObjectsAreTagged
<1> QED BY <1>1, <1>2

(* The other kinds of variable.                                            *)
LEMMA HeldValues ==
  /\ Held("Int") = {"Int"} \X Ints /\ Held("UInt") = {"UInt"} \X UInts
  /\ Held("Number") = {"Number"} \X Numbers /\ Held("Boolean") = {"Boolean"} \X BOOLEAN
  /\ Held("String") = {"String"} \X Strings /\ Held("Null") = {<<"String", Nil>>}
  /\ Held("Any") = {"Any"} \X Boxes
BY DEF Held

(* Boxing keeps a value among the boxes.                                   *)
LEMMA BoxedIsBox ==
  ASSUME NEW t \in OperandTypes \ {"Void"}, NEW v \in Held(t)
  PROVE  box_value(v) \in Boxes
<1>1. CASE t \in PointerTypes \ {"String"}
  <2>1. v = <<ShapeOf(t), v[2]>> /\ (v[2] = Nil \/ Boxed(Tag(ShapeOf(t)), v[2]) \in ObjectsOf(t))
    BY <1>1, HeldPointers
  <2>2. v[1] = ShapeOf(t) /\ v[1] \in Pointers /\ v[1] # "Any"
    BY <1>1, <2>1, PointerShapes DEF References_
  <2>3. box_value(v) = IF v[2] = Nil THEN Null ELSE Boxed(Tag(ShapeOf(t)), v[2]) BY <2>2 DEF box_value
  <2>4. v[2] # Nil => Boxed(Tag(ShapeOf(t)), v[2]) \in References BY <1>1, <2>1, ObjectsAreTagged
  <2> QED BY <2>3, <2>4 DEF Boxes
<1>2. CASE t \in {"String", "Null"}
  <2>1. v[1] = "String" /\ v[2] \in Strings BY <1>2, HeldValues DEF Strings
  <2>2. "String" \in Pointers BY PointerShapes
  <2>3. box_value(v) = IF v[2] = Nil THEN Null ELSE Boxed("String", v[2]) BY <2>1, <2>2 DEF box_value, Tag
  <2> QED BY <2>1, <2>3 DEF Boxes, Boxed
<1>3. CASE t = "Any"
  <2>1. v[1] = "Any" /\ v[2] \in Boxes /\ "Any" \notin Pointers BY <1>3, HeldValues, PointerShapes DEF References_
  <2> QED BY <2>1 DEF box_value
<1>4. CASE t \in MachineTypes
  <2>1. /\ v[1] = t
        /\ \/ t = "Int" /\ v[2] \in Ints
           \/ t = "UInt" /\ v[2] \in UInts
           \/ t = "Number" /\ v[2] \in Numbers
           \/ t = "Boolean" /\ v[2] \in BOOLEAN
    BY <1>4, HeldValues DEF MachineTypes, NumericTypes
  <2>2. t \notin Pointers /\ t # "Any" BY <1>4, PointerShapes DEF MachineTypes, NumericTypes, References_
  <2>3. box_value(v) = Boxed(t, v[2]) BY <1>4, <2>1, <2>2 DEF box_value, Tag, MachineTypes, NumericTypes
  <2> QED BY <2>1, <2>3 DEF Boxes, NumberBoxes, Boxed
<1> QED BY <1>1, <1>2, <1>3, <1>4 DEF OperandTypes, VariableTypes

(* The checked conversion of a box to a type yields a value of it or fails.*)
LEMMA UnboxedIsHeld ==
  ASSUME NEW b \in Boxes, NEW t \in VariableTypes
  PROVE  unbox_any_ptr(b, t) \in Held(t) \cup {Throw}
<1>0. b = Boxed(b[1], b[2]) BY BoxCases
<1>1. CASE t = "Any" BY <1>1, HeldValues DEF unbox_any_ptr
<1>2. CASE t \in MachineTypes
  <2>1. any_to_number(b) \in Numbers /\ any_truthy(b) \in BOOLEAN BY BoxesAreRead
  <2> QED BY <1>2, <2>1, HeldValues, NumbersBecomeWords DEF unbox_any_ptr, MachineTypes, NumericTypes
<1>3. CASE t \in PointerTypes
  <2> DEFINE p == any_coerce(b, t)
  <2>1. unbox_any_ptr(b, t) = IF p[1] = "throw" THEN Throw ELSE <<ShapeOf(t), p>>
    BY <1>3 DEF unbox_any_ptr, PointerTypes, NullableTypes, ClassTypes, VectorTypes
  <2>2. CASE t = "String"
    <3>1. p \in Strings
      <4>1. any_to_display(b) \in Seq(Atoms) BY BoxesAreRead
      <4>2. b[1] = "String" => b[2] \in Strings BY BoxCases DEF Strings, Str, Undefined, Null, Boxed, References_
      <4> QED BY <2>2, <4>1, <4>2 DEF any_coerce, Strings, Str
    <3> HIDE DEF p
    <3> QED BY <2>1, <2>2, <3>1, HeldValues DEF ShapeOf, ClassTypes, VectorTypes
  <2>3. CASE t # "String"
    <3>1. p = Nil \/ p[1] = "throw" \/ (IsInstance(b, t) /\ p = b[2]) BY <2>3 DEF any_coerce
    <3>2. IsInstance(b, t) => <<ShapeOf(t), b[2]>> \in Held(t) BY <1>3, <2>3, HeldPointers DEF IsInstance
    <3>3. <<ShapeOf(t), Nil>> \in Held(t) BY <1>3, <2>3, HeldPointers
    <3> HIDE DEF p
    <3> QED BY <2>1, <3>1, <3>2, <3>3
  <2> QED BY <2>2, <2>3
<1> QED BY <1>1, <1>2, <1>3 DEF VariableTypes

(* "is" is true or false; "as" yields a value of its target, or a box.     *)
LEMMA TestedTypes ==
  ASSUME NEW b \in Boxes, NEW t \in VariableTypes \ {"Any"}
  PROVE  /\ is_value(b, t) \in BOOLEAN
         /\ t \notin {"Function", "Socket", "Namespace"} =>
              as_value(b, t) \in Held(IF t \in MachineTypes THEN "Any" ELSE t)
<1>1. is_value(b, t) \in BOOLEAN
  <2>1. IsInstance(b, t) \in BOOLEAN BY DEF IsInstance
  <2>2. ASSUME NEW tag PROVE any_is(b, tag) \in BOOLEAN
    <3>1. CASE tag \in {"Int", "UInt"}
      <4> DEFINE whole == /\ numeric(b)[1] = "fin"
                          /\ numeric(b)[2] % 2 = 0
                          /\ numeric(b)[2] \div 2 \in (IF tag = "Int" THEN Ints ELSE UInts)
      <4>1. whole \in BOOLEAN OBVIOUS
      <4>2. any_is(b, tag) = (IsNumeric(b) /\ whole) BY <3>1 DEF any_is
      <4> HIDE DEF whole
      <4> QED BY <4>1, <4>2
    <3>2. CASE tag \notin {"Int", "UInt"}
      <4>1. any_is(b, tag) \in {b[1] \in NumericTypes, FALSE, b[1] = tag} BY <3>2 DEF any_is, IsNumeric
      <4>2. (b[1] \in NumericTypes) \in BOOLEAN /\ (b[1] = tag) \in BOOLEAN OBVIOUS
      <4> QED BY <4>1, <4>2
    <3> QED BY <3>1, <3>2
  <2> QED BY <2>1, <2>2 DEF is_value
<1>2. CASE t \in MachineTypes
  <2>1. as_value(b, t) \in {<<"Any", b>>, <<"Any", Null>>}
    BY <1>2 DEF as_value, MachineTypes, NumericTypes, ClassTypes, VectorTypes
  <2> QED BY <1>1, <1>2, <2>1, HeldValues DEF Boxes
<1>3. CASE t = "String"
  <2>1. as_value(b, t) = <<"String", IF b[1] = "String" THEN b[2] ELSE Nil>>
    BY <1>3 DEF as_value, ShapeOf, ClassTypes, VectorTypes
  <2>2. b[1] = "String" => b[2] \in Strings BY BoxCases DEF Strings, Str, Undefined, Null, Boxed, References_
  <2>3. as_value(b, t) \in Held("String") BY <2>1, <2>2, HeldValues DEF Strings
  <2> QED BY <1>1, <1>3, <2>3 DEF MachineTypes, NumericTypes
<1>4. CASE t \in ClassTypes \cup VectorTypes \cup {"I", "Array", "Date", "RegExp"}
  <2>1. t \in PointerTypes \ {"String"} /\ t \notin MachineTypes
    BY <1>4 DEF PointerTypes, NullableTypes, ClassTypes, VectorTypes, MachineTypes, NumericTypes
  <2>2. as_value(b, t) = <<ShapeOf(t), IF IsInstance(b, t) THEN b[2] ELSE Nil>>
    BY <1>4, <2>1 DEF as_value
  <2>3. as_value(b, t) \in Held(t) BY <2>1, <2>2, HeldPointers DEF IsInstance
  <2> QED BY <1>1, <2>1, <2>3
<1> QED BY <1>1, <1>2, <1>3, <1>4 DEF VariableTypes, PointerTypes, NullableTypes

-----------------------------------------------------------------------------
(* Coercions. *)

(* A computed value of type t: held as one, or the literal null where t is *)
(* nullable, whose shape the variable gives it.                            *)
Passing(t) == Held(t) \cup (IF t \in NullableTypes THEN Held("Null") ELSE {})

(* A value has the shape of its type.                                      *)
LEMMA HeldShape ==
  ASSUME NEW t \in OperandTypes \ {"Void"}, NEW v \in Held(t)
  PROVE  /\ v[1] = ShapeOf(t) /\ v = <<v[1], v[2]>>
         /\ v[1] \in Pointers \cup MachineTypes \cup {"Any"}
         /\ v[1] \notin {"Panic", "Throw", "Void", "Garbage", "cell"} /\ v \notin {Panic, Throw}
<1>1. CASE t \in PointerTypes \ {"String"}
  <2>1. v = <<ShapeOf(t), v[2]>> BY <1>1, HeldPointers
  <2>2. v[1] = ShapeOf(t) BY <2>1
  <2>3. v[1] \in Pointers BY <1>1, <2>2, PointerShapes
  <2>4. v[1] \notin {"Panic", "Throw", "Void", "Garbage", "cell"} BY <2>3, PointerShapes DEF References_
  <2> QED BY <2>1, <2>2, <2>3, <2>4 DEF Panic, Throw
<1>2. CASE t \in MachineTypes \cup {"String", "Null", "Any"}
  <2>1. /\ v[1] = ShapeOf(t) /\ v = <<v[1], v[2]>>
    BY <1>2, HeldValues DEF MachineTypes, NumericTypes, ShapeOf, ClassTypes, VectorTypes
  <2>2. v[1] \in MachineTypes \cup {"String", "Any"}
    BY <1>2, HeldValues DEF MachineTypes, NumericTypes
  <2> QED BY <2>1, <2>2, PointerShapes DEF MachineTypes, NumericTypes, Panic, Throw, References_
<1> QED BY <1>1, <1>2 DEF OperandTypes, VariableTypes

(* Every value has a truth value.                                          *)
LEMMA TruthIsBoolean ==
  ASSUME NEW t \in OperandTypes \ {"Void"}, NEW v \in Held(t)
  PROVE  truthy(v) \in BOOLEAN
<1>1. any_truthy(box_value(v)) \in BOOLEAN BY BoxedIsBox, BoxesAreRead
<1>2. v[1] = "Boolean" => v[2] \in BOOLEAN
  <2>1. ShapeOf(t) = "Boolean" => t = "Boolean" BY DEF ShapeOf
  <2> QED BY <2>1, HeldShape, HeldValues
<1>3. CASE v[1] = "Boolean" BY <1>2, <1>3 DEF truthy
<1>4. CASE v[1] # "Boolean"
  <2>1. truthy(v) \in {v[2] # 0, v[2] \notin {Fin(0), NaN}, any_truthy(box_value(v)), v[2] # Nil}
    BY <1>4 DEF truthy
  <2> QED BY <1>1, <2>1
<1> QED BY <1>3, <1>4

(* Every value has a text, a null pointer for one, but for a null          *)
(* Namespace, which throws.                                                *)
LEMMA TextIsString ==
  ASSUME NEW t \in OperandTypes \ {"Void"}, NEW v \in Held(t)
  PROVE  /\ stringify(v) \in Strings \/ (stringify(v) = <<"throw", 0>> /\ t = "Namespace")
         /\ \A s \in Strings : s[1] # "throw"
<1>1. any_to_display(box_value(v)) \in Seq(Atoms) BY BoxedIsBox, BoxesAreRead
<1>2. Str(any_to_display(box_value(v))) \in Strings BY <1>1 DEF Strings, Str
<1>3. Nil \in Strings BY DEF Strings
<1>4. Str(Lit("Function")) \in Strings /\ Str(Lit("Socket")) \in Strings
  BY TextsAreAtoms DEF Words, Strings, Str
<1>5. v[1] = "String" => v[2] \in Strings
  <2>1. ShapeOf(t) = "String" => t \in {"String", "Null"} BY DEF ShapeOf, OperandTypes, VariableTypes
  <2> QED BY <2>1, HeldShape, HeldValues DEF Strings
<1>6. v[1] = "Namespace" => t = "Namespace"
  <2>1. ShapeOf(t) = "Namespace" => t = "Namespace" BY DEF ShapeOf, OperandTypes, VariableTypes
  <2> QED BY <2>1, HeldShape
<1>7. \A s \in Strings : s[1] # "throw" BY DEF Strings, Nil
<1> DEFINE text == Str(any_to_display(box_value(v)))
<1>8. CASE v[1] = "String" BY <1>8, <1>5, <1>7 DEF stringify
<1>9. CASE v[1] \in {"Function", "Socket"} BY <1>9, <1>4, <1>7 DEF stringify
<1>10. CASE v[1] \notin {"String", "Function", "Socket"}
  <2>1. stringify(v) \in {Nil, text} \/ (v[1] = "Namespace" /\ stringify(v) = <<"throw", 0>>)
    BY <1>10 DEF stringify
  <2> HIDE DEF text
  <2>2. text \in Strings BY <1>2 DEF text
  <2> QED BY <2>1, <2>2, <1>3, <1>6, <1>7
<1> QED BY <1>8, <1>9, <1>10

Yields(l, v) ==
  /\ convert(None, v) = v
  /\ convert(<<"To", "Any">>, v) \in Held("Any")
  /\ convert(<<"To", "Boolean">>, v) \in Held("Boolean")
  /\ convert(<<"To", "String">>, v) \in Held("String") \cup {Throw}
  /\ \A t \in NumericTypes : l \in NumericTypes \cup {"Any"} => convert(<<"To", t>>, v) \in Held(t)
  /\ l \in {"String", "Null"} => convert(<<"To", "Number">>, v) \in Held("Number")
  /\ \A t \in PointerTypes : l = "Any" => convert(<<"FromAny", t>>, v) \in Held(t) \cup {Throw}

(* The conversions the checker inserts yield values of their target type.  *)
LEMMA ConversionsYield ==
  ASSUME NEW l \in OperandTypes \ {"Void"}, NEW v \in Held(l)
  PROVE  Yields(l, v)
<1>1. convert(None, v) = v BY DEF convert, None
<1>2. \A t : convert(<<"To", t>>, v) = convert_to(v, t) BY HeldShape DEF convert
<1>3. convert_to(v, "Any") \in Held("Any") BY BoxedIsBox, HeldValues DEF convert_to
<1>4. convert_to(v, "Boolean") \in Held("Boolean") BY TruthIsBoolean, HeldValues DEF convert_to, Bool
<1>5. convert_to(v, "String") \in Held("String") \cup {Throw}
  <2>1. convert_to(v, "String") = IF stringify(v)[1] = "throw" THEN Throw ELSE <<"String", stringify(v)>>
    BY DEF convert_to
  <2>2. stringify(v) \in Strings \/ stringify(v)[1] = "throw" BY TextIsString
  <2> QED BY <2>1, <2>2, HeldValues
<1>6. ASSUME NEW t \in NumericTypes, l \in NumericTypes \cup {"Any"} PROVE convert_to(v, t) \in Held(t)
  <2>0. v[1] = l BY <1>6, HeldShape DEF ShapeOf, NumericTypes, ClassTypes, VectorTypes
  <2>1. CASE l \in {"Int", "UInt"}
    <3>1. v[2] \in Int BY <2>1, HeldValues, HalfIsPositive DEF Ints, UInts
    <3>2. Fin(2 * v[2]) \in Numbers BY <3>1, Arithmetic
    <3>3. CASE t = "Number" BY <2>0, <2>1, <3>2, <3>3, HeldValues DEF convert_to, convert_to_number, NumberOf, NumericTypes
    <3>4. CASE t # "Number"
      <4>1. convert_to(v, t) = Wrapped(t, v[2]) BY <2>0, <2>1, <3>4 DEF convert_to, convert_to_int, NumericTypes
      <4> QED BY <3>1, <3>4, <4>1, WrappedIsWord DEF NumericTypes
    <3> QED BY <3>3, <3>4
  <2>2. CASE l = "Number"
    <3>1. v[2] \in Numbers BY <2>2, HeldValues
    <3>2. CASE t = "Number" BY <2>0, <2>2, <3>1, <3>2, HeldValues DEF convert_to, convert_to_number, NumberOf, NumericTypes
    <3>3. CASE t # "Number"
      <4>1. convert_to(v, t) = <<t, convert_num_to_int(v[2], t)>>
        BY <2>0, <2>2, <3>3 DEF convert_to, convert_to_int, NumericTypes
      <4> QED BY <3>1, <3>3, <4>1, NumbersBecomeWords, HeldValues DEF NumericTypes
    <3> QED BY <3>2, <3>3
  <2>3. CASE l = "Any"
    <3>1. any_to_number(v[2]) \in Numbers BY <2>3, HeldValues, BoxesAreRead
    <3>2. CASE t = "Number" BY <2>0, <2>3, <3>1, <3>2, HeldValues DEF convert_to, convert_to_number, NumericTypes
    <3>3. CASE t # "Number"
      <4>1. convert_to(v, t) = <<t, convert_num_to_int(any_to_number(v[2]), t)>>
        BY <2>0, <2>3, <3>3 DEF convert_to, convert_to_int, NumericTypes
      <4> QED BY <3>1, <3>3, <4>1, NumbersBecomeWords, HeldValues DEF NumericTypes
    <3> QED BY <3>2, <3>3
  <2> QED BY <1>6, <2>1, <2>2, <2>3 DEF NumericTypes
<1>7. ASSUME l \in {"String", "Null"} PROVE convert_to(v, "Number") \in Held("Number")
  <2>1. v[1] = "String" BY <1>7, HeldValues
  <2>2. convert_to(v, "Number") = <<"Number", any_to_number(box_value(v))>>
    BY <2>1 DEF convert_to, convert_to_number, NumericTypes
  <2> QED BY <2>2, BoxedIsBox, BoxesAreRead, HeldValues
<1>8. ASSUME NEW t \in PointerTypes, l = "Any" PROVE convert(<<"FromAny", t>>, v) \in Held(t) \cup {Throw}
  <2>1. v[1] = "Any" /\ v[2] \in Boxes BY <1>8, HeldValues
  <2>2. convert(<<"FromAny", t>>, v) = unbox_any_ptr(v[2], t) BY <2>1, HeldShape DEF convert
  <2> QED BY <2>1, <2>2, UnboxedIsHeld DEF VariableTypes
<1> HIDE DEF None
<1> QED BY <1>1, <1>2, <1>3, <1>4, <1>5, <1>6, <1>7, <1>8 DEF NumericTypes, Yields

(* A legal coercion yields a value of its target, or fails.                *)
LEMMA CoercedIsPassing ==
  ASSUME NEW from \in OperandTypes \ {"Void"}, NEW to \in VariableTypes \cup {from},
         NEW v \in Passing(from), coerce(from, to) # Illegal
  PROVE  convert(coerce(from, to), v) \in Passing(to) \cup {Throw}
<1>1. coerce(from, to) = conversion(from, to) BY DEF coerce
<1>2. "Null" \in OperandTypes \ {"Void"} BY DEF OperandTypes
<1>3. PICK l \in OperandTypes \ {"Void"} : /\ v \in Held(l)
                                           /\ l = from \/ (l = "Null" /\ from \in NullableTypes)
  BY <1>2 DEF Passing
<1>9. Yields(l, v) BY <1>3, ConversionsYield
<1>4. CASE conversion(from, to) = None
  <2>1. convert(None, v) = v BY <1>9 DEF Yields
  <2>2. from = to \/ <<from, to>> \in Widens \/ (from = "Null" /\ to \in NullableTypes)
    BY <1>4 DEF conversion, None, Illegal
  <2>3. CASE <<from, to>> \in Widens
    <3>1. /\ {from, to} \subseteq ClassTypes \cup {"I"} /\ to \in NullableTypes
          /\ {from, to} \subseteq PointerTypes \ {"String"}
          /\ ShapeOf(from) = "Obj" /\ ShapeOf(to) = "Obj"
      <4>1. from \in {"A", "B", "I"} /\ to \in {"Object", "I"} BY <2>3 DEF Widens
      <4>2. \A t \in {"A", "B", "I", "Object"} :
              /\ t \in ClassTypes \cup {"I"} /\ t \in NullableTypes
              /\ t \in PointerTypes \ {"String"} /\ ShapeOf(t) = "Obj"
        BY DEF NullableTypes, ClassTypes, PointerTypes, VectorTypes, ShapeOf
      <4> QED BY <4>1, <4>2
    <3>2. CASE l = from
      <4>1. v = <<ShapeOf(from), v[2]>> /\ (v[2] = Nil \/ Boxed(Tag(ShapeOf(from)), v[2]) \in ObjectsOf(from))
        BY <1>3, <3>1, <3>2, HeldPointers
      <4>2. v[2] # Nil => Boxed(Tag(ShapeOf(to)), v[2]) \in ObjectsOf(to) BY <2>3, <3>1, <4>1, ObjectsWiden
      <4>3. Boxed(Tag(ShapeOf(to)), v[2])[2] = v[2] BY DEF Boxed
      <4>4. <<ShapeOf(to), v[2]>> \in Held(to) BY <3>1, <4>2, <4>3, HeldPointers
      <4> QED BY <1>1, <1>4, <2>1, <3>1, <4>1, <4>4 DEF Passing
    <3>3. CASE l = "Null" BY <1>3, <1>1, <1>4, <2>1, <3>1, <3>3 DEF Passing
    <3> QED BY <1>3, <3>2, <3>3
  <2>4. CASE from = to BY <1>1, <1>4, <2>1, <2>4
  <2>5. CASE from = "Null" /\ to \in NullableTypes
    <3>1. l = "Null" BY <1>3, <2>5
    <3> QED BY <1>1, <1>3, <1>4, <2>1, <2>5, <3>1 DEF Passing
  <2> QED BY <2>2, <2>3, <2>4, <2>5
<1>5. CASE conversion(from, to) = <<"To", to>> /\ to = "Any"
  BY <1>1, <1>3, <1>5, <1>9 DEF Passing, Yields
<1>6. CASE conversion(from, to) = <<"To", to>> /\ to # "Any"
  <2>1. to \in MachineTypes /\ (from = "Any" \/ {from, to} \subseteq NumericTypes)
    BY <1>6 DEF conversion, None, Illegal
  <2>2. l = from BY <1>3, <2>1 DEF NullableTypes, NumericTypes, ClassTypes
  <2>3. CASE to = "Boolean" BY <1>1, <1>3, <1>6, <2>3, <1>9 DEF Passing, Yields
  <2>4. CASE to # "Boolean"
    <3>1. to \in NumericTypes /\ from \in NumericTypes \cup {"Any"} BY <2>1, <2>4 DEF MachineTypes
    <3>2. convert(<<"To", to>>, v) \in Held(to) BY <1>3, <1>9, <2>2, <3>1 DEF Yields
    <3> QED BY <1>1, <1>6, <3>2 DEF Passing
  <2> QED BY <2>3, <2>4
<1>7. CASE conversion(from, to) = <<"FromAny", to>>
  <2>1. from = "Any" /\ to # "Any" /\ to \notin MachineTypes BY <1>7 DEF conversion, None, Illegal
  <2>2. l = from /\ to \in PointerTypes BY <1>3, <2>1 DEF NullableTypes, ClassTypes, VariableTypes
  <2>3. convert(<<"FromAny", to>>, v) \in Held(to) \cup {Throw} BY <1>3, <1>9, <2>1, <2>2 DEF Yields
  <2> QED BY <1>1, <1>7, <2>3 DEF Passing
<1>8. conversion(from, to) \in {None, <<"To", to>>, <<"FromAny", to>>, Illegal} BY DEF conversion
<1> QED BY <1>1, <1>4, <1>5, <1>6, <1>7, <1>8

(* The literal null takes the shape of the variable or of the merged type. *)
LEMMA RewrappedIsHeld ==
  ASSUME NEW t \in OperandTypes \ {"Void"}, NEW v \in Passing(t)
  PROVE  Rewrap(v, t) \in Held(t) /\ basic_ty(v[1]) = basic_ty(ShapeOf(t))
<1>1. CASE v \in Held(t)
  <2>1. v[1] = ShapeOf(t) /\ v = <<v[1], v[2]>> BY <1>1, HeldShape
  <2> QED BY <1>1, <2>1 DEF Rewrap
<1>2. CASE t \in NullableTypes /\ v \in Held("Null")
  <2>1. v = <<"String", Nil>> BY <1>2, HeldValues
  <2>2. t \in PointerTypes BY <1>2 DEF PointerTypes
  <2>3. basic_ty("String") = "ptr" /\ basic_ty(ShapeOf(t)) = "ptr"
    BY <2>2, PointerShapes DEF basic_ty, References_
  <2>4. Rewrap(v, t) = <<ShapeOf(t), Nil>> BY <2>1, <2>3 DEF Rewrap
  <2>5. <<ShapeOf(t), Nil>> \in Held(t)
    <3>1. CASE t = "String" BY <3>1, HeldValues DEF ShapeOf, ClassTypes, VectorTypes, Strings
    <3>2. CASE t # "String" BY <2>2, <3>2, HeldPointers
    <3> QED BY <3>1, <3>2
  <2> QED BY <2>1, <2>3, <2>4, <2>5
<1> QED BY <1>1, <1>2 DEF Passing

(* What a variable of type t gives back is a value of type t.              *)
LEMMA StoredIsHeld ==
  ASSUME NEW c, c.to \in VariableTypes, NEW v \in Passing(c.to) \cup {Throw}
  PROVE  load_local(c, store_local(c, v)) \in Held(c.to) \cup {Throw}
<1>0. c.to \in OperandTypes \ {"Void"} /\ "Null" \in OperandTypes \ {"Void"}
  BY DEF OperandTypes, VariableTypes, MachineTypes, NumericTypes, PointerTypes, NullableTypes, ClassTypes, VectorTypes
<1>1. CASE v = Throw
  <2>1. store_local(c, v) = Throw BY <1>1 DEF store_local
  <2> QED BY <2>1 DEF load_local, Throw
<1>2. CASE v \in Passing(c.to)
  <2>1. PICK l \in OperandTypes \ {"Void"} : v \in Held(l) BY <1>0, <1>2 DEF Passing
  <2>2. v \notin {Panic, Throw} /\ v[1] \notin {"Panic", "Throw", "Garbage", "cell"} BY <2>1, HeldShape
  <2>3. CASE c.cell
    <3>1. store_local(c, v) = <<"cell", box_value(v)>> BY <2>2, <2>3 DEF store_local
    <3>2. load_local(c, <<"cell", box_value(v)>>) = unbox_any_ptr(box_value(v), c.to) BY DEF load_local
    <3> QED BY <2>1, <3>1, <3>2, BoxedIsBox, UnboxedIsHeld
  <2>4. CASE ~c.cell
    <3>1. store_local(c, v) = v BY <1>0, <1>2, <2>2, <2>4, RewrappedIsHeld DEF store_local
    <3>2. load_local(c, v) = Rewrap(v, c.to) BY <2>2 DEF load_local
    <3> QED BY <1>0, <1>2, <3>1, <3>2, RewrappedIsHeld
  <2> QED BY <2>3, <2>4
<1> QED BY <1>1, <1>2

(* An operand is a value of its static type.                               *)
LEMMA OperandIsHeld ==
  ASSUME NEW t \in OperandTypes \ {"Void"}, NEW b \in ValuesOf(t)
  PROVE  Operand(b, t) \in Held(t) /\ b \in Boxes
<1>1. CASE t \in MachineTypes
  <2>1. /\ b[1] = t /\ b = Boxed(t, b[2]) /\ b # Null
        /\ \/ t = "Int" /\ b[2] \in Ints
           \/ t = "UInt" /\ b[2] \in UInts
           \/ t = "Number" /\ b[2] \in Numbers
           \/ t = "Boolean" /\ b[2] \in BOOLEAN
    BY <1>1, TypingAssumption DEF ValuesOf, MachineTypes, NumericTypes, Boxed, Null
  <2>2. Operand(b, t) = <<t, b[2]>>
    BY <1>1, <2>1 DEF Operand, ShapeOf, MachineTypes, NumericTypes, ClassTypes, VectorTypes
  <2> QED BY <1>1, <2>1, <2>2, HeldValues DEF Boxes, NumberBoxes, Boxed
<1>2. CASE t = "String"
  <2>1. \/ b = Null
        \/ \E s \in Seq(Atoms) : b = Boxed("String", Str(s))
    BY <1>2, TypingAssumption DEF ValuesOf
  <2>2. Operand(b, t) = <<"String", IF b = Null THEN Nil ELSE b[2]>>
    BY <1>2 DEF Operand, ShapeOf, ClassTypes, VectorTypes
  <2>3. \A s \in Seq(Atoms) : Str(s) \in Strings /\ Str(s) # Nil BY DEF Str, Strings, Nil
  <2>4. b # Null => b[1] = "String" /\ b[2] \in Strings \ {Nil} /\ b = <<b[1], b[2]>>
    BY <2>1, <2>3 DEF Boxed
  <2>5. Nil \in Strings BY DEF Strings
  <2>6. b \in Boxes BY <2>4 DEF Boxes
  <2> QED BY <1>2, <2>2, <2>4, <2>5, <2>6, HeldValues
<1>3. CASE t = "Any"
  <2>1. \A s \in Texts : Boxed("String", Str(s)) \in {"String"} \X (Strings \ {Nil})
    BY TypingAssumption DEF Boxed, Str, Strings, Nil
  <2>2. \A x \in BOOLEAN : Boxed("Boolean", x) \in {"Boolean"} \X BOOLEAN BY DEF Boxed
  <2>3. BoxedNumbers \subseteq NumberBoxes BY TypingAssumption
  <2>4. b \in Boxes BY <1>3, <2>1, <2>2, <2>3 DEF ValuesOf, Boxes
  <2> QED BY <1>3, <2>4, HeldValues DEF Operand
<1>4. CASE t = "Null"
  <2>1. b = Null BY <1>4 DEF ValuesOf
  <2> QED BY <1>4, <2>1, HeldValues DEF Operand, ShapeOf, ClassTypes, VectorTypes, Boxes
<1>5. CASE t \in PointerTypes \ {"String"}
  <2>1. b \in ObjectsOf(t) \cup {Null}
    BY <1>5 DEF ValuesOf, PointerTypes, NullableTypes, ClassTypes, VectorTypes
  <2>2. Operand(b, t) = <<ShapeOf(t), IF b = Null THEN Nil ELSE b[2]>>
    BY <1>5 DEF Operand, PointerTypes, NullableTypes, ClassTypes, VectorTypes
  <2>3. b # Null => b \in References BY <1>5, <2>1, ObjectsAreTagged
  <2> QED BY <1>5, <2>1, <2>2, <2>3, HeldPointers DEF Boxes
<1> QED BY <1>1, <1>2, <1>3, <1>4, <1>5 DEF OperandTypes, VariableTypes

-----------------------------------------------------------------------------
(* The operations. *)

(* An operand that was computed.                                           *)
Plain(v) == v \notin {Panic, Throw} /\ v[1] # "Void"

(* The value of a type was computed.                                       *)
LEMMA HeldIsPlain ==
  /\ \A t \in OperandTypes \ {"Void"} : \A v \in Held(t) : Plain(v)
  /\ \A t \in OperandTypes \ {"Void"} : \A v \in Passing(t) : Plain(v)
  /\ Throw # Panic
<1>1. ASSUME NEW t \in OperandTypes \ {"Void"}, NEW v \in Held(t) PROVE Plain(v)
  BY HeldShape DEF Plain
<1>2. "Null" \in OperandTypes \ {"Void"} BY DEF OperandTypes
<1> QED BY <1>1, <1>2 DEF Passing, Throw, Panic

(* A TypeError in an operand is the outcome, but for the operators that    *)
(* may not use it.                                                         *)
LEMMA EmitThrows ==
  ASSUME NEW c, c.op \notin Logical, NEW a, NEW b, Throw \in {a, b}, Panic \notin {a, b}
  PROVE  Emit(c, a, b) = Throw
BY DEF Emit

(* The types of variables, among those of operands.                        *)
LEMMA TypesOfOperands ==
  /\ VariableTypes \cup {"Null"} = OperandTypes \ {"Void"}
  /\ MachineTypes \cup {"String", "Any", "Null"} \subseteq OperandTypes \ {"Void"}
  /\ \A t \in MachineTypes \cup {"Any", "Null"} : Passing(t) = Held(t)
  /\ Passing("String") = Held("String")
<1>1. VariableTypes \cup {"Null"} = OperandTypes \ {"Void"}
  BY DEF OperandTypes, VariableTypes, MachineTypes, NumericTypes, PointerTypes, NullableTypes, ClassTypes, VectorTypes
<1>2. MachineTypes \cup {"String", "Any", "Null"} \subseteq OperandTypes \ {"Void"}
  BY DEF OperandTypes, VariableTypes, MachineTypes, NumericTypes, PointerTypes, NullableTypes
<1>3. \A t \in MachineTypes \cup {"Any", "Null"} : Passing(t) = Held(t)
  BY DEF Passing, MachineTypes, NumericTypes, NullableTypes, ClassTypes
<1>4. Passing("String") = Held("String") BY HeldValues DEF Passing, Strings
<1> QED BY <1>1, <1>2, <1>3, <1>4

(* Coercions to a type whose values are held as they are.                  *)
LEMMA CoercedIsHeld ==
  ASSUME NEW from \in OperandTypes \ {"Void"}, NEW to \in MachineTypes \cup {"String", "Any"},
         NEW v \in Held(from), coerce(from, to) # Illegal
  PROVE  convert(coerce(from, to), v) \in Held(to) \cup {Throw}
<1>1. v \in Passing(from) BY DEF Passing
<1>2. to \in VariableTypes BY DEF VariableTypes, PointerTypes, NullableTypes
<1> QED BY <1>1, <1>2, CoercedIsPassing, TypesOfOperands

(* Arithmetic, shifts and bits: both operands are converted first.         *)
LEMMA EmitArithmetic ==
  ASSUME NEW op \in {"-", ">>>"} \cup Bitwise32,
         NEW l \in OperandTypes \ {"Void"}, NEW r \in OperandTypes \ {"Void"},
         NEW x \in Held(l), NEW y \in Held(r), NEW c, c.op = op,
         Illegal \notin {binary_typed(op, l, r).left, binary_typed(op, l, r).right}
  PROVE  /\ binary_typed(op, l, r).ty \in NumericTypes
         /\ Emit(c, convert(binary_typed(op, l, r).left, x), convert(binary_typed(op, l, r).right, y))
              \in Held(binary_typed(op, l, r).ty) \cup {Throw}
<1> DEFINE e == binary_typed(op, l, r)
           a == convert(e.left, x)
           b == convert(e.right, y)
           t == IF op = "-" THEN "Number" ELSE IF op = ">>>" THEN "UInt" ELSE "Int"
           u == IF op = "-" THEN "Number" ELSE "Int"
<1>1. e = Typed(t, coerce(l, t), coerce(r, u))
  BY DEF binary_typed, Logical, Choices, Bitwise32, Relational
<1>2. t \in NumericTypes /\ u \in NumericTypes BY DEF NumericTypes
<1>3. e.ty = t /\ e.left = coerce(l, t) /\ e.right = coerce(r, u) BY <1>1 DEF Typed
<1>4. a \in Held(t) \cup {Throw} /\ b \in Held(u) \cup {Throw}
  <2> HIDE DEF t, u, e
  <2>1. coerce(l, t) # Illegal /\ coerce(r, u) # Illegal BY <1>3 DEF e
  <2>2. t \in MachineTypes /\ u \in MachineTypes BY <1>2 DEF MachineTypes
  <2> QED BY <1>3, <2>1, <2>2, CoercedIsHeld
<1> HIDE DEF a, b, e
<1>5. t \in OperandTypes \ {"Void"} /\ u \in OperandTypes \ {"Void"}
  BY <1>2, TypesOfOperands DEF MachineTypes
<1>6. CASE Throw \in {a, b}
  <2>1. c.op \notin Logical BY DEF Logical, Choices, Bitwise32
  <2>2. Panic \notin {a, b} BY <1>4, <1>5, HeldIsPlain DEF Plain
  <2> QED BY <1>2, <1>3, <1>6, <2>1, <2>2, EmitThrows DEF a, b, e
<1>7. CASE Throw \notin {a, b}
  <2>1. a \in Held(t) /\ b \in Held(u) /\ Plain(a) /\ Plain(b) BY <1>4, <1>5, <1>7, HeldIsPlain
  <2>2. CASE op = "-"
    <3>1. Emit(c, a, b) = <<"Number", Plus(a[2], Negate(b[2]))>>
      BY <2>1, <2>2 DEF Emit, Plain, Logical, Choices, Bitwise32, Relational
    <3>2. a[2] \in Numbers /\ b[2] \in Numbers BY <2>1, <2>2, HeldValues
    <3>3. Plus(a[2], Negate(b[2])) \in Numbers BY <3>2, Arithmetic
    <3> QED BY <1>2, <1>3, <2>2, <3>1, <3>3, HeldValues DEF a, b, e
  <2>3. CASE op # "-"
    <3>1. Emit(c, a, b) = bit_op(op, a, b)
      BY <2>1, <2>3 DEF Emit, Plain, Logical, Choices, Bitwise32, Relational
    <3>2. a[2] \in Int /\ b[2] \in Int BY <2>1, <2>3, HeldValues, HalfIsPositive DEF Ints, UInts
    <3>3. bit_op(op, a, b) \in Held(t) BY <2>3, <3>2, BitsAreWords
    <3> QED BY <1>2, <1>3, <3>1, <3>3 DEF a, b, e
  <2> QED BY <2>2, <2>3
<1> QED BY <1>6, <1>7

(* Comparisons are true or false, or fail with their operands.             *)
LEMMA EmitComparison ==
  ASSUME NEW op \in Relational \cup Equality,
         NEW l \in OperandTypes \ {"Void"}, NEW r \in OperandTypes \ {"Void"},
         NEW x \in Held(l), NEW y \in Held(r), NEW c, c.op = op,
         Illegal \notin {binary_typed(op, l, r).left, binary_typed(op, l, r).right}
  PROVE  /\ binary_typed(op, l, r).ty = "Boolean"
         /\ Emit(c, convert(binary_typed(op, l, r).left, x), convert(binary_typed(op, l, r).right, y))
              \in Held("Boolean") \cup {Throw}
<1> DEFINE e == binary_typed(op, l, r)
           a == convert(e.left, x)
           b == convert(e.right, y)
           numbers == op \in Relational /\ {l, r} \cap NumericTypes # {}
           t == IF numbers THEN "Number" ELSE l
           u == IF numbers THEN "Number" ELSE r
<1>1. e = IF numbers THEN Typed("Boolean", coerce(l, "Number"), coerce(r, "Number"))
          ELSE Typed("Boolean", None, None)
  BY DEF binary_typed, Logical, Choices, Bitwise32, Relational, Equality
<1>2. e.ty = "Boolean" BY <1>1 DEF Typed
<1>3. t \in OperandTypes \ {"Void"} /\ u \in OperandTypes \ {"Void"}
  BY TypesOfOperands DEF MachineTypes, NumericTypes
<1>4. a \in Held(t) \cup {Throw} /\ b \in Held(u) \cup {Throw}
  <2>1. CASE numbers
    <3>1. e.left = coerce(l, "Number") /\ e.right = coerce(r, "Number") BY <1>1, <2>1 DEF Typed
    <3>2. coerce(l, "Number") # Illegal /\ coerce(r, "Number") # Illegal BY <3>1
    <3> HIDE DEF e, numbers
    <3>3. "Number" \in MachineTypes BY DEF MachineTypes, NumericTypes
    <3> QED BY <2>1, <3>1, <3>2, <3>3, CoercedIsHeld
  <2>2. CASE ~numbers
    <3>1. e.left = None /\ e.right = None BY <1>1, <2>2 DEF Typed
    <3>2. convert(None, x) = x /\ convert(None, y) = y BY ConversionsYield DEF Yields
    <3> HIDE DEF e, numbers
    <3> QED BY <2>2, <3>1, <3>2
  <2> QED BY <2>1, <2>2
<1> HIDE DEF a, b, e, t, u
<1>6. CASE Throw \in {a, b}
  <2>1. c.op \notin Logical BY DEF Logical, Choices, Relational, Equality
  <2>2. Panic \notin {a, b} BY <1>3, <1>4, HeldIsPlain DEF Plain
  <2> QED BY <1>2, <1>6, <2>1, <2>2, EmitThrows DEF a, b, e
<1>7. CASE Throw \notin {a, b}
  <2>1. a \in Held(t) /\ b \in Held(u) /\ Plain(a) /\ Plain(b) BY <1>3, <1>4, <1>7, HeldIsPlain
  <2>2. box_value(a) \in Boxes /\ box_value(b) \in Boxes BY <1>3, <2>1, BoxedIsBox
  <2>3. CASE op \in Relational
    <3>1. relational(op, a, b) \in BOOLEAN
      <4>1. CASE a[1] = "Number" /\ b[1] = "Number"
        <5>1. \A s \in OperandTypes \ {"Void"} : \A v \in Held(s) : v[1] = "Number" => v[2] \in Numbers
          <6> TAKE s \in OperandTypes \ {"Void"}
          <6> TAKE v \in Held(s)
          <6>1. ShapeOf(s) = "Number" => s = "Number" BY DEF ShapeOf
          <6> QED BY <6>1, HeldShape, HeldValues
        <5>2. a[2] \in Numbers /\ b[2] \in Numbers BY <1>3, <2>1, <4>1, <5>1
        <5>3. relational(op, a, b) = Compare(op, a[2], b[2]) BY <4>1 DEF relational
        <5> QED BY <2>3, <5>2, <5>3, Arithmetic
      <4>2. CASE a[1] = "String" /\ b[1] = "String"
        <5>1. \A s \in OperandTypes \ {"Void"} : \A v \in Held(s) : v[1] = "String" => v[2] \in Strings
          <6> TAKE s \in OperandTypes \ {"Void"}
          <6> TAKE v \in Held(s)
          <6>1. ShapeOf(s) = "String" => s \in {"String", "Null"} BY DEF ShapeOf
          <6> QED BY <6>1, HeldShape, HeldValues DEF Strings
        <5>2. a[2] \in Strings /\ b[2] \in Strings BY <1>3, <2>1, <4>2, <5>1
        <5>3. relational(op, a, b) = string_cmp(op, a[2], b[2]) BY <4>2 DEF relational
        <5> QED BY <2>3, <5>2, <5>3, ComparedTexts
      <4>3. CASE ~(a[1] = "Number" /\ b[1] = "Number") /\ ~(a[1] = "String" /\ b[1] = "String")
        <5> DEFINE p == box_value(a)
                   q == box_value(b)
        <5>1. relational(op, a, b) = any_cmp(op, p, q) BY <4>3 DEF relational
        <5> HIDE DEF p, q
        <5>2. p \in Boxes /\ q \in Boxes BY <2>2 DEF p, q
        <5>3. CASE p[1] = "String" /\ q[1] = "String"
          <6>1. \A v \in Boxes : v[1] = "String" => v[2] \in Strings
            BY BoxCases DEF Strings, Str, Undefined, Null, Boxed, References_
          <6>2. any_cmp(op, p, q) = string_cmp(op, p[2], q[2]) BY <5>3 DEF any_cmp
          <6> QED BY <2>3, <5>1, <5>2, <5>3, <6>1, <6>2, ComparedTexts
        <5>4. CASE ~(p[1] = "String" /\ q[1] = "String")
          <6>1. any_to_number(p) \in Numbers /\ any_to_number(q) \in Numbers BY <5>2, BoxesAreRead
          <6>2. any_cmp(op, p, q) = Compare(op, any_to_number(p), any_to_number(q)) BY <5>4 DEF any_cmp
          <6> QED BY <2>3, <5>1, <6>1, <6>2, Arithmetic
        <5> QED BY <5>3, <5>4
      <4> QED BY <4>1, <4>2, <4>3
    <3>2. Emit(c, a, b) = Bool(relational(op, a, b))
      BY <2>1, <2>3 DEF Emit, Plain, Logical, Choices, Bitwise32, Relational
    <3> QED BY <1>2, <3>1, <3>2, HeldValues DEF Bool, a, b, e
  <2>4. CASE op \in Equality
    <3> DEFINE loose  == equality(a, b, FALSE)
               strict == equality(a, b, TRUE)
    <3>1. Emit(c, a, b) \in {Bool(loose = (op = "==")), Bool(strict = (op = "==="))}
      BY <2>1, <2>4 DEF Emit, Plain, Logical, Choices, Bitwise32, Relational, Equality
    <3> HIDE DEF loose, strict
    <3>2. \A q \in BOOLEAN : Bool(q) \in Held("Boolean") BY HeldValues DEF Bool
    <3>4. Bool(loose = (op = "==")) \in Held("Boolean")
      <4> DEFINE q == loose = (op = "==")
      <4>1. q \in BOOLEAN OBVIOUS
      <4> HIDE DEF q
      <4>2. Bool(q) \in Held("Boolean") BY <3>2, <4>1
      <4> QED BY <4>2 DEF q
    <3>5. Bool(strict = (op = "===")) \in Held("Boolean")
      <4> DEFINE q == strict = (op = "===")
      <4>1. q \in BOOLEAN OBVIOUS
      <4> HIDE DEF q
      <4>2. Bool(q) \in Held("Boolean") BY <3>2, <4>1
      <4> QED BY <4>2 DEF q
    <3> DEFINE m == Bool(loose = (op = "=="))
               n == Bool(strict = (op = "==="))
    <3>6. Emit(c, a, b) \in {m, n} BY <3>1
    <3>7. m \in Held("Boolean") /\ n \in Held("Boolean") BY <3>4, <3>5
    <3> HIDE DEF m, n
    <3> QED BY <1>2, <3>6, <3>7 DEF a, b, e
  <2> QED BY <2>3, <2>4
<1> QED BY <1>6, <1>7

(* Addition: of numbers, of texts, and of boxes.                           *)
LEMMA EmitAddition ==
  ASSUME NEW l \in OperandTypes \ {"Void"}, NEW r \in OperandTypes \ {"Void"},
         NEW x \in Held(l), NEW y \in Held(r), NEW c, c.op = "+",
         "Null" \in {l, r} => "String" \in {l, r},
         Illegal \notin {binary_typed("+", l, r).left, binary_typed("+", l, r).right}
  PROVE  /\ binary_typed("+", l, r).ty \in {"String", "Number", "Any"}
         /\ Emit(c, convert(binary_typed("+", l, r).left, x), convert(binary_typed("+", l, r).right, y))
              \in Held(binary_typed("+", l, r).ty) \cup {Throw}
<1> DEFINE e == binary_typed("+", l, r)
           a == convert(e.left, x)
           b == convert(e.right, y)
           t == IF "String" \in {l, r} THEN "String"
                ELSE IF {l, r} \subseteq NumericTypes THEN "Number" ELSE "Any"
<1>1. e = IF t = "String" THEN Typed(t, concat_operand(l), concat_operand(r))
          ELSE IF t = "Number" THEN Typed(t, coerce(l, t), coerce(r, t))
          ELSE Typed(t, coerce_to_any(l), coerce_to_any(r))
  BY DEF binary_typed, Logical, Choices, Bitwise32, Relational
<1>2. e.ty = t /\ t \in {"String", "Number", "Any"} BY <1>1 DEF Typed
<1>3. Yields(l, x) /\ Yields(r, y) BY ConversionsYield
<1>4. a \in Held(t) \cup {Throw} /\ b \in Held(t) \cup {Throw}
  <2>1. CASE t = "String"
    <3>1. e.left = concat_operand(l) /\ e.right = concat_operand(r) BY <1>1, <2>1 DEF Typed
    <3> HIDE DEF e, t
    <3> QED BY <1>3, <2>1, <3>1 DEF concat_operand, Yields
  <2>2. CASE t = "Number"
    <3>1. e.left = coerce(l, "Number") /\ e.right = coerce(r, "Number") BY <1>1, <2>2 DEF Typed
    <3>2. coerce(l, "Number") # Illegal /\ coerce(r, "Number") # Illegal BY <3>1
    <3>3. "Number" \in MachineTypes BY DEF MachineTypes, NumericTypes
    <3> HIDE DEF e, t
    <3> QED BY <2>2, <3>1, <3>2, <3>3, CoercedIsHeld
  <2>3. CASE t = "Any"
    <3>1. e.left = coerce_to_any(l) /\ e.right = coerce_to_any(r) BY <1>1, <2>3 DEF Typed
    <3>2. "Null" \notin {l, r} BY <2>3
    <3> HIDE DEF e, t
    <3>3. \A s \in {l, r} : coerce_to_any(s) = IF s = "Any" THEN None ELSE <<"To", "Any">>
      BY <3>2 DEF coerce_to_any
    <3> QED BY <1>3, <2>3, <3>1, <3>3 DEF Yields
  <2> QED BY <1>2, <2>1, <2>2, <2>3
<1> HIDE DEF a, b, e, t
<1>5. t \in OperandTypes \ {"Void"} BY <1>2, TypesOfOperands DEF MachineTypes, NumericTypes
<1>6. CASE Throw \in {a, b}
  <2>1. c.op \notin Logical BY DEF Logical, Choices
  <2>2. Panic \notin {a, b} BY <1>4, <1>5, HeldIsPlain DEF Plain
  <2> QED BY <1>2, <1>6, <2>1, <2>2, EmitThrows DEF a, b, e
<1>7. CASE Throw \notin {a, b}
  <2>1. a \in Held(t) /\ b \in Held(t) /\ Plain(a) /\ Plain(b) BY <1>4, <1>5, <1>7, HeldIsPlain
  <2>2. Emit(c, a, b) = binary_add(a, b)
    BY <2>1 DEF Emit, Plain, Logical, Choices, Bitwise32, Relational
  <2>3. binary_add(a, b) \in Held(t)
    <3>1. CASE t = "Number"
      <4>1. a[1] = "Number" /\ b[1] = "Number" /\ a[2] \in Numbers /\ b[2] \in Numbers
        BY <2>1, <3>1, HeldValues
      <4>2. binary_add(a, b) = <<"Number", Plus(a[2], b[2])>> BY <4>1 DEF binary_add
      <4> QED BY <3>1, <4>1, <4>2, Arithmetic, HeldValues
    <3>2. CASE t = "String"
      <4> DEFINE text(v) == IF stringify(v) = Nil THEN Lit("null") ELSE stringify(v)[2]
      <4>1. a[1] = "String" /\ b[1] = "String" /\ a[2] \in Strings /\ b[2] \in Strings
        BY <2>1, <3>2, HeldValues
      <4>2. stringify(a) = a[2] /\ stringify(b) = b[2] BY <4>1 DEF stringify
      <4>3. binary_add(a, b) = <<"String", Str(text(a) \o text(b))>> BY <4>1 DEF binary_add
      <4>4. Lit("null") \in Seq(Atoms) BY TextsAreAtoms DEF Words
      <4>5. \A s \in Strings : s # Nil => s[2] \in Seq(Atoms) BY DEF Strings
      <4>6. text(a) \in Seq(Atoms) /\ text(b) \in Seq(Atoms) BY <4>1, <4>2, <4>4, <4>5
      <4> HIDE DEF text
      <4>7. text(a) \o text(b) \in Seq(Atoms) BY <4>6
      <4> QED BY <3>2, <4>3, <4>7, HeldValues DEF Str, Strings
    <3>3. CASE t = "Any"
      <4>1. a[1] = "Any" /\ b[1] = "Any" /\ box_value(a) \in Boxes /\ box_value(b) \in Boxes
        BY <1>5, <2>1, <3>3, HeldValues, BoxedIsBox
      <4> DEFINE p == box_value(a)
                 q == box_value(b)
      <4>2. binary_add(a, b) = <<"Any", any_add(p, q)>> BY <4>1 DEF binary_add
      <4> HIDE DEF p, q
      <4>3. p \in Boxes /\ q \in Boxes BY <4>1 DEF p, q
      <4>4. any_add(p, q) \in Boxes
        <5>1. any_to_display(p) \o any_to_display(q) \in Seq(Atoms) BY <4>3, BoxesAreRead
        <5>2. Boxed("String", Str(any_to_display(p) \o any_to_display(q))) \in Boxes
          BY <5>1 DEF Boxes, Boxed, Str, Strings, Nil
        <5>3. Plus(any_to_number(p), any_to_number(q)) \in Numbers BY <4>3, BoxesAreRead, Arithmetic
        <5>4. Boxed("Number", Plus(any_to_number(p), any_to_number(q))) \in Boxes
          BY <5>3 DEF Boxes, Boxed, NumberBoxes
        <5> QED BY <5>2, <5>4 DEF any_add
      <4> QED BY <3>3, <4>2, <4>4, HeldValues
    <3> QED BY <1>2, <3>1, <3>2, <3>3
  <2> QED BY <1>2, <2>2, <2>3 DEF a, b, e
<1> QED BY <1>6, <1>7

(* A TypeError is not reshaped.                                            *)
LEMMA ThrowIsKept ==
  ASSUME NEW t \in OperandTypes \ {"Void"}
  PROVE  Rewrap(Throw, t) = Throw
<1>1. basic_ty("Throw") = "Throw" BY PointerShapes DEF basic_ty, References_
<1>2. basic_ty(ShapeOf(t)) # "Throw"
  <2>1. ShapeOf(t) # "Throw"
    BY DEF ShapeOf, OperandTypes, VariableTypes, MachineTypes, NumericTypes, PointerTypes, NullableTypes, ClassTypes, VectorTypes
  <2> QED BY <2>1 DEF basic_ty
<1> QED BY <1>1, <1>2 DEF Rewrap, Throw

(* && and ||, and the conditional, yield one of their operands, in the     *)
(* shape of the type the two have in common.                               *)
LEMMA EmitLogical ==
  ASSUME NEW op \in Logical,
         NEW l \in OperandTypes \ {"Void"}, NEW r \in OperandTypes \ {"Void"},
         NEW x \in Held(l), NEW y \in Held(r), NEW c, c.op = op, c.ty = binary_typed(op, l, r).ty,
         Illegal \notin {binary_typed(op, l, r).left, binary_typed(op, l, r).right}
  PROVE  /\ c.ty \in OperandTypes \ {"Void"}
         /\ Emit(c, convert(binary_typed(op, l, r).left, x), convert(binary_typed(op, l, r).right, y))
              \in Held(c.ty) \cup {Throw}
<1> DEFINE e == binary_typed(op, l, r)
           a == convert(e.left, x)
           b == convert(e.right, y)
           t == merge_types(l, r)
<1>1. e = Typed(t, coerce(l, t), coerce(r, t)) BY DEF binary_typed, Logical, Choices, Bitwise32, Relational
<1>2. c.ty = t /\ e.left = coerce(l, t) /\ e.right = coerce(r, t) BY <1>1 DEF Typed
<1>3. (t = l /\ l = r) \/ t \in {"Number", "Object", "Any"} BY DEF merge_types
<1>4. t \in OperandTypes \ {"Void"} /\ t \in VariableTypes \cup {l} /\ t \in VariableTypes \cup {r}
  BY <1>3, TypesOfOperands
     DEF VariableTypes, MachineTypes, NumericTypes, PointerTypes, NullableTypes, ClassTypes
<1>5. a \in Passing(t) \cup {Throw} /\ b \in Passing(t) \cup {Throw}
  <2>1. coerce(l, t) # Illegal /\ coerce(r, t) # Illegal BY <1>2
  <2>2. x \in Passing(l) /\ y \in Passing(r) BY DEF Passing
  <2> HIDE DEF t, e
  <2> QED BY <1>2, <1>4, <2>1, <2>2, CoercedIsPassing
<1> HIDE DEF a, b, e, t
<1>6. \A v \in Passing(t) \cup {Throw} :
        /\ v # Panic /\ v[1] # "Void"
        /\ Rewrap(v, t) \in Held(t) \cup {Throw}
  <2>1. Throw # Panic /\ Throw[1] # "Void" BY DEF Throw, Panic
  <2> QED BY <1>4, <2>1, HeldIsPlain, RewrappedIsHeld, ThrowIsKept DEF Plain
<1>7. a # Panic /\ b # Panic /\ a[1] # "Void" /\ b[1] # "Void" BY <1>5, <1>6
<1>8. CASE op \in Choices
  <2>1. Emit(c, a, b) = Rewrap(IF op = "?l:" THEN a ELSE b, t)
    BY <1>2, <1>7, <1>8 DEF Emit, Logical, Choices, Bitwise32, Relational
  <2> QED BY <1>2, <1>4, <1>5, <1>6, <2>1 DEF a, b, e
<1>9. CASE op \in {"&&", "||"}
  <2>1. Emit(c, a, b) = IF a = Throw THEN a ELSE Rewrap(IF truthy(a) = (op = "&&") THEN b ELSE a, t)
    BY <1>2, <1>7, <1>9 DEF Emit, Logical, Choices, Bitwise32, Relational
  <2> QED BY <1>2, <1>4, <1>5, <1>6, <2>1 DEF a, b, e
<1> QED BY <1>8, <1>9 DEF Logical

(* Operators on one operand.                                               *)
LEMMA EmitUnary ==
  ASSUME NEW op \in UnaryOps, NEW l \in OperandTypes \ {"Void"}, NEW x \in Held(l),
         NEW b, Plain(b), NEW c, c.op = op, unary(op, l).left # Illegal,
         op \in {"++", "--"} => l \in NumericTypes
  PROVE  /\ unary(op, l).ty \in MachineTypes \cup {"String", "Any"}
         /\ Emit(c, convert(unary(op, l).left, x), b) \in Held(unary(op, l).ty) \cup {Throw}
<1> DEFINE e == unary(op, l)
           a == convert(e.left, x)
<1>0. c.op \notin Logical /\ c.op \notin Choices \cup Bitwise32 \cup {">>>"} \cup Relational
  BY DEF UnaryOps, Logical, Choices, Bitwise32, Relational
<1>1. Yields(l, x) BY ConversionsYield
<1>2. ASSUME a = Throw PROVE Emit(c, a, b) = Throw
  <2> HIDE DEF a
  <2>1. Throw \in {a, b} /\ Panic \notin {a, b} BY <1>2 DEF Plain, Throw, Panic
  <2> QED BY <1>0, <2>1, EmitThrows
<1>3. CASE op = "!"
  <2>1. e = Typed("Boolean", coerce_condition(l), None) BY <1>3 DEF unary
  <2>2. e.ty = "Boolean" /\ e.left = coerce_condition(l) BY <2>1 DEF Typed
  <2>3. a \in Held("Boolean")
    <3> HIDE DEF e
    <3> QED BY <1>1, <2>2 DEF coerce_condition, Yields
  <2> HIDE DEF a, e
  <2>4. Plain(a) /\ truthy(a) \in BOOLEAN
    <3>1. "Boolean" \in OperandTypes \ {"Void"} BY TypesOfOperands DEF MachineTypes
    <3> QED BY <2>3, <3>1, HeldIsPlain, TruthIsBoolean
  <2>5. Emit(c, a, b) = Bool(~truthy(a)) BY <1>0, <1>3, <2>4 DEF Emit, Plain
  <2> QED BY <2>2, <2>4, <2>5, HeldValues DEF Bool, a, e, MachineTypes
<1>4. CASE op \in {"~", "+x", "-x", "++", "--"}
  <2> DEFINE t == IF op = "~" THEN "Int" ELSE IF op = "+x" THEN "Number"
                  ELSE IF op = "-x" THEN (IF l = "Int" THEN "Int" ELSE "Number") ELSE l
  <2>1. e = Typed(t, coerce(l, t), None) /\ t \in NumericTypes BY <1>4 DEF unary, NumericTypes
  <2>2. e.ty = t /\ e.left = coerce(l, t) /\ coerce(l, t) # Illegal BY <2>1 DEF Typed
  <2>3. a \in Held(t) \cup {Throw}
    <3> HIDE DEF e, t
    <3> QED BY <2>1, <2>2, CoercedIsHeld DEF MachineTypes
  <2>4. t \in OperandTypes \ {"Void"} BY <2>1, TypesOfOperands DEF MachineTypes
  <2> HIDE DEF a, e
  <2>5. CASE a # Throw
    <3>1. a \in Held(t) /\ Plain(a) BY <2>3, <2>4, <2>5, HeldIsPlain
    <3>2. \/ t = "Number" /\ a[1] = "Number" /\ a[2] \in Numbers
          \/ t \in {"Int", "UInt"} /\ a[1] = t /\ a[2] \in Int
      BY <2>1, <3>1, HeldValues, HalfIsPositive DEF NumericTypes, Ints, UInts
    <3>3. CASE op = "~"
      <4>1. Emit(c, a, b) = Wrapped("Int", -a[2] - 1) BY <1>0, <1>4, <3>1, <3>3 DEF Emit, Plain
      <4> QED BY <2>1, <2>2, <3>2, <3>3, <4>1, WrappedIsWord DEF a, e, MachineTypes
    <3>4. CASE op = "+x"
      <4>1. Emit(c, a, b) = a BY <1>0, <1>4, <3>1, <3>4 DEF Emit, Plain
      <4> QED BY <2>1, <2>2, <3>1, <4>1 DEF a, e, MachineTypes
    <3>5. CASE op = "-x"
      <4>1. Emit(c, a, b) = IF a[1] = "Int" THEN Wrapped("Int", -a[2]) ELSE <<"Number", Negate(a[2])>>
        BY <1>0, <1>4, <3>1, <3>5 DEF Emit, Plain
      <4>2. CASE t = "Int" BY <2>1, <2>2, <3>2, <4>1, <4>2, WrappedIsWord DEF a, e, MachineTypes
      <4>3. CASE t = "Number" BY <2>1, <2>2, <3>2, <4>1, <4>3, Arithmetic, HeldValues DEF a, e, MachineTypes
      <4> QED BY <3>5, <4>2, <4>3
    <3>6. CASE op \in {"++", "--"}
      <4> DEFINE one == IF op = "++" THEN 1 ELSE -1
      <4>1. Emit(c, a, b) = IF a[1] = "Number" THEN <<"Number", Plus(a[2], Fin(2 * one))>>
                            ELSE Wrapped(a[1], a[2] + one)
        BY <1>0, <1>4, <3>1, <3>6 DEF Emit, Plain
      <4>2. one \in Int /\ Fin(2 * one) \in Numbers BY DEF Fin, Numbers
      <4> HIDE DEF one
      <4>3. CASE t = "Number" BY <2>1, <2>2, <3>2, <4>1, <4>2, <4>3, Arithmetic, HeldValues DEF a, e, MachineTypes
      <4>4. CASE t # "Number"
        <5>1. a[2] + one \in Int BY <3>2, <4>2, <4>4
        <5> QED BY <2>1, <2>2, <3>2, <4>1, <4>4, <5>1, WrappedIsWord DEF a, e, MachineTypes
      <4> QED BY <4>3, <4>4
    <3> QED BY <1>4, <3>3, <3>4, <3>5, <3>6
  <2>6. CASE a = Throw BY <1>2, <2>1, <2>2, <2>6 DEF a, e, MachineTypes
  <2> QED BY <2>5, <2>6
<1>5. CASE op \in {"typeof", "void"}
  <2> DEFINE t == IF op = "typeof" THEN "String" ELSE "Any"
  <2>1. e = Typed(t, coerce_to_any(l), None) BY <1>5 DEF unary
  <2>2. e.ty = t /\ e.left = coerce_to_any(l) BY <2>1 DEF Typed
  <2>3. a \in Held("Any") \/ a \in Held("Null")
    <3> HIDE DEF e, t
    <3> QED BY <1>1, <2>2 DEF coerce_to_any, Yields
  <2> HIDE DEF a, e
  <2>4. Plain(a) /\ box_value(a) \in Boxes BY <2>3, TypesOfOperands, HeldIsPlain, BoxedIsBox
  <2>5. Emit(c, a, b) = IF op = "typeof" THEN <<"String", Str(any_typeof(box_value(a)))>>
                        ELSE <<"Any", Undefined>>
    BY <1>0, <1>5, <2>4 DEF Emit, Plain
  <2>6. <<"String", Str(any_typeof(box_value(a)))>> \in Held("String")
    BY <2>4, BoxesAreRead, HeldValues DEF Str, Strings
  <2>7. <<"Any", Undefined>> \in Held("Any") BY HeldValues DEF Boxes
  <2> QED BY <1>5, <2>2, <2>5, <2>6, <2>7 DEF a, e
<1> QED BY <1>3, <1>4, <1>5 DEF UnaryOps

(* Type tests and casts.                                                   *)
LEMMA EmitTypeOps ==
  ASSUME NEW op \in TypeOps, NEW l \in OperandTypes \ {"Void"}, NEW t \in VariableTypes \ {"Any"},
         NEW x \in Held(l), NEW b, Plain(b),
         NEW e, e = (IF op = "cast" THEN cast_call(l, t) ELSE is_as(op, l, t)), Illegal # e.left,
         NEW c, c.op = op, c.from = l, c.target = t, c.ty = e.ty,
         op = "as" => t \notin {"Function", "Socket", "Namespace"},
         op = "cast" /\ l \notin NumericTypes \cup {"Any", t} =>
           /\ t \notin {"Int", "UInt"}
           /\ t = "Number" => l \in {"String", "Null"}
  PROVE  /\ c.ty \in OperandTypes \ {"Void"}
         /\ Emit(c, convert(e.left, x), b) \in Passing(c.ty) \cup {Throw}
<1> DEFINE a == convert(e.left, x)
<1>0. c.op \notin Logical /\ c.op \notin Choices \cup Bitwise32 \cup {">>>"} \cup Relational
  BY DEF TypeOps, Logical, Choices, Bitwise32, Relational
<1>1. Yields(l, x) BY ConversionsYield
<1>2. t \in OperandTypes \ {"Void"} BY TypesOfOperands
<1>3. CASE op \in {"is", "as"}
  <2>1. e.left = coerce_to_any(l) BY <1>3 DEF is_as, Typed
  <2>2. a \in Held("Any") \/ a \in Held("Null") BY <1>1, <2>1 DEF coerce_to_any, Yields
  <2> HIDE DEF a
  <2>3. Plain(a) /\ box_value(a) \in Boxes BY <2>2, TypesOfOperands, HeldIsPlain, BoxedIsBox
  <2>4. CASE op = "is"
    <3>1. c.ty = "Boolean" BY <2>4 DEF is_as, Typed
    <3>2. Emit(c, a, b) = Bool(is_value(box_value(a), t)) BY <1>0, <2>3, <2>4 DEF Emit, Plain
    <3>3. is_value(box_value(a), t) \in BOOLEAN BY <2>3, TestedTypes
    <3>4. Emit(c, a, b) \in Held("Boolean") BY <3>2, <3>3, HeldValues DEF Bool
    <3> QED BY <3>1, <3>4, TypesOfOperands DEF a, Passing, MachineTypes
  <2>5. CASE op = "as"
    <3>1. c.ty = IF t \in MachineTypes THEN "Any" ELSE t BY <2>5 DEF is_as, Typed
    <3>2. Emit(c, a, b) = as_value(box_value(a), t) BY <1>0, <2>3, <2>5 DEF Emit, Plain
    <3>3. as_value(box_value(a), t) \in Held(c.ty) BY <2>3, <2>5, <3>1, TestedTypes
    <3> QED BY <1>2, <3>1, <3>2, <3>3, TypesOfOperands DEF a, Passing
  <2> QED BY <1>3, <2>4, <2>5
<1>4. CASE op = "cast"
  <2>1. t \in MachineTypes \cup {"String"} \cup ClassTypes \cup {"I"} BY <1>4 DEF cast_call, Typed
  <2>2. c.ty = t BY <1>4 DEF cast_call, Typed
  <2>3. x \in Passing(l) /\ Plain(x) BY HeldIsPlain DEF Passing
  <2>4. CASE conversion(l, t) = None
    <3>1. e.left = None BY <1>4, <2>1, <2>4 DEF cast_call, Typed, ClassTypes, MachineTypes, NumericTypes
    <3>2. a = x BY <1>1, <3>1 DEF Yields
    <3>3. Emit(c, a, b) = x BY <1>0, <1>4, <2>3, <2>4, <3>2 DEF Emit, emit_cast, Plain
    <3>4. coerce(l, t) = None /\ None # Illegal BY <2>4 DEF coerce, None, Illegal
    <3>5. convert(coerce(l, t), x) \in Passing(t) \cup {Throw} BY <2>3, <3>4, CoercedIsPassing
    <3> QED BY <1>1, <1>2, <2>2, <3>3, <3>4, <3>5 DEF a, Yields
  <2>5. CASE conversion(l, t) # None /\ t \in MachineTypes \cup {"String"}
    <3>1. e.left = None BY <1>4, <2>5 DEF cast_call, Typed, ClassTypes, MachineTypes, NumericTypes
    <3>2. a = x BY <1>1, <3>1 DEF Yields
    <3>3. Emit(c, a, b) = convert(<<"To", t>>, x)
      BY <1>0, <1>4, <2>3, <2>5, <3>2 DEF Emit, emit_cast, Plain
    <3>4. l # t BY <2>5 DEF conversion
    <3>5. CASE t = "Boolean" BY <1>1, <1>2, <2>2, <3>3, <3>5 DEF a, Yields, Passing
    <3>6. CASE t = "String" BY <1>1, <1>2, <2>2, <3>3, <3>6 DEF a, Yields, Passing
    <3>7. CASE t \in NumericTypes
      <4>1. l \in NumericTypes \cup {"Any"} \/ (t = "Number" /\ l \in {"String", "Null"})
        BY <1>4, <3>4, <3>7 DEF NumericTypes
      <4>2. convert(<<"To", t>>, x) \in Held(t) BY <1>1, <3>7, <4>1 DEF Yields
      <4> QED BY <1>2, <2>2, <3>3, <4>2 DEF a, Passing
    <3> QED BY <2>5, <3>5, <3>6, <3>7 DEF MachineTypes
  <2>6. CASE conversion(l, t) # None /\ t \in ClassTypes \cup {"I"}
    <3>1. t \in PointerTypes /\ t \notin MachineTypes \cup {"String"}
      BY <2>6 DEF PointerTypes, NullableTypes, ClassTypes, MachineTypes, NumericTypes
    <3>2. e.left = coerce_to_any(l) BY <1>4, <2>6, <3>1 DEF cast_call, Typed
    <3>3. l # "Null"
      <4>1. conversion("Null", t) = None BY <2>6 DEF conversion, NullableTypes
      <4> QED BY <2>6, <4>1
    <3>4. a \in Held("Any")
      <4>1. e.left = IF l = "Any" THEN None ELSE <<"To", "Any">> BY <3>2, <3>3 DEF coerce_to_any
      <4> QED BY <1>1, <4>1 DEF Yields
    <3> HIDE DEF a
    <3>5. "Any" \in OperandTypes \ {"Void"} BY TypesOfOperands
    <3>6. Plain(a) /\ Yields("Any", a) BY <3>4, <3>5, HeldIsPlain, ConversionsYield
    <3>7. Emit(c, a, b) = convert(<<"FromAny", t>>, a)
      BY <1>0, <1>4, <2>6, <3>1, <3>6 DEF Emit, emit_cast, Plain
    <3>8. convert(<<"FromAny", t>>, a) \in Held(t) \cup {Throw} BY <3>1, <3>6 DEF Yields
    <3> QED BY <1>2, <2>2, <3>7, <3>8 DEF a, Passing
  <2> QED BY <2>1, <2>4, <2>5, <2>6
<1> QED BY <1>3, <1>4 DEF TypeOps

(* The right operand, where there is one.                                  *)
RightType(s) == IF IsBinary(s) THEN s.r ELSE "Null"

(* The result of an expression has the type the checker gave it.           *)
LEMMA EmitYields ==
  ASSUME IsStatement(stmt), IsLegal(assign(stmt)), ~gated(assign(stmt)),
         ~UncheckedOperand, ~MisshapenValue,
         NEW b1 \in ValuesOf(stmt.l), NEW b2 \in ValuesOf(RightType(stmt))
  PROVE  /\ assign(stmt).ty \in OperandTypes \ {"Void"}
         /\ Emit(assign(stmt), convert(assign(stmt).left, Operand(b1, stmt.l)),
                 convert(assign(stmt).right, Operand(b2, RightType(stmt))))
              \in Passing(assign(stmt).ty) \cup {Throw}
<1> DEFINE c == assign(stmt)
           e == expr(stmt)
           op == stmt.op
           l == stmt.l
           r == RightType(stmt)
           x == Operand(b1, l)
           y == Operand(b2, r)
<1>1. /\ c.op = op /\ c.ty = e.ty /\ c.left = e.left /\ c.right = e.right
      /\ c.from = l /\ c.target = stmt.r /\ Illegal \notin {e.left, e.right}
  BY DEF assign, IsLegal
<1>2. /\ op \in BinaryOps \cup UnaryOps \cup TypeOps \cup {"="} /\ l \in OperandTypes
      /\ stmt.r = "none" <=> op \in UnaryOps \cup {"="}
      /\ stmt.r \in OperandTypes \cup {"none"}
      /\ op \in TypeOps => stmt.r \in VariableTypes \ {"Any"}
  BY DEF IsStatement
<1>3. l # "Void" /\ (op \notin TypeOps => stmt.r # "Void") BY DEF UncheckedOperand
<1>4. BinaryOps \cap (UnaryOps \cup TypeOps \cup {"="}) = {}
  BY DEF BinaryOps, UnaryOps, TypeOps, Logical, Choices, Bitwise32, Relational, Equality
<1>5. IsBinary(stmt) <=> op \in BinaryOps BY <1>2, <1>4 DEF IsBinary
<1>6. r \in OperandTypes \ {"Void"}
  <2>1. "Null" \in OperandTypes \ {"Void"} BY TypesOfOperands
  <2> QED BY <1>2, <1>3, <1>4, <1>5, <2>1 DEF RightType
<1>7. x \in Held(l) /\ y \in Held(r) BY <1>2, <1>3, <1>6, OperandIsHeld
<1>8. op \notin BinaryOps => e.right = None
  <2>1. CASE op \in UnaryOps BY <1>2, <2>1 DEF expr, unary, UnaryOps, Typed
  <2>2. CASE op \in {"is", "as"} BY <2>2 DEF expr, is_as, UnaryOps, Typed
  <2>3. CASE op = "cast" BY <2>3 DEF expr, cast_call, UnaryOps, Typed
  <2>4. CASE op = "=" BY <2>4 DEF expr, UnaryOps, Typed
  <2> QED BY <1>2, <2>1, <2>2, <2>3, <2>4 DEF TypeOps
<1>9. op \notin BinaryOps => Plain(convert(e.right, y))
  <2>1. Yields(r, y) /\ Plain(y) BY <1>6, <1>7, ConversionsYield, HeldIsPlain
  <2> QED BY <1>8, <2>1 DEF Yields
<1>10. op \notin UnaryOps \cup TypeOps \cup {"="} => e = binary_typed(op, l, r)
  BY <1>2, <1>5 DEF expr, TypeOps, RightType
<1>11. op \in UnaryOps => e = unary(op, l) BY DEF expr, UnaryOps
<1> HIDE DEF x, y, c
<1>12. CASE op \in BinaryOps
  <2>0. e = binary_typed(op, l, r) BY <1>4, <1>10, <1>12
  <2>1. op # "instanceof" BY <1>1 DEF gated, c
  <2>2. op = "+" => ("Null" \in {l, r} => "String" \in {l, r})
    BY <1>5, <1>12 DEF MisshapenValue, RightType
  <2> HIDE DEF e, op, l, r
  <2>3. CASE op \in {"-", ">>>"} \cup Bitwise32
    BY <1>1, <1>2, <1>3, <1>6, <1>7, <2>0, <2>3, EmitArithmetic, TypesOfOperands
       DEF x, y, c, MachineTypes, Passing, l, r
  <2>4. CASE op \in Relational \cup Equality
    BY <1>1, <1>2, <1>3, <1>6, <1>7, <2>0, <2>4, EmitComparison, TypesOfOperands
       DEF x, y, c, MachineTypes, Passing, l, r
  <2>5. CASE op = "+"
    BY <1>1, <1>2, <1>3, <1>6, <1>7, <2>0, <2>2, <2>5, EmitAddition, TypesOfOperands
       DEF x, y, c, MachineTypes, NumericTypes, Passing, l, r
  <2>6. CASE op \in Logical
    BY <1>1, <1>2, <1>3, <1>6, <1>7, <2>0, <2>6, EmitLogical
       DEF x, y, c, Passing, l, r
  <2> QED BY <1>12, <2>1, <2>3, <2>4, <2>5, <2>6 DEF BinaryOps
<1>13. CASE op \in UnaryOps
  <2>1. op \in {"++", "--"} => l \in NumericTypes
    <3>1. SUFFICES ASSUME op \in {"++", "--"}, l \notin NumericTypes PROVE FALSE OBVIOUS
    <3>2. e.left = coerce(l, "Number") BY <1>11, <1>13, <3>1 DEF unary, Typed
    <3>3. coerce(l, "Number") # None
      BY <1>3, <3>1 DEF coerce, conversion, None, Illegal, NumericTypes, Widens, NullableTypes, ClassTypes
    <3> QED BY <1>1, <3>1, <3>2, <3>3 DEF gated, c
  <2> DEFINE b == convert(e.right, y)
  <2>2. Plain(b) BY <1>4, <1>9, <1>13
  <2>3. e = unary(op, l) BY <1>11, <1>13
  <2> HIDE DEF e, op, l, b
  <2>4. /\ e.ty \in MachineTypes \cup {"String", "Any"}
        /\ Emit(c, convert(e.left, x), b) \in Held(e.ty) \cup {Throw}
    BY <1>1, <1>2, <1>3, <1>7, <1>13, <2>1, <2>2, <2>3, EmitUnary
  <2> QED BY <1>1, <2>4, TypesOfOperands DEF x, y, c, b, Passing, l, r
<1>14. CASE op \in TypeOps
  <2> DEFINE b == convert(e.right, y)
             t == stmt.r
  <2>1. Plain(b) BY <1>4, <1>9, <1>14
  <2>2. e = IF op = "cast" THEN cast_call(l, t) ELSE is_as(op, l, t)
    BY <1>14 DEF expr, UnaryOps, TypeOps
  <2>3. t \in VariableTypes \ {"Any"} BY <1>2, <1>14
  <2>4. op = "as" => t \notin {"Function", "Socket", "Namespace"} BY DEF MisshapenValue
  <2>5. op = "cast" /\ l \notin NumericTypes \cup {"Any", t} =>
           /\ t \notin {"Int", "UInt"}
           /\ t = "Number" => l \in {"String", "Null"}
    BY DEF UncheckedOperand
  <2> HIDE DEF e, op, l, b, t
  <2>6. /\ c.ty \in OperandTypes \ {"Void"}
        /\ Emit(c, convert(e.left, x), b) \in Passing(c.ty) \cup {Throw}
    <3>1. Illegal # e.left /\ l \in OperandTypes \ {"Void"} /\ c.target = t BY <1>1, <1>2, <1>3 DEF t
    <3> QED BY <1>1, <1>7, <1>14, <2>1, <2>2, <2>3, <2>4, <2>5, <3>1, EmitTypeOps
  <2> QED BY <1>1, <2>6 DEF x, y, c, b, l, r
<1>15. CASE op = "="
  <2>1. e = Typed(l, None, None) BY <1>15 DEF expr, UnaryOps
  <2>2. e.ty = l /\ e.left = None BY <2>1 DEF Typed
  <2> DEFINE b == convert(e.right, y)
  <2>3. Plain(b) BY <1>4, <1>9, <1>15
  <2>4. c.op \notin Logical /\ c.op \notin Choices \cup Bitwise32 \cup {">>>"} \cup Relational
    BY <1>1, <1>15 DEF Logical, Choices, Bitwise32, Relational
  <2> HIDE DEF e, op, l, b
  <2>5. Yields(l, x) /\ Plain(x) BY <1>2, <1>3, <1>7, ConversionsYield, HeldIsPlain
  <2>6. Emit(c, x, b) = x BY <1>1, <1>15, <2>3, <2>4, <2>5 DEF Emit, Plain
  <2>7. convert(e.left, x) = x BY <2>2, <2>5 DEF Yields
  <2> QED BY <1>1, <1>2, <1>3, <1>7, <2>2, <2>6, <2>7 DEF x, y, c, b, l, r, Passing
<1> QED BY <1>2, <1>12, <1>13, <1>14, <1>15

-----------------------------------------------------------------------------
(* The steps of a statement. *)

(* Each stage has kept what the earlier ones computed.                     *)
CompiledInv ==
  /\ stage \in {"source", "checked", "rejected", "gated", "lowered", "stored", "done"}
  /\ stmt \in Statements
  /\ stage # "source" => code = assign(stmt)
  /\ stage \in {"checked", "lowered", "stored", "done"} => IsLegal(code)
  /\ stage \in {"lowered", "stored", "done"} => ~gated(code)
ExecutedInv ==
  /\ stage \in {"stored", "done"} =>
       /\ vals[1] \in ValuesOf(stmt.l) /\ vals[2] \in ValuesOf(RightType(stmt)) /\ vals = <<vals[1], vals[2]>>
       /\ slot = store_local(code, Result(code, stmt.l, RightType(stmt), vals))
  /\ stage = "done" => seen = load_local(code, slot)
IInv == CompiledInv /\ ExecutedInv

(* No statement has been compiled at first.                                *)
LEMMA InitHolds == Init => IInv
BY DEF Init, IInv, CompiledInv, ExecutedInv

(* Each stage adds its own result.                                         *)
LEMMA NextKeeps == IInv /\ [Next]_vars => IInv'
<1> SUFFICES ASSUME IInv, [Next]_vars PROVE IInv' OBVIOUS
<1> USE DEF IInv, CompiledInv, ExecutedInv
<1>1. CASE Check BY <1>1 DEF Check
<1>2. CASE Lower BY <1>2 DEF Lower
<1>3. CASE Execute
  <2>1. PICK b1 \in ValuesOf(stmt.l), b2 \in (IF IsBinary(stmt) THEN ValuesOf(stmt.r) ELSE {Null}) :
          /\ vals' = <<b1, b2>>
          /\ slot' = store_local(code, Result(code, stmt.l, IF IsBinary(stmt) THEN stmt.r ELSE "Null", <<b1, b2>>))
    BY <1>3 DEF Execute
  <2>2. b2 \in ValuesOf(RightType(stmt)) BY <2>1 DEF RightType, ValuesOf
  <2>3. slot' = store_local(code, Result(code, stmt.l, RightType(stmt), vals')) BY <2>1 DEF RightType
  <2>4. vals'[1] = b1 /\ vals'[2] = b2 BY <2>1
  <2>5. stage = "lowered" /\ stage' = "stored" /\ UNCHANGED <<stmt, code, seen>> BY <1>3 DEF Execute
  <2>6. RightType(stmt)' = RightType(stmt) BY <2>5 DEF RightType, IsBinary
  <2> QED BY <2>1, <2>2, <2>3, <2>4, <2>5, <2>6
<1>4. CASE Read
  <2>1. stage = "stored" /\ stage' = "done" /\ seen' = load_local(code, slot) /\ UNCHANGED <<stmt, code, vals, slot>>
    BY <1>4 DEF Read
  <2>2. RightType(stmt)' = RightType(stmt) BY <2>1 DEF RightType, IsBinary
  <2> QED BY <2>1, <2>2
<1>5. CASE UNCHANGED vars
  <2>1. UNCHANGED <<stage, stmt, code, vals, slot, seen>> BY <1>5 DEF vars
  <2>2. RightType(stmt)' = RightType(stmt) BY <2>1 DEF RightType, IsBinary
  <2> QED BY <2>1, <2>2
<1> QED BY <1>1, <1>2, <1>3, <1>4, <1>5 DEF Next

(* What a statement has computed is what its stages computed, in every     *)
(* state.                                                                  *)
LEMMA AlwaysComputed == Spec => []IInv
<1>1. Init => IInv BY InitHolds
<1>2. IInv /\ [Next]_vars => IInv' BY NextKeeps
<1> QED BY <1>1, <1>2, PTL DEF Spec

(* The variable of a statement has a type.                                 *)
LEMMA VariableIsTyped ==
  ASSUME IsStatement(stmt), assign(stmt).ty \in OperandTypes \ {"Void"}
  PROVE  /\ assign(stmt).to \in VariableTypes
         /\ assign(stmt).last = coerce(assign(stmt).ty, assign(stmt).to)
<1>1. stmt.to \in VariableTypes \cup {"auto"} BY DEF IsStatement
<1>2. "Any" \in VariableTypes /\ "auto" \notin OperandTypes
  BY DEF OperandTypes, VariableTypes, MachineTypes, NumericTypes, PointerTypes, NullableTypes, ClassTypes, VectorTypes
<1>3. assign(stmt).ty = expr(stmt).ty BY DEF assign
<1>4. assign(stmt).to = IF stmt.to = "auto" THEN (IF expr(stmt).ty = "Null" THEN "Any" ELSE expr(stmt).ty)
                        ELSE stmt.to
  BY DEF assign
<1>5. expr(stmt).ty \in VariableTypes \cup {"Null"} BY <1>3, TypesOfOperands
<1> QED BY <1>1, <1>2, <1>4, <1>5 DEF assign

(* Type soundness of a finished statement.                                 *)
LEMMA ComputedKeepsType == IInv => ValuesKeepTheirType
<1> SUFFICES ASSUME IInv, stage = "done", ~UncheckedOperand, ~MisshapenValue, seen # Throw
             PROVE  seen \in Held(code.to)
  BY DEF ValuesKeepTheirType
<1>1. /\ stmt \in Statements /\ code = assign(stmt) /\ IsLegal(code) /\ ~gated(code)
      /\ vals[1] \in ValuesOf(stmt.l) /\ vals[2] \in ValuesOf(RightType(stmt))
      /\ slot = store_local(code, Result(code, stmt.l, RightType(stmt), vals))
      /\ seen = load_local(code, slot)
  BY DEF IInv, CompiledInv, ExecutedInv
<1>2. IsStatement(stmt) BY <1>1, TypingAssumption
<1> DEFINE v == Emit(code, convert(code.left, Operand(vals[1], stmt.l)),
                     convert(code.right, Operand(vals[2], RightType(stmt))))
<1>3. code.ty \in OperandTypes \ {"Void"} /\ v \in Passing(code.ty) \cup {Throw}
  BY <1>1, <1>2, EmitYields
<1>4. code.to \in VariableTypes /\ code.last = coerce(code.ty, code.to)
  BY <1>1, <1>2, <1>3, VariableIsTyped
<1>5. code.last # Illegal BY <1>1 DEF IsLegal
<1>6. slot = store_local(code, convert(code.last, v)) BY <1>1 DEF Result
<1> HIDE DEF v
<1>7. convert(code.last, v) \in Passing(code.to) \cup {Throw}
  <2>1. CASE v = Throw BY <2>1 DEF convert
  <2>2. CASE v # Throw BY <1>3, <1>4, <1>5, <2>2, CoercedIsPassing
  <2> QED BY <2>1, <2>2
<1> QED BY <1>1, <1>4, <1>6, <1>7, StoredIsHeld

(* A variable read back holds a value of its static type, in the shape and *)
(* the range that code compiled from the type relies on: what the backend  *)
(* computes, stores and loads for a statement the checker accepts is typed,*)
(* for every word width and all operands (llvm.rs, check/expr.rs).         *)
THEOREM TypesArePreserved == Spec => []ValuesKeepTheirType
<1>1. IInv => ValuesKeepTheirType BY ComputedKeepsType
<1> QED BY <1>1, AlwaysComputed, PTL

-----------------------------------------------------------------------------
(* Equality. *)

(* Boxing an operand gives back the value it came from.                    *)
LEMMA BoxOfOperand ==
  ASSUME NEW t \in OperandTypes \ {"Void"}, NEW b \in ValuesOf(t)
  PROVE  /\ box_value(Operand(b, t)) = b
         /\ t \notin {"Any", "Null"} => Operand(b, t) = <<ShapeOf(t), IF b = Null THEN Nil ELSE b[2]>>
         /\ t \in MachineTypes => b[1] = t /\ b # Null
<1>1. CASE t \in MachineTypes
  <2>1. b[1] = t /\ b = Boxed(t, b[2]) /\ b # Null
    BY <1>1 DEF ValuesOf, MachineTypes, NumericTypes, Boxed, Null
  <2>2. Operand(b, t) = <<t, b[2]>> /\ ShapeOf(t) = t
    BY <1>1, <2>1 DEF Operand, ShapeOf, MachineTypes, NumericTypes, ClassTypes, VectorTypes
  <2>3. t \notin Pointers /\ t # "Any" BY <1>1, PointerShapes DEF MachineTypes, NumericTypes, References_
  <2>4. box_value(<<t, b[2]>>) = Boxed(t, b[2])
    BY <1>1, <2>3 DEF box_value, Tag, MachineTypes, NumericTypes
  <2> QED BY <2>1, <2>2, <2>4
<1>2. CASE t \in PointerTypes
  <2> DEFINE p == IF b = Null THEN Nil ELSE b[2]
  <2>1. Operand(b, t) = <<ShapeOf(t), p>> /\ t \notin {"Any", "Null"} \cup MachineTypes
    BY <1>2 DEF Operand, PointerTypes, NullableTypes, ClassTypes, VectorTypes, MachineTypes, NumericTypes
  <2>2. ShapeOf(t) \in Pointers /\ ShapeOf(t) # "Any" BY <1>2, PointerShapes DEF References_
  <2>3. box_value(<<ShapeOf(t), p>>) = IF p = Nil THEN Null ELSE Boxed(Tag(ShapeOf(t)), p)
    BY <2>2 DEF box_value
  <2>4. b = Null \/ (b[2] # Nil /\ b = Boxed(Tag(ShapeOf(t)), b[2]))
    <3>1. CASE t = "String"
      <4>1. \/ b = Null
            \/ \E s \in Texts : b = Boxed("String", Str(s))
        BY <3>1 DEF ValuesOf
      <4>2. Tag(ShapeOf(t)) = "String" BY <3>1 DEF Tag, ShapeOf, ClassTypes, VectorTypes
      <4> QED BY <4>1, <4>2 DEF Boxed, Str, Nil
    <3>2. CASE t # "String"
      <4>1. b \in ObjectsOf(t) \cup {Null}
        BY <1>2, <3>2 DEF ValuesOf, PointerTypes, NullableTypes, ClassTypes, VectorTypes
      <4> QED BY <1>2, <3>2, <4>1, ObjectsAreTagged
    <3> QED BY <3>1, <3>2
  <2> QED BY <2>1, <2>3, <2>4
<1>3. CASE t = "Any"
  <2>1. "Any" \notin Pointers BY PointerShapes DEF References_
  <2> QED BY <1>3, <2>1 DEF Operand, box_value, MachineTypes, NumericTypes
<1>4. CASE t = "Null"
  <2>1. b = Null /\ Operand(b, t) = <<"String", Nil>>
    BY <1>4 DEF ValuesOf, Operand, ShapeOf, ClassTypes, VectorTypes
  <2>2. "String" \in Pointers BY PointerShapes
  <2> QED BY <1>4, <2>1, <2>2 DEF box_value, MachineTypes, NumericTypes
<1> QED BY <1>1, <1>2, <1>3, <1>4 DEF OperandTypes, VariableTypes

(* == and === of two operands come down to the equality of their values.   *)
Compared(op, l, r, vs) == equality(Operand(vs[1], l), Operand(vs[2], r), op = "===")
Comparison(op, l, r) == [op |-> op, l |-> l, r |-> r, to |-> "auto", cell |-> FALSE]

(* Equality is true or false.                                              *)
LEMMA EqualityIsBoolean ==
  ASSUME NEW a, NEW b, NEW strict \in BOOLEAN
  PROVE  equality(a, b, strict) \in BOOLEAN
<1> DEFINE p == box_value(a)
           q == box_value(b)
<1>1. Compare("==", NumberOf(a), NumberOf(b)) \in BOOLEAN BY DEF Compare
<1>2. any_strict_equals(p, q) \in BOOLEAN BY DEF any_strict_equals, Compare, IsNumeric
<1>3. any_equals(p, q) \in BOOLEAN BY DEF any_equals, Compare
<1>4. equality(a, b, strict) \in {Compare("==", NumberOf(a), NumberOf(b)), a[2] = b[2],
                                  any_strict_equals(p, q), any_equals(p, q)}
  BY DEF equality
<1> HIDE DEF p, q
<1> QED BY <1>1, <1>2, <1>3, <1>4

(* The compiled comparison.                                                *)
LEMMA ComparisonIs ==
  ASSUME NEW op \in {"==", "==="}, NEW l \in OperandTypes \ {"Void"}, NEW r \in OperandTypes \ {"Void"},
         NEW vs, vs[1] \in ValuesOf(l), vs[2] \in ValuesOf(r)
  PROVE  Run(Comparison(op, l, r), vs)[2] = Compared(op, l, r, vs)
<1> DEFINE s == Comparison(op, l, r)
           c == assign(s)
           x == Operand(vs[1], l)
           y == Operand(vs[2], r)
           q == equality(x, y, op = "===")
<1>1. expr(s) = Typed("Boolean", None, None)
  BY DEF Comparison, expr, binary_typed, UnaryOps, Logical, Choices, Bitwise32, Relational
<1>2. s.to = "auto" /\ s.op = op /\ s.l = l /\ s.r = r /\ s.cell = FALSE BY DEF Comparison
<1>3. coerce("Boolean", "Boolean") = None BY DEF coerce, conversion
<1>4. /\ c.op = op /\ c.ty = "Boolean" /\ c.left = None /\ c.right = None
      /\ c.last = None /\ c.to = "Boolean" /\ c.cell = FALSE
  BY <1>1, <1>2, <1>3 DEF assign, Typed
<1>5. IsBinary(s) BY <1>2 DEF IsBinary, UnaryOps, TypeOps
<1>6. x \in Held(l) /\ y \in Held(r) BY OperandIsHeld
<1>7. Plain(x) /\ Plain(y) /\ Yields(l, x) /\ Yields(r, y)
  <2> HIDE DEF x, y
  <2> QED BY <1>6, HeldIsPlain, ConversionsYield
<1> HIDE DEF c, s, x, y
<1>8. q \in BOOLEAN
  <2>1. (op = "===") \in BOOLEAN OBVIOUS
  <2> QED BY <2>1, EqualityIsBoolean
<1>9. Emit(c, x, y) = Bool(q)
  <2>1. c.op \notin Logical /\ c.op \notin Choices \cup Bitwise32 \cup {">>>"} \cup Relational
    BY <1>4 DEF Logical, Choices, Bitwise32, Relational
  <2>2. CASE op = "=="
    <3> DEFINE loose == equality(x, y, FALSE)
    <3>1. Emit(c, x, y) = Bool(loose = TRUE) BY <1>4, <1>7, <2>1, <2>2 DEF Emit, Plain
    <3>2. loose \in BOOLEAN BY EqualityIsBoolean
    <3>3. (op = "===") = FALSE BY <2>2
    <3>4. q = loose BY <3>3
    <3> HIDE DEF loose, q
    <3>5. (loose = TRUE) = q BY <3>2, <3>4
    <3> QED BY <3>1, <3>5
  <2>3. CASE op = "==="
    <3> DEFINE strict == equality(x, y, TRUE)
    <3>1. Emit(c, x, y) = Bool(strict = TRUE) BY <1>4, <1>7, <2>1, <2>3 DEF Emit, Plain
    <3>2. strict \in BOOLEAN BY EqualityIsBoolean
    <3>3. (op = "===") = TRUE BY <2>3
    <3>4. q = strict BY <3>3
    <3> HIDE DEF strict, q
    <3>5. (strict = TRUE) = q BY <3>2, <3>4
    <3> QED BY <3>1, <3>5
  <2> QED BY <2>2, <2>3
<1> DEFINE v == Bool(q)
<1>10. v \in Held("Boolean") /\ Plain(v) /\ Yields("Boolean", v) /\ v[2] = q
  <2>1. v \in Held("Boolean") /\ v[2] = q BY <1>8, HeldValues DEF Bool
  <2>2. "Boolean" \in OperandTypes \ {"Void"} BY TypesOfOperands DEF MachineTypes
  <2> HIDE DEF v
  <2> QED BY <2>1, <2>2, HeldIsPlain, ConversionsYield
<1>11. v[1] = "Boolean" /\ v = <<"Boolean", q>> BY DEF Bool
<1> HIDE DEF v, q
<1>12. Result(c, l, r, vs) = v
  <2>1. convert(c.left, x) = x /\ convert(c.right, y) = y /\ convert(c.last, v) = v BY <1>4, <1>7, <1>10 DEF Yields
  <2> QED BY <1>9, <2>1 DEF Result, x, y, v
<1>13. ShapeOf("Boolean") = "Boolean" BY DEF ShapeOf, ClassTypes, VectorTypes
<1>14. store_local(c, v) = v BY <1>4, <1>10, <1>11, <1>13 DEF store_local, Plain
<1>15. load_local(c, v) = Rewrap(v, "Boolean") BY <1>4, <1>11 DEF load_local
<1>16. Rewrap(v, "Boolean") = v BY <1>11, <1>10, <1>13 DEF Rewrap
<1>17. Run(s, vs) = v BY <1>2, <1>5, <1>12, <1>14, <1>15, <1>16 DEF Run, c
<1> QED BY <1>10, <1>17 DEF Compared, s, q, x, y


(* Numbers are equal to themselves, and equality has two sides.            *)
LEMMA EqualNumbers ==
  ASSUME NEW x, NEW y
  PROVE  Compare("==", x, y) <=> (x = y /\ x # NaN)
BY DEF Compare

(* The boxed equalities have two sides, and strictly equal boxes are equal.*)
LEMMA BoxesCompare ==
  ASSUME NEW p \in Boxes, NEW q \in Boxes
  PROVE  /\ any_strict_equals(p, q) <=> any_strict_equals(q, p)
         /\ any_equals(p, q) <=> any_equals(q, p)
         /\ any_strict_equals(p, q) => any_equals(p, q)
<1>1. any_strict_equals(p, q) <=> any_strict_equals(q, p) BY EqualNumbers DEF any_strict_equals
<1>2. any_equals(p, q) <=> any_equals(q, p)
  <2>1. {p[1], q[1]} = {q[1], p[1]} OBVIOUS
  <2> QED BY <2>1, EqualNumbers DEF any_equals
<1>3. ASSUME any_strict_equals(p, q) PROVE any_equals(p, q)
  <2>1. CASE IsNumeric(p) \/ IsNumeric(q)
    <3>1. /\ p[1] \in NumericTypes /\ q[1] \in NumericTypes
          /\ numeric(p) = numeric(q) /\ numeric(p) # NaN
      BY <1>3, <2>1, EqualNumbers DEF any_strict_equals, IsNumeric
    <3>2. any_to_number(p) = numeric(p) /\ any_to_number(q) = numeric(q)
      BY <3>1 DEF any_to_number, IsNumeric, NumericTypes
    <3>3. {p[1], q[1]} \cap Empty = {} /\ p[1] \in MachineTypes
      BY <3>1 DEF Empty, NumericTypes, MachineTypes
    <3>4. any_equals(p, q) = Compare("==", any_to_number(p), any_to_number(q)) BY <3>3 DEF any_equals
    <3> QED BY <3>1, <3>2, <3>4, EqualNumbers
  <2>2. CASE ~(IsNumeric(p) \/ IsNumeric(q))
    <3>1. /\ p[1] = q[1] /\ p[2] = q[2]
          /\ p[1] \in {"Undefined", "Null", "Boolean", "Object", "Array", "Vector", "String"}
      BY <1>3, <2>2 DEF any_strict_equals
    <3>2. CASE p[1] = "Boolean"
      <4>1. any_equals(p, q) = Compare("==", any_to_number(p), any_to_number(q))
        BY <3>1, <3>2 DEF any_equals, Empty, MachineTypes
      <4>2. any_to_number(p) = any_to_number(q) /\ any_to_number(p) # NaN
        BY <3>1, <3>2 DEF any_to_number, IsNumeric, NumericTypes, Fin, NaN
      <4> QED BY <4>1, <4>2, EqualNumbers
    <3>3. CASE p[1] # "Boolean" BY <3>1, <3>3 DEF any_equals, Empty, MachineTypes, NumericTypes
    <3> QED BY <3>2, <3>3
  <2> QED BY <2>1, <2>2
<1> QED BY <1>1, <1>2, <1>3

(* A box other than NaN equals itself, strictly where it has an identity.  *)
LEMMA BoxEqualsItself ==
  ASSUME NEW b \in Boxes, b # Boxed("Number", NaN)
  PROVE  /\ any_equals(b, b)
         /\ b[1] \in WithoutStrictIdentity \/ any_strict_equals(b, b)
<1>1. b = Boxed(b[1], b[2]) BY BoxCases
<1>2. CASE IsNumeric(b)
  <2>1. b[1] \in NumericTypes BY <1>2 DEF IsNumeric
  <2>2. numeric(b) # NaN BY <1>1, <2>1 DEF numeric, NumericTypes, Fin, NaN
  <2>3. any_to_number(b) = numeric(b) BY <1>2, <2>1 DEF any_to_number, NumericTypes
  <2>4. any_equals(b, b) = Compare("==", any_to_number(b), any_to_number(b))
    BY <2>1 DEF any_equals, Empty, NumericTypes, MachineTypes
  <2>5. any_strict_equals(b, b) BY <1>2, <2>2, EqualNumbers DEF any_strict_equals
  <2> QED BY <2>2, <2>3, <2>4, <2>5, EqualNumbers
<1>3. CASE b[1] = "Boolean"
  <2>1. any_to_number(b) # NaN BY <1>3 DEF any_to_number, IsNumeric, NumericTypes, Fin, NaN
  <2>2. any_equals(b, b) = Compare("==", any_to_number(b), any_to_number(b))
    BY <1>3 DEF any_equals, Empty, MachineTypes
  <2>3. any_strict_equals(b, b) BY <1>3 DEF any_strict_equals, IsNumeric, NumericTypes
  <2> QED BY <2>1, <2>2, <2>3, EqualNumbers
<1>4. CASE ~IsNumeric(b) /\ b[1] # "Boolean"
  <2>1. b[1] \in {"Undefined", "Null", "String"} \cup References_
    BY <1>4, BoxCases DEF IsNumeric, NumericTypes, Undefined, Null, Boxed
  <2>2. any_equals(b, b) BY <1>4, <2>1 DEF any_equals, Empty, MachineTypes, NumericTypes, References_
  <2>3. b[1] \in WithoutStrictIdentity \/ any_strict_equals(b, b)
    BY <1>4, <2>1 DEF any_strict_equals, WithoutStrictIdentity, References_
  <2> QED BY <2>2, <2>3
<1> QED BY <1>2, <1>3, <1>4


(* The equality of operands has two sides, and strict implies loose.       *)
LEMMA OperandsCompare ==
  ASSUME NEW a, NEW b, box_value(a) \in Boxes, box_value(b) \in Boxes
  PROVE  /\ equality(a, b, TRUE) <=> equality(b, a, TRUE)
         /\ equality(a, b, FALSE) <=> equality(b, a, FALSE)
         /\ equality(a, b, TRUE) => equality(a, b, FALSE)
<1> DEFINE p == box_value(a)
           q == box_value(b)
           numbers == {a[1], b[1]} \subseteq NumericTypes
           booleans == a[1] = "Boolean" /\ b[1] = "Boolean"
           pointers == {a[1], b[1]} \subseteq ByIdentity \cup {"String"}
<1>1. {a[1], b[1]} = {b[1], a[1]} OBVIOUS
<1>2. CASE numbers
  <2>1. /\ equality(a, b, TRUE) = Compare("==", NumberOf(a), NumberOf(b))
        /\ equality(a, b, FALSE) = Compare("==", NumberOf(a), NumberOf(b))
        /\ equality(b, a, TRUE) = Compare("==", NumberOf(b), NumberOf(a))
        /\ equality(b, a, FALSE) = Compare("==", NumberOf(b), NumberOf(a))
    BY <1>2 DEF equality, NumericTypes, ByIdentity
  <2> QED BY <2>1, EqualNumbers
<1>3. CASE booleans \/ pointers
  <2>1. /\ equality(a, b, TRUE) = (a[2] = b[2]) /\ equality(a, b, FALSE) = (a[2] = b[2])
        /\ equality(b, a, TRUE) = (b[2] = a[2]) /\ equality(b, a, FALSE) = (b[2] = a[2])
    BY <1>3 DEF equality, NumericTypes, ByIdentity
  <2> QED BY <2>1
<1>4. CASE ~numbers /\ ~booleans /\ ~pointers
  <2>1. /\ equality(a, b, TRUE) = any_strict_equals(p, q) /\ equality(a, b, FALSE) = any_equals(p, q)
        /\ equality(b, a, TRUE) = any_strict_equals(q, p) /\ equality(b, a, FALSE) = any_equals(q, p)
    BY <1>4 DEF equality
  <2> QED BY <2>1, BoxesCompare
<1> QED BY <1>2, <1>3, <1>4

(* An operand other than NaN equals itself, strictly where its kind has an *)
(* identity, whatever two static types it is compared under.               *)
LEMMA OperandEqualsItself ==
  ASSUME NEW l \in OperandTypes \ {"Void"}, NEW r \in OperandTypes \ {"Void"},
         NEW v \in ValuesOf(l) \cap ValuesOf(r), v # Boxed("Number", NaN)
  PROVE  /\ equality(Operand(v, l), Operand(v, r), FALSE)
         /\ v[1] \in WithoutStrictIdentity \/ equality(Operand(v, l), Operand(v, r), TRUE)
<1> DEFINE a == Operand(v, l)
           b == Operand(v, r)
           numbers == {a[1], b[1]} \subseteq NumericTypes
           booleans == a[1] = "Boolean" /\ b[1] = "Boolean"
           pointers == {a[1], b[1]} \subseteq ByIdentity \cup {"String"}
<1>1. ASSUME NEW t \in {l, r}
      PROVE  /\ box_value(Operand(v, t)) = v /\ v \in Boxes
             /\ Operand(v, t)[1] # "Any" => Operand(v, t)[2] = IF v = Null THEN Nil ELSE v[2]
             /\ Operand(v, t)[1] \in MachineTypes => Operand(v, t)[1] = v[1] /\ v # Null
  <2>1. t \in OperandTypes \ {"Void"} /\ v \in ValuesOf(t) BY <1>1
  <2>2. box_value(Operand(v, t)) = v BY <2>1, BoxOfOperand
  <2>3. Operand(v, t) \in Held(t) BY <2>1, OperandIsHeld
  <2>4. v \in Boxes BY <2>1, <2>2, <2>3, BoxedIsBox
  <2>5. t # "Any" => Operand(v, t) = <<ShapeOf(t), IF v = Null THEN Nil ELSE v[2]>>
    BY <2>1 DEF Operand
  <2>6. t = "Any" => Operand(v, t)[1] = "Any" BY DEF Operand
  <2>7. ShapeOf(t) \in MachineTypes => t \in MachineTypes /\ ShapeOf(t) = t
    BY DEF ShapeOf, MachineTypes, NumericTypes
  <2>8. t \in MachineTypes => v[1] = t /\ v # Null BY <2>1, BoxOfOperand
  <2> QED BY <2>2, <2>4, <2>5, <2>6, <2>7, <2>8 DEF MachineTypes, NumericTypes
<1>2. /\ box_value(a) = v /\ box_value(b) = v /\ v \in Boxes
      /\ a[1] # "Any" => a[2] = IF v = Null THEN Nil ELSE v[2]
      /\ b[1] # "Any" => b[2] = IF v = Null THEN Nil ELSE v[2]
      /\ a[1] \in MachineTypes => a[1] = v[1] /\ v # Null
      /\ b[1] \in MachineTypes => b[1] = v[1] /\ v # Null
  BY <1>1
<1> HIDE DEF a, b
<1>3. v = Boxed(v[1], v[2]) BY <1>2, BoxCases
<1>4. CASE numbers
  <2>1. a[1] = v[1] /\ b[1] = v[1] /\ a[2] = v[2] /\ b[2] = v[2] /\ v[1] \in NumericTypes
    BY <1>2, <1>4 DEF MachineTypes, NumericTypes
  <2>2. NumberOf(a) = NumberOf(b) /\ NumberOf(a) # NaN
    BY <1>3, <2>1 DEF NumberOf, Fin, NaN
  <2>3. /\ equality(a, b, TRUE) = Compare("==", NumberOf(a), NumberOf(b))
        /\ equality(a, b, FALSE) = Compare("==", NumberOf(a), NumberOf(b))
    BY <1>4 DEF equality, NumericTypes, ByIdentity
  <2> QED BY <2>2, <2>3, EqualNumbers DEF a, b
<1>5. CASE booleans \/ pointers
  <2>1. a[2] = b[2] BY <1>2, <1>5 DEF ByIdentity
  <2>2. equality(a, b, TRUE) = (a[2] = b[2]) /\ equality(a, b, FALSE) = (a[2] = b[2])
    BY <1>5 DEF equality, NumericTypes, ByIdentity
  <2> QED BY <2>1, <2>2 DEF a, b
<1>6. CASE ~numbers /\ ~booleans /\ ~pointers
  <2>1. equality(a, b, TRUE) = any_strict_equals(v, v) /\ equality(a, b, FALSE) = any_equals(v, v)
    BY <1>2, <1>6 DEF equality
  <2> QED BY <1>2, <2>1, BoxEqualsItself DEF a, b
<1> QED BY <1>4, <1>5, <1>6

(* The equality of any two operands keeps the promises of == and ===.      *)
LEMMA ComparisonsAgree == IInv => EqualityAgrees
<1> DEFINE l == stmt.l
           r == stmt.r
           swapped == <<vals[2], vals[1]>>
           holds(op, m, n, vs) == Run([op |-> op, l |-> m, r |-> n, to |-> "auto", cell |-> FALSE], vs)[2]
<1> SUFFICES ASSUME IInv, stage = "done", stmt.op = "===", ~UncheckedOperand
             PROVE  /\ \A op \in {"==", "==="} : holds(op, l, r, vals) = holds(op, r, l, swapped)
                    /\ holds("===", l, r, vals) => holds("==", l, r, vals)
                    /\ vals[1] = vals[2] /\ vals[1] # Boxed("Number", NaN) =>
                         /\ holds("==", l, r, vals)
                         /\ vals[1][1] \in WithoutStrictIdentity \/ holds("===", l, r, vals)
  BY DEF EqualityAgrees
<1>1. /\ IsStatement(stmt)
      /\ vals[1] \in ValuesOf(stmt.l) /\ vals[2] \in ValuesOf(RightType(stmt))
  BY TypingAssumption DEF IInv, CompiledInv, ExecutedInv
<1>2. IsBinary(stmt) /\ stmt.op \notin UnaryOps \cup TypeOps \cup {"="}
  BY DEF IsBinary, UnaryOps, TypeOps
<1>3. l \in OperandTypes \ {"Void"} /\ r \in OperandTypes \ {"Void"}
  BY <1>1, <1>2 DEF IsStatement, UncheckedOperand
<1>4. vals[1] \in ValuesOf(l) /\ vals[2] \in ValuesOf(r) BY <1>1, <1>2 DEF RightType
<1>5. swapped[1] = vals[2] /\ swapped[2] = vals[1] OBVIOUS
<1> HIDE DEF l, r, swapped
<1> DEFINE a == Operand(vals[1], l)
           b == Operand(vals[2], r)
<1>6. ASSUME NEW op \in {"==", "==="}
      PROVE  /\ holds(op, l, r, vals) = equality(a, b, op = "===")
             /\ holds(op, r, l, swapped) = equality(b, a, op = "===")
  <2>1. Run(Comparison(op, l, r), vals)[2] = Compared(op, l, r, vals)
    BY <1>3, <1>4, ComparisonIs
  <2>2. Run(Comparison(op, r, l), swapped)[2] = Compared(op, r, l, swapped)
    BY <1>3, <1>4, <1>5, ComparisonIs
  <2> QED BY <1>5, <2>1, <2>2 DEF Comparison, Compared
<1>7. box_value(a) \in Boxes /\ box_value(b) \in Boxes
  BY <1>3, <1>4, OperandIsHeld, BoxedIsBox
<1> HIDE DEF holds
<1>8. /\ holds("==", l, r, vals) = equality(a, b, FALSE) /\ holds("==", r, l, swapped) = equality(b, a, FALSE)
      /\ holds("===", l, r, vals) = equality(a, b, TRUE) /\ holds("===", r, l, swapped) = equality(b, a, TRUE)
  <2>1. ("==" = "===") = FALSE /\ ("===" = "===") = TRUE OBVIOUS
  <2> HIDE DEF a, b
  <2> QED BY <1>6, <2>1
<1>9. vals[1] = vals[2] /\ vals[1] # Boxed("Number", NaN) =>
         /\ equality(a, b, FALSE)
         /\ vals[1][1] \in WithoutStrictIdentity \/ equality(a, b, TRUE)
  BY <1>3, <1>4, OperandEqualsItself
<1>10. \A strict \in BOOLEAN : equality(a, b, strict) \in BOOLEAN /\ equality(b, a, strict) \in BOOLEAN
  BY EqualityIsBoolean
<1> HIDE DEF a, b
<1>11. /\ equality(a, b, TRUE) = equality(b, a, TRUE) /\ equality(a, b, FALSE) = equality(b, a, FALSE)
       /\ equality(a, b, TRUE) => equality(a, b, FALSE)
  <2>1. /\ equality(a, b, TRUE) <=> equality(b, a, TRUE)
        /\ equality(a, b, FALSE) <=> equality(b, a, FALSE)
        /\ equality(a, b, TRUE) => equality(a, b, FALSE)
    BY <1>7, OperandsCompare
  <2>2. equality(a, b, TRUE) \in BOOLEAN /\ equality(b, a, TRUE) \in BOOLEAN
    BY <1>10
  <2>3. equality(a, b, FALSE) \in BOOLEAN /\ equality(b, a, FALSE) \in BOOLEAN
    BY <1>10
  <2> QED BY <2>1, <2>2, <2>3
<1> QED BY <1>8, <1>9, <1>11

(* == and === on any two static types agree with each other: both          *)
(* symmetric, strict implies loose, and each holds between a value and     *)
(* itself but for NaN and the kinds without identity (llvm.rs equality,    *)
(* conv.rs any_equals and any_strict_equals).                              *)
THEOREM EqualitiesAgree == Spec => []EqualityAgrees
<1>1. IInv => EqualityAgrees BY ComparisonsAgree
<1> QED BY <1>1, AlwaysComputed, PTL


-----------------------------------------------------------------------------
(* Type tests. *)

(* The tag of a box names its type where types do not share a tag.         *)
LEMMA TagsNameTypes ==
  ASSUME NEW b \in Boxes, NEW t \in {"RegExp", "Date", "Socket", "Namespace"}
  PROVE  b \in ObjectsOf(t) <=> b[1] = t
<1>1. ASSUME b \in ObjectsOf(t) PROVE b[1] = t
  <2>1. t \in PointerTypes \ {"String"} BY DEF PointerTypes, NullableTypes
  <2>2. Tag(ShapeOf(t)) = t BY DEF Tag, ShapeOf, ClassTypes, VectorTypes
  <2> QED BY <1>1, <2>1, <2>2, ObjectsAreTagged
<1>2. ASSUME b[1] = t PROVE b \in ObjectsOf(t)
  <2>1. b \in References
    BY <1>2, BoxCases DEF Undefined, Null, Boxed, References_
  <2>2. PICK s \in DOMAIN Instances : b \in ObjectsOf(s) BY <2>1 DEF References
  <2>3. s \in PointerTypes \ {"String"}
    BY DEF Instances, PointerTypes, NullableTypes, ClassTypes, VectorTypes
  <2>4. Tag(ShapeOf(s)) = t BY <1>2, <2>2, <2>3, ObjectsAreTagged
  <2>5. s = t
    BY <2>3, <2>4 DEF PointerTypes, NullableTypes, ClassTypes, VectorTypes, Tag, ShapeOf
  <2> QED BY <2>2, <2>5
<1> QED BY <1>1, <1>2

(* "is" and "as" decide alike, and for a class, an interface, an array, a  *)
(* vector or a tagged object as its place in the hierarchy says.           *)
LEMMA TestsOfBoxes ==
  ASSUME NEW b \in Boxes \ {Null, Undefined}, NEW t \in VariableTypes \ {"Any"}
  PROVE  /\ is_value(b, t) <=> box_value(as_value(b, t)) # Null
         /\ t \in PointerTypes \ {"String", "Function", "Namespace"} =>
              (is_value(b, t) <=> b \in ObjectsOf(t))
<1> DEFINE Direct == ClassTypes \cup VectorTypes \cup {"I", "Array"}
           Named == {"Date", "RegExp", "Socket"}
<1>1. ASSUME t \in Direct PROVE is_value(b, t) <=> b \in ObjectsOf(t)
  BY <1>1 DEF is_value, IsInstance
<1>2. ASSUME t \in Named \cup {"String", "Boolean"} PROVE is_value(b, t) <=> b[1] = t
  <2>1. ty_tag(t) = t /\ t \notin Direct BY <1>2 DEF ty_tag, ClassTypes, VectorTypes
  <2>2. any_is(b, t) = (b[1] = t) BY <1>2 DEF any_is
  <2> QED BY <2>1, <2>2 DEF is_value
<1>3. ASSUME t \in Named PROVE is_value(b, t) <=> b \in ObjectsOf(t)
  BY <1>2, <1>3, TagsNameTypes
<1>4. ASSUME NEW p, NEW s \in Pointers PROVE box_value(<<s, p>>) # Null <=> p # Nil
  <2>1. Tag(s) # "Null" /\ s # "Any" BY PointerShapes DEF Tag, References_
  <2>2. box_value(<<s, p>>) = IF p = Nil THEN Null ELSE Boxed(Tag(s), p) BY <2>1 DEF box_value
  <2> QED BY <2>1, <2>2 DEF Boxed, Null
<1>5. CASE t \in Direct \cup {"Date", "RegExp"}
  <2>1. t \in PointerTypes \ {"String"}
    BY <1>5 DEF PointerTypes, NullableTypes, ClassTypes, VectorTypes
  <2>2. as_value(b, t) = <<ShapeOf(t), IF IsInstance(b, t) THEN b[2] ELSE Nil>>
    BY <1>5, <2>1 DEF as_value
  <2>3. IsInstance(b, t) => b[2] # Nil BY <2>1, ObjectsAreTagged DEF IsInstance
  <2>4. ShapeOf(t) \in Pointers BY <2>1, PointerShapes
  <2>5. box_value(as_value(b, t)) # Null <=> IsInstance(b, t) BY <1>4, <2>2, <2>3, <2>4
  <2> QED BY <1>1, <1>3, <1>5, <2>5 DEF IsInstance
<1>6. CASE t = "String"
  <2>1. as_value(b, t) = <<"String", IF b[1] = "String" THEN b[2] ELSE Nil>>
    BY <1>6 DEF as_value, ShapeOf, ClassTypes, VectorTypes
  <2>2. b[1] = "String" => b[2] # Nil
    BY BoxCases DEF Undefined, Null, Boxed, References_, Str, Nil
  <2>3. "String" \in Pointers BY PointerShapes
  <2>4. box_value(as_value(b, t)) # Null <=> b[1] = "String" BY <1>4, <2>1, <2>2, <2>3
  <2> QED BY <1>2, <1>6, <2>4
<1>7. CASE t \in MachineTypes \cup {"Function", "Socket", "Namespace"}
  <2>1. t \notin Direct \cup {"Date", "RegExp", "String"}
    BY <1>7 DEF MachineTypes, NumericTypes, ClassTypes, VectorTypes
  <2>2. as_value(b, t) = <<"Any", IF any_is(b, ty_tag(t)) THEN b ELSE Null>>
    BY <2>1 DEF as_value
  <2>3. is_value(b, t) = any_is(b, ty_tag(t)) BY <2>1 DEF is_value
  <2>4. "Any" \notin Pointers BY PointerShapes DEF References_
  <2>5. box_value(as_value(b, t)) = IF any_is(b, ty_tag(t)) THEN b ELSE Null
    BY <2>2, <2>4 DEF box_value
  <2>6. box_value(as_value(b, t)) # Null <=> any_is(b, ty_tag(t)) BY <2>5
  <2> HIDE DEF Direct
  <2> QED BY <1>3, <1>7, <2>3, <2>6 DEF MachineTypes, NumericTypes, PointerTypes, NullableTypes, VectorTypes, ClassTypes
<1> QED BY <1>5, <1>6, <1>7 DEF VariableTypes, PointerTypes, NullableTypes

(* A value other than null belongs to its static type, and to what that    *)
(* widens to.                                                              *)
LEMMA ValuesBelong ==
  ASSUME NEW l \in OperandTypes \ {"Void"}, NEW t \in VariableTypes \ {"Any", "Function"},
         conversion(l, t) = None,
         NEW b \in ValuesOf(l), b # Null
  PROVE  is_value(b, t)
<1>1. l = t \/ <<l, t>> \in Widens
  <2>1. l # "Null" BY DEF ValuesOf
  <2> QED BY <2>1 DEF conversion, None, Illegal
<1>2. CASE t \in ClassTypes \cup VectorTypes \cup {"I", "Array"}
  <2>1. l \in ClassTypes \cup VectorTypes \cup {"I", "Array"}
    BY <1>1, <1>2 DEF Widens, ClassTypes
  <2>2. b \in ObjectsOf(l)
    BY <2>1 DEF ValuesOf, ClassTypes, VectorTypes
  <2>3. b \in ObjectsOf(t) BY <1>1, <2>2, ObjectsWiden
  <2> QED BY <1>2, <2>3 DEF is_value, IsInstance
<1>3. CASE t \notin ClassTypes \cup VectorTypes \cup {"I", "Array"}
  <2>1. l = t BY <1>1, <1>3 DEF Widens, ClassTypes
  <2>2. ty_tag(t) = t /\ is_value(b, t) = any_is(b, t)
    BY <1>3 DEF ty_tag, is_value
  <2>3. CASE t \in {"Int", "UInt"}
    <3>1. b[1] = t /\ b[2] \in (IF t = "Int" THEN Ints ELSE UInts)
      BY <2>1, <2>3, TypingAssumption DEF ValuesOf, Boxed
    <3>2. b[2] \in Int BY <3>1, HalfIsPositive DEF Ints, UInts
    <3>3. numeric(b) = Fin(2 * b[2]) BY <2>3, <3>1 DEF numeric
    <3>4. (2 * b[2]) % 2 = 0 /\ (2 * b[2]) \div 2 = b[2] BY <3>2
    <3>5. any_is(b, t) <=> /\ IsNumeric(b) /\ numeric(b)[1] = "fin"
                           /\ numeric(b)[2] % 2 = 0
                           /\ numeric(b)[2] \div 2 \in (IF t = "Int" THEN Ints ELSE UInts)
      BY <2>3 DEF any_is
    <3> QED BY <2>2, <2>3, <3>1, <3>3, <3>4, <3>5 DEF IsNumeric, NumericTypes, Fin
  <2>4. CASE t = "Number"
    <3>1. b[1] = "Number" BY <2>1, <2>4 DEF ValuesOf, Boxed
    <3> QED BY <2>2, <2>4, <3>1 DEF any_is, IsNumeric, NumericTypes
  <2>5. CASE t \in {"Boolean", "String"}
    <3>1. b[1] = t BY <2>1, <2>5 DEF ValuesOf, Boxed
    <3> QED BY <2>2, <2>5, <3>1 DEF any_is
  <2>6. CASE t \in {"RegExp", "Date", "Socket", "Namespace"}
    <3>1. b \in ObjectsOf(t) BY <2>1, <2>6 DEF ValuesOf
    <3>2. t \in PointerTypes \ {"String"} /\ Tag(ShapeOf(t)) = t
      BY <2>6 DEF PointerTypes, NullableTypes, Tag, ShapeOf, ClassTypes, VectorTypes
    <3>3. b[1] = t BY <3>1, <3>2, ObjectsAreTagged
    <3> QED BY <2>2, <2>6, <3>3 DEF any_is
  <2> QED BY <1>3, <2>3, <2>4, <2>5, <2>6
       DEF VariableTypes, PointerTypes, NullableTypes, MachineTypes, NumericTypes
<1> QED BY <1>2, <1>3


(* The compiled "is" reads back as the test of its operand's box.          *)
LEMMA TestIs ==
  ASSUME IInv, stage = "done", stmt.op = "is", ~UncheckedOperand
  PROVE  /\ vals[1] \in Boxes /\ vals[1] \in ValuesOf(stmt.l) /\ vals[2] = Null
         /\ stmt.l \in OperandTypes \ {"Void"} /\ stmt.r \in VariableTypes \ {"Any"}
         /\ seen[2] = is_value(vals[1], stmt.r)
<1> DEFINE b == vals[1]
           l == stmt.l
           t == stmt.r
           c == code
           x == Operand(b, l)
           y == Operand(vals[2], "Null")
           a == convert(c.left, x)
           q == is_value(b, t)
           v == Bool(q)
<1>1. /\ IsStatement(stmt) /\ c = assign(stmt)
      /\ vals[1] \in ValuesOf(stmt.l) /\ vals[2] \in ValuesOf(RightType(stmt))
      /\ slot = store_local(c, Result(c, l, RightType(stmt), vals))
      /\ seen = load_local(c, slot)
  BY TypingAssumption DEF IInv, CompiledInv, ExecutedInv
<1>2. /\ l \in OperandTypes \ {"Void"} /\ t \in VariableTypes \ {"Any"} /\ stmt.to = "auto"
  BY <1>1 DEF IsStatement, UncheckedOperand, TypeOps, BinaryOps, UnaryOps, Logical, Choices, Bitwise32,
              Relational, Equality
<1>3. RightType(stmt) = "Null" /\ vals[2] = Null
  BY <1>1 DEF RightType, IsBinary, TypeOps, ValuesOf
<1>4. expr(stmt) = Typed("Boolean", coerce_to_any(l), None) BY DEF expr, is_as, UnaryOps
<1>5. coerce("Boolean", "Boolean") = None BY DEF coerce, conversion
<1>6. /\ c.op = "is" /\ c.ty = "Boolean" /\ c.left = coerce_to_any(l) /\ c.right = None
      /\ c.last = None /\ c.to = "Boolean" /\ c.target = t
  BY <1>1, <1>2, <1>4, <1>5 DEF assign, Typed
<1>7. x \in Held(l) /\ box_value(x) = b /\ b \in Boxes
  <2>1. x \in Held(l) /\ box_value(x) = b BY <1>1, <1>2, OperandIsHeld, BoxOfOperand
  <2> HIDE DEF x
  <2> QED BY <1>2, <2>1, BoxedIsBox
<1>8. y \in Held("Null") BY <1>1, <1>3, OperandIsHeld DEF OperandTypes
<1> HIDE DEF b, l, t, c, x, y
<1>9. Plain(a) /\ box_value(a) = b
  <2>1. "Any" \notin Pointers BY PointerShapes DEF References_
  <2>2. CASE l \in {"Any", "Null"}
    <3>1. a = x BY <1>6, <2>2 DEF coerce_to_any, convert, None
    <3> HIDE DEF a
    <3> QED BY <1>2, <1>7, <3>1, HeldIsPlain
  <2>3. CASE l \notin {"Any", "Null"}
    <3>1. c.left = <<"To", "Any">> BY <1>2, <1>6, <2>3 DEF coerce_to_any
    <3>2. x \notin {Panic, Throw} /\ x[1] # "Void" BY <1>2, <1>7, HeldShape
    <3>3. a = <<"Any", b>> BY <1>7, <3>1, <3>2 DEF convert, convert_to
    <3> HIDE DEF a
    <3> QED BY <2>1, <3>3 DEF Plain, box_value, Panic, Throw
  <2> QED BY <2>2, <2>3
<1>10. Plain(y) /\ convert(c.right, y) = y
  <2>1. "Null" \in OperandTypes \ {"Void"} BY DEF OperandTypes
  <2> QED BY <1>6, <1>8, <2>1, HeldIsPlain DEF convert, None
<1> HIDE DEF a
<1>11. Emit(c, a, y) = v
  <2>1. c.op \notin Logical /\ c.op \notin Choices \cup Bitwise32 \cup {">>>"} \cup Relational
    BY <1>6 DEF Logical, Choices, Bitwise32, Relational
  <2> QED BY <1>6, <1>9, <1>10, <2>1 DEF Emit, Plain
<1>12. q \in BOOLEAN BY <1>2, <1>7, TestedTypes DEF t
<1> HIDE DEF q
<1>13. v = <<"Boolean", q>> /\ v[1] = "Boolean" /\ v[2] = q BY DEF Bool
<1> HIDE DEF v
<1>14. v \notin {Panic, Throw} BY <1>13 DEF Panic, Throw
<1>15. Result(c, l, RightType(stmt), vals) = v
  <2>1. convert(c.last, v) = v BY <1>6 DEF convert, None
  <2> QED BY <1>3, <1>10, <1>11, <2>1 DEF Result, a, x, y, b
<1>16. slot = store_local(c, v) BY <1>1, <1>15 DEF c, l
<1>17. ShapeOf("Boolean") = "Boolean" BY DEF ShapeOf, ClassTypes, VectorTypes
<1>18. seen[2] = q
  <2>1. CASE c.cell
    <3>1. "Boolean" \notin Pointers BY PointerShapes DEF References_
    <3>2. box_value(v) = Boxed("Boolean", q) BY <1>13, <3>1 DEF box_value, Tag
    <3>3. slot = <<"cell", Boxed("Boolean", q)>> BY <1>14, <1>16, <2>1, <3>2 DEF store_local
    <3>4. seen = unbox_any_ptr(Boxed("Boolean", q), "Boolean")
      BY <1>1, <1>6, <3>3 DEF load_local, c
    <3>5. any_truthy(Boxed("Boolean", q)) = q
      BY DEF any_truthy, Boxed, IsNumeric, NumericTypes
    <3> QED BY <3>4, <3>5 DEF unbox_any_ptr
  <2>2. CASE ~c.cell
    <3>1. slot = v BY <1>6, <1>13, <1>14, <1>16, <1>17, <2>2 DEF store_local
    <3>2. seen = Rewrap(v, "Boolean") BY <1>1, <1>6, <1>13, <3>1 DEF load_local, c
    <3> QED BY <1>13, <1>17, <3>2 DEF Rewrap
  <2> QED BY <2>1, <2>2
<1> QED BY <1>1, <1>2, <1>3, <1>7, <1>18 DEF b, l, t, q

(* The compiled conversion from "*" to a reference type throws but for the *)
(* objects of the type.                                                    *)
LEMMA ConversionThrows ==
  ASSUME NEW t \in PointerTypes \ {"String", "Function", "Namespace"},
         NEW vs, vs[1] \in Boxes \ {Null, Undefined}, vs[2] = Null
  PROVE  Run([op |-> "=", l |-> "Any", r |-> t, to |-> t, cell |-> FALSE], vs) # Throw
           <=> vs[1] \in ObjectsOf(t)
<1> DEFINE s == [op |-> "=", l |-> "Any", r |-> t, to |-> t, cell |-> FALSE]
           c == assign(s)
           b == vs[1]
           x == <<"Any", b>>
           y == <<"String", Nil>>
           p == any_coerce(b, t)
           v == unbox_any_ptr(b, t)
<1>1. s.op = "=" /\ s.l = "Any" /\ s.r = t /\ s.to = t /\ s.cell = FALSE OBVIOUS
<1>2. t \notin MachineTypes \cup {"Any", "auto"} /\ <<"Any", t>> \notin Widens
  BY DEF PointerTypes, NullableTypes, ClassTypes, VectorTypes, MachineTypes, NumericTypes, Widens
<1>3. coerce("Any", t) = <<"FromAny", t>> BY <1>2 DEF coerce, conversion
<1>4. expr(s) = Typed("Any", None, None) BY DEF expr, UnaryOps
<1>5. /\ c.op = "=" /\ c.left = None /\ c.right = None /\ c.last = <<"FromAny", t>>
      /\ c.to = t /\ c.cell = FALSE
  BY <1>1, <1>2, <1>3, <1>4 DEF assign, Typed
<1>6. ~IsBinary(s) BY <1>1 DEF IsBinary
<1>7. Operand(vs[1], "Any") = x /\ Operand(vs[2], "Null") = y BY DEF Operand, ShapeOf, ClassTypes, VectorTypes
<1> HIDE DEF s, c
<1>8. convert(c.left, x) = x /\ convert(c.right, y) = y BY <1>5 DEF convert, None
<1>9. Emit(c, x, y) = x
  <2>1. c.op \notin Logical /\ c.op \notin Choices \cup Bitwise32 \cup {">>>"} \cup Relational
    BY <1>5 DEF Logical, Choices, Bitwise32, Relational
  <2> QED BY <1>5, <2>1 DEF Emit, Panic, Throw
<1>10. convert(c.last, x) = v BY <1>5 DEF convert, Panic, Throw
<1>11. Run(s, vs) = load_local(c, store_local(c, v))
  <2>1. Result(c, "Any", "Null", vs) = v BY <1>7, <1>8, <1>9, <1>10 DEF Result
  <2> QED BY <1>1, <1>6, <2>1 DEF Run, c
<1>12. b[1] \notin Empty
  BY BoxCases DEF Empty, Undefined, Null, Boxed, References_
<1>13. t \in PointerTypes \ {"String"} /\ ShapeOf(t) \in Pointers BY PointerShapes
<1>14. v = IF p[1] = "throw" THEN Throw ELSE <<ShapeOf(t), p>>
  BY <1>2 DEF unbox_any_ptr, MachineTypes, NumericTypes
<1>15. CASE b \in ObjectsOf(t)
  <2>1. p = b[2] /\ p[1] # "throw" BY <1>12, <1>13, <1>15, ObjectsAreTagged DEF any_coerce, IsInstance
  <2>2. v = <<ShapeOf(t), b[2]>> BY <1>14, <2>1
  <2>3. v \in Held(t) BY <1>13, <1>15, <2>2, HeldPointers
  <2>4. t \in OperandTypes \ {"Void"} BY <1>13 DEF OperandTypes, VariableTypes, PointerTypes, NullableTypes, ClassTypes, VectorTypes
  <2>5. v \notin {Panic, Throw} /\ v[1] \notin {"Panic", "Throw", "Garbage", "cell"} /\ v[1] = ShapeOf(t)
    BY <2>3, <2>4, HeldShape
  <2> HIDE DEF v
  <2>6. store_local(c, v) = v BY <1>5, <2>5 DEF store_local
  <2>7. load_local(c, v) = Rewrap(v, t) BY <1>5, <2>5 DEF load_local
  <2>8. Rewrap(v, t) \in {v, <<ShapeOf(t), v[2]>>} BY <2>5 DEF Rewrap
  <2>9. Run(s, vs) # Throw
    <3>1. v[1] # "Throw" BY <2>5
    <3> QED BY <1>11, <2>5, <2>6, <2>7, <2>8, <3>1 DEF Throw
  <2> QED BY <1>15, <2>9 DEF s
<1>16. CASE b \notin ObjectsOf(t)
  <2>1. p = <<"throw", 0>> BY <1>12, <1>16 DEF any_coerce, IsInstance
  <2>2. v = Throw BY <1>14, <2>1
  <2> HIDE DEF v
  <2>3. store_local(c, v) = Throw BY <2>2 DEF store_local
  <2>4. load_local(c, Throw) = Throw BY DEF load_local, Throw
  <2> QED BY <1>11, <1>16, <2>3, <2>4 DEF s
<1> QED BY <1>15, <1>16

(* The compiled "as" of a box is the runtime's.                            *)
LEMMA AsIs ==
  ASSUME NEW l \in OperandTypes \ {"Void"}, NEW t, NEW b,
         NEW s, s = [op |-> "as", l |-> l, r |-> t, to |-> "auto", cell |-> FALSE]
  PROVE  Emit(assign(s), <<"Any", b>>, <<"String", Nil>>) = as_value(b, t)
<1> DEFINE c == assign(s)
           x == <<"Any", b>>
           y == <<"String", Nil>>
<1>1. c.op = "as" /\ c.target = t BY DEF assign
<1>2. box_value(x) = b
  <2>1. "Any" \notin Pointers BY PointerShapes DEF References_
  <2> QED BY <2>1 DEF box_value
<1>3. x \notin {Panic, Throw} /\ y \notin {Panic, Throw} /\ x[1] # "Void" /\ y[1] # "Void" BY DEF Panic, Throw
<1> HIDE DEF c, x, y
<1>4. c.op \notin Logical /\ c.op \notin Choices \cup Bitwise32 \cup {">>>"} \cup Relational
  BY <1>1 DEF Logical, Choices, Bitwise32, Relational
<1>5. Emit(c, x, y) = as_value(b, t) BY <1>1, <1>2, <1>3, <1>4 DEF Emit
<1> QED BY <1>5 DEF c, x, y

(* The three tests of a finished "is" agree.                               *)
LEMMA TestsAgree == IInv => TypeTestsAgree
<1> DEFINE to(op, l, t) == [op |-> op, l |-> l, r |-> t, to |-> IF op = "=" THEN t ELSE "auto", cell |-> FALSE]
           as == box_value(Emit(assign(to("as", stmt.l, stmt.r)), <<"Any", vals[1]>>, <<"String", Nil>>))
<1> SUFFICES ASSUME IInv, stage = "done", stmt.op = "is", ~UncheckedOperand, vals[1] \notin {Null, Undefined}
             PROVE  /\ seen[2] <=> as # Null
                    /\ stmt.r \in PointerTypes \ {"String", "Function", "Namespace"} =>
                         (seen[2] <=> Run(to("=", "Any", stmt.r), vals) # Throw)
                    /\ conversion(stmt.l, stmt.r) = None /\ stmt.r # "Function" => seen[2]
  BY DEF TypeTestsAgree
<1> DEFINE b == vals[1]
           l == stmt.l
           t == stmt.r
<1>1. /\ b \in Boxes \ {Null, Undefined} /\ b \in ValuesOf(l) /\ vals[2] = Null
      /\ l \in OperandTypes \ {"Void"} /\ t \in VariableTypes \ {"Any"}
      /\ seen[2] = is_value(b, t)
  BY TestIs
<1>2. to("as", l, t) = [op |-> "as", l |-> l, r |-> t, to |-> "auto", cell |-> FALSE]
  <2>1. ("as" = "=") = FALSE OBVIOUS
  <2> QED BY <2>1
<1>3. to("=", "Any", t) = [op |-> "=", l |-> "Any", r |-> t, to |-> t, cell |-> FALSE] OBVIOUS
<1>4. as = box_value(as_value(b, t))
  <2> HIDE DEF to
  <2>1. Emit(assign(to("as", l, t)), <<"Any", b>>, <<"String", Nil>>) = as_value(b, t)
    BY <1>1, <1>2, AsIs
  <2> QED BY <2>1
<1>5. t \in PointerTypes \ {"String", "Function", "Namespace"} =>
        (Run(to("=", "Any", t), vals) # Throw <=> b \in ObjectsOf(t))
  <2> HIDE DEF to
  <2> QED BY <1>1, <1>3, ConversionThrows
<1>6. is_value(b, t) <=> box_value(as_value(b, t)) # Null BY <1>1, TestsOfBoxes
<1>7. t \in PointerTypes \ {"String", "Function", "Namespace"} => (is_value(b, t) <=> b \in ObjectsOf(t))
  BY <1>1, TestsOfBoxes
<1>8. conversion(l, t) = None /\ t # "Function" => is_value(b, t) BY <1>1, ValuesBelong
<1> HIDE DEF as, to
<1> QED BY <1>1, <1>4, <1>5, <1>6, <1>7, <1>8

(* "is", "as" and the implicit conversion from "*" decide alike which      *)
(* values belong to a type, and a value other than null belongs to its     *)
(* static type (llvm.rs is_value and as_value, any.rs any_is, ffi.rs).     *)
THEOREM TypeTestsAreOne == Spec => []TypeTestsAgree
<1>1. IInv => TypeTestsAgree BY TestsAgree
<1> QED BY <1>1, AlwaysComputed, PTL

-----------------------------------------------------------------------------
(* The two implementations of each operator: machine code chosen from the  *)
(* static types, and the runtime's operations on boxes.                    *)

(* Residues of numbers next to the range.                                  *)
LEMMA ResiduesNearby ==
  ASSUME NEW n \in Int, NEW r \in Nat \ {0}
  PROVE  /\ 0 <= n /\ n < r => n % r = n
         /\ -r <= n /\ n < 0 => n % r = n + r
<1>1. ASSUME 0 <= n, n < r PROVE n % r = n BY <1>1
<1>2. ASSUME -r <= n, n < 0 PROVE n % r = n + r BY <1>2
<1> QED BY <1>1, <1>2

(* The conversion of a whole number is the wrapping of machine arithmetic. *)
LEMMA NumbersWrap ==
  ASSUME NEW n \in Int
  PROVE  /\ \A t \in {"Int", "UInt"} : <<t, convert_num_to_int(Fin(2 * n), t)>> = Wrapped(t, n)
         /\ n \in Ints => Wrapped("Int", n) = <<"Int", n>>
         /\ n \in UInts => Wrapped("UInt", n) = <<"UInt", n>>
<1> DEFINE half == Half32
           range == Range32
           m == n % range
           low == IF m >= half THEN m - range ELSE m
<1>1. half \in Nat \ {0} /\ range \in Nat \ {0} /\ range = 2 * half BY HalfIsPositive
<1>2. Trunc(2 * n) = n /\ Fin(2 * n)[1] = "fin" /\ Fin(2 * n)[2] = 2 * n BY DEF Trunc, Fin
<1>3. to_int32(Fin(2 * n)) = low BY <1>2 DEF to_int32
<1>4. m \in 0 .. range - 1
  <2> HIDE DEF range
  <2> QED BY <1>1
<1>5. low % range = m
  <2>1. CASE m >= half
    <3>1. low = m - range /\ -range <= m - range /\ m - range < 0 /\ m - range \in Int
      <4> HIDE DEF m, half, range
      <4> QED BY <1>1, <1>4, <2>1
    <3>2. (m - range) % range = m - range + range
      <4> HIDE DEF m, half, range, low
      <4> QED BY <1>1, <3>1, ResiduesNearby
    <3> HIDE DEF m, half, range, low
    <3> QED BY <1>1, <1>4, <3>1, <3>2
  <2>2. CASE ~(m >= half)
    <3>1. low = m BY <2>2
    <3>2. m % range = m
      <4> HIDE DEF m, range, low
      <4> QED BY <1>1, <1>4, ResiduesNearby
    <3> QED BY <3>1, <3>2
  <2> QED BY <2>1, <2>2
<1>6. n \in -half .. half - 1 => low = n
  <2>1. SUFFICES ASSUME n \in -half .. half - 1 PROVE low = n OBVIOUS
  <2>2. CASE n >= 0
    <3>1. m = n
      <4> HIDE DEF half, range
      <4> QED BY <1>1, <2>1, <2>2, ResiduesNearby
    <3> HIDE DEF m, half, range
    <3> QED BY <1>1, <2>1, <2>2, <3>1
  <2>3. CASE n < 0
    <3>1. m = n + range
      <4> HIDE DEF half, range
      <4> QED BY <1>1, <2>1, <2>3, ResiduesNearby
    <3> HIDE DEF m, half, range
    <3> QED BY <1>1, <2>1, <2>3, <3>1
  <2> QED BY <2>2, <2>3
<1>7. n \in 0 .. range - 1 => m = n
  <2> HIDE DEF range
  <2> QED BY <1>1, ResiduesNearby
<1>8. convert_num_to_int(Fin(2 * n), "Int") = low
  <2>1. convert_num_to_int(Fin(2 * n), "Int") = IF 2 * n > 2 * (-half - 1) /\ 2 * n < 2 * half THEN n ELSE low
    BY <1>2, <1>3 DEF convert_num_to_int
  <2>2. 2 * n > 2 * (-half - 1) /\ 2 * n < 2 * half => n \in -half .. half - 1
    <3> HIDE DEF half
    <3> QED BY <1>1
  <2> HIDE DEF half, low
  <2> QED BY <1>6, <2>1, <2>2
<1>9. convert_num_to_int(Fin(2 * n), "UInt") = m
  <2>1. convert_num_to_int(Fin(2 * n), "UInt") = IF 2 * n > 2 * (-1) /\ 2 * n < 2 * range THEN n ELSE low % range
    BY <1>2, <1>3 DEF convert_num_to_int, to_uint32
  <2>2. 2 * n > 2 * (-1) /\ 2 * n < 2 * range => n \in 0 .. range - 1
    <3> HIDE DEF range
    <3> QED BY <1>1
  <2> HIDE DEF range, low, m
  <2> QED BY <1>5, <1>7, <2>1, <2>2
<1>10. Wrapped("Int", n) = <<"Int", low>> /\ Wrapped("UInt", n) = <<"UInt", m>>
  BY <1>3 DEF Wrapped
<1> HIDE DEF low, m
<1> QED BY <1>6, <1>7, <1>8, <1>9, <1>10 DEF Ints, UInts

(* A value of a type passes through a box of its type unchanged.           *)
LEMMA OwnBox ==
  ASSUME NEW t \in VariableTypes, NEW v \in Passing(t)
  PROVE  /\ unbox_any_ptr(box_value(v), t) # Throw
         /\ box_value(unbox_any_ptr(box_value(v), t)) = box_value(v)
<1>1. CASE t \in MachineTypes
  <2>1. v \in Held(t) BY <1>1, TypesOfOperands
  <2>2. /\ v = <<t, v[2]>>
        /\ \/ t = "Int" /\ v[2] \in Ints
           \/ t = "UInt" /\ v[2] \in UInts
           \/ t = "Number" /\ v[2] \in Numbers
           \/ t = "Boolean" /\ v[2] \in BOOLEAN
    BY <1>1, <2>1, HeldValues DEF MachineTypes, NumericTypes
  <2>3. t \notin Pointers /\ t # "Any" BY <1>1, PointerShapes DEF MachineTypes, NumericTypes, References_
  <2>4. \A n : box_value(<<t, n>>) = Boxed(t, n)
    BY <1>1, <2>3 DEF box_value, Tag, MachineTypes, NumericTypes
  <2> DEFINE b == Boxed(t, v[2])
  <2>5. box_value(v) = b BY <2>2, <2>4
  <2>6. unbox_any_ptr(b, t) = <<t, v[2]>>
    <3>1. CASE t \in {"Int", "UInt"}
      <4>1. v[2] \in Int BY <2>2, <3>1, HalfIsPositive DEF Ints, UInts
      <4>2. any_to_number(b) = Fin(2 * v[2])
        BY <3>1 DEF any_to_number, IsNumeric, NumericTypes, numeric, Boxed
      <4>3. convert_num_to_int(Fin(2 * v[2]), t) = v[2]
        <5>1. <<t, convert_num_to_int(Fin(2 * v[2]), t)>> = <<t, v[2]>>
          BY <2>2, <3>1, <4>1, NumbersWrap
        <5> QED BY <5>1
      <4> QED BY <3>1, <4>2, <4>3 DEF unbox_any_ptr
    <3>2. CASE t = "Number"
      <4>1. any_to_number(b) = v[2] BY <3>2 DEF any_to_number, IsNumeric, NumericTypes, numeric, Boxed
      <4> QED BY <3>2, <4>1 DEF unbox_any_ptr
    <3>3. CASE t = "Boolean"
      <4>1. any_truthy(b) = v[2] BY <3>3 DEF any_truthy, IsNumeric, NumericTypes, Boxed
      <4> QED BY <3>3, <4>1 DEF unbox_any_ptr
    <3> QED BY <1>1, <3>1, <3>2, <3>3 DEF MachineTypes, NumericTypes
  <2> HIDE DEF b
  <2>7. <<t, v[2]>> # Throw BY <1>1 DEF Throw, MachineTypes, NumericTypes
  <2> QED BY <2>2, <2>4, <2>5, <2>6, <2>7 DEF b
<1>2. CASE t = "Any"
  <2>1. unbox_any_ptr(box_value(v), t) = <<"Any", box_value(v)>> BY <1>2 DEF unbox_any_ptr
  <2>2. \A b : <<"Any", b>> # Throw /\ box_value(<<"Any", b>>) = b
    <3>1. "Any" \notin Pointers BY PointerShapes DEF References_
    <3> QED BY <3>1 DEF Throw, box_value
  <2> QED BY <2>1, <2>2
<1>3. CASE t \in PointerTypes
  <2> DEFINE b == box_value(v)
  <2>1. \A p : unbox_any_ptr(p, t) = IF any_coerce(p, t)[1] = "throw" THEN Throw ELSE <<ShapeOf(t), any_coerce(p, t)>>
    BY <1>3 DEF unbox_any_ptr, PointerTypes, NullableTypes, ClassTypes, VectorTypes
  <2>2. ShapeOf(t) \in Pointers /\ (ShapeOf(t) = "String" <=> t = "String") BY <1>3, PointerShapes
  <2>3. \A p : box_value(<<ShapeOf(t), p>>) = IF p = Nil THEN Null ELSE Boxed(Tag(ShapeOf(t)), p)
    <3>1. "Any" \notin Pointers BY PointerShapes DEF References_
    <3> QED BY <2>2, <3>1 DEF box_value
  <2>4. \A p : <<ShapeOf(t), p>> # Throw
    <3>1. "Throw" \notin Pointers BY PointerShapes DEF References_
    <3> QED BY <2>2, <3>1 DEF Throw
  <2>5. b = Null \/ \E p : /\ v = <<ShapeOf(t), p>> /\ p # Nil /\ b = Boxed(Tag(ShapeOf(t)), p)
                           /\ IF t = "String" THEN p[1] = "text" ELSE b \in ObjectsOf(t)
    <3>1. CASE v \in Held(t) /\ t = "String"
      <4>1. v = <<"String", v[2]>> /\ v[2] \in Strings BY <3>1, HeldValues
      <4>2. v[2] # Nil => v[2][1] = "text" BY <4>1 DEF Strings
      <4> QED BY <2>2, <2>3, <3>1, <4>1, <4>2
    <3>2. CASE v \in Held(t) /\ t # "String"
      <4>1. v = <<ShapeOf(t), v[2]>> /\ (v[2] = Nil \/ Boxed(Tag(ShapeOf(t)), v[2]) \in ObjectsOf(t))
        BY <1>3, <3>2, HeldPointers
      <4> HIDE DEF b
      <4>2. b = IF v[2] = Nil THEN Null ELSE Boxed(Tag(ShapeOf(t)), v[2]) BY <2>3, <4>1 DEF b
      <4> QED BY <3>2, <4>1, <4>2
    <3>3. CASE v \in Held("Null")
      <4>1. v = <<"String", Nil>> /\ "String" \in Pointers BY <3>3, HeldValues, PointerShapes
      <4> QED BY <4>1 DEF box_value
    <3> QED BY <3>1, <3>2, <3>3 DEF Passing
  <2> HIDE DEF b
  <2>6. CASE b = Null
    <3>1. any_coerce(b, t) = Nil BY <2>6 DEF any_coerce, Null, Boxed, Empty
    <3>2. unbox_any_ptr(b, t) = <<ShapeOf(t), Nil>> BY <2>1, <3>1 DEF Nil
    <3> QED BY <2>3, <2>4, <2>6, <3>2 DEF b
  <2>7. CASE b # Null
    <3>1. PICK p : /\ v = <<ShapeOf(t), p>> /\ p # Nil /\ b = Boxed(Tag(ShapeOf(t)), p)
                   /\ IF t = "String" THEN p[1] = "text" ELSE b \in ObjectsOf(t)
      BY <2>5, <2>7
    <3>2. Tag(ShapeOf(t)) \notin Empty BY <2>2, PointerShapes DEF Tag, References_, Empty
    <3>3. any_coerce(b, t) = p
      <4>1. b[1] \notin Empty /\ b[2] = p BY <3>1, <3>2 DEF Boxed
      <4>2. CASE t = "String"
        <5>1. b[1] = "String" BY <2>2, <3>1, <4>2 DEF Boxed, Tag
        <5> QED BY <4>1, <4>2, <5>1 DEF any_coerce
      <4>3. CASE t # "String" BY <3>1, <4>1, <4>3 DEF any_coerce, IsInstance
      <4> QED BY <4>2, <4>3
    <3>4. p[1] # "throw"
      <4>1. CASE t = "String" BY <3>1, <4>1
      <4>2. CASE t # "String"
        <5>1. b \in ObjectsOf(t) /\ b[2] = p BY <3>1, <4>2 DEF Boxed
        <5>2. b[2][1] = "ref" BY <1>3, <4>2, <5>1, ObjectsAreTagged
        <5> QED BY <5>1, <5>2
      <4> QED BY <4>1, <4>2
    <3>5. unbox_any_ptr(b, t) = <<ShapeOf(t), p>> BY <2>1, <3>3, <3>4
    <3> QED BY <2>3, <2>4, <3>1, <3>5 DEF b
  <2> QED BY <2>6, <2>7
<1> QED BY <1>1, <1>2, <1>3 DEF VariableTypes

(* Two outcomes a program cannot tell apart, but for the width of a number.*)
Alike(u, w) == IF Throw \in {u, w} THEN u = w ELSE SameValue(box_value(u), box_value(w))
(* Two outcomes in equal boxes.                                            *)
Same(u, w) == IF Throw \in {u, w} THEN u = w ELSE box_value(u) = box_value(w)

(* A coercion by static type does to a value what the conversion of its box*)
(* does to the box.                                                        *)
LEMMA ConversionIsOfBox ==
  ASSUME NEW from \in OperandTypes \ {"Void"}, NEW to \in VariableTypes,
         NEW v \in Passing(from), coerce(from, to) # Illegal
  PROVE  Same(convert(coerce(from, to), v), unbox_any_ptr(box_value(v), to))
<1> DEFINE w == convert(coerce(from, to), v)
           u == unbox_any_ptr(box_value(v), to)
<1>1. coerce(from, to) = conversion(from, to) BY DEF coerce
<1>2. v \notin {Panic, Throw} /\ v[1] # "Void" BY HeldIsPlain DEF Plain
<1>3. CASE conversion(from, to) = None
  <2>1. w = v BY <1>1, <1>3 DEF convert, None
  <2>2. v \in Passing(to) BY <1>2, <2>1, CoercedIsPassing
  <2>3. u # Throw /\ box_value(u) = box_value(v) BY <2>2, OwnBox
  <2> HIDE DEF u, w
  <2>4. Same(w, u) BY <1>2, <2>1, <2>3 DEF Same
  <2> QED BY <2>4 DEF u, w
<1>4. CASE conversion(from, to) = <<"To", to>> /\ to = "Any"
  <2>1. w = <<"Any", box_value(v)>> BY <1>1, <1>2, <1>4 DEF convert, convert_to
  <2>2. u = w BY <1>4, <2>1 DEF unbox_any_ptr
  <2> HIDE DEF u, w
  <2>3. Same(w, u) BY <2>2 DEF Same
  <2> QED BY <2>3 DEF u, w
<1>5. CASE conversion(from, to) = <<"To", to>> /\ to # "Any"
  <2>1. to \in MachineTypes /\ (from = "Any" \/ ({from, to} \subseteq NumericTypes /\ from # to))
    BY <1>5 DEF conversion, None, Illegal
  <2>2. w = convert_to(v, to) BY <1>1, <1>2, <1>5 DEF convert
  <2>3. CASE from = "Any"
    <3>1. v \in Held("Any") BY <2>3, TypesOfOperands
    <3>2. v[1] = "Any" /\ "Any" \notin Pointers BY <3>1, HeldValues, PointerShapes DEF References_
    <3>3. box_value(v) = v[2] BY <3>2 DEF box_value
    <3>4. CASE to \in {"Int", "UInt"}
      <4>1. w = <<to, convert_num_to_int(any_to_number(v[2]), to)>>
        BY <2>2, <3>2, <3>4 DEF convert_to, convert_to_int
      <4>2. u = w BY <3>3, <3>4, <4>1 DEF unbox_any_ptr
      <4> HIDE DEF u, w
      <4>3. Same(w, u) BY <4>2 DEF Same
      <4> QED BY <4>3 DEF u, w
    <3>5. CASE to = "Number"
      <4>1. w = <<"Number", any_to_number(v[2])>>
        BY <2>2, <3>2, <3>5 DEF convert_to, convert_to_number, NumericTypes
      <4>2. u = w BY <3>3, <3>5, <4>1 DEF unbox_any_ptr
      <4> HIDE DEF u, w
      <4>3. Same(w, u) BY <4>2 DEF Same
      <4> QED BY <4>3 DEF u, w
    <3>6. CASE to = "Boolean"
      <4>1. w = <<"Boolean", any_truthy(v[2])>>
        BY <2>2, <3>2, <3>3, <3>6 DEF convert_to, truthy, Bool
      <4>2. u = w BY <3>3, <3>6, <4>1 DEF unbox_any_ptr
      <4> HIDE DEF u, w
      <4>3. Same(w, u) BY <4>2 DEF Same
      <4> QED BY <4>3 DEF u, w
    <3> QED BY <2>1, <3>4, <3>5, <3>6 DEF MachineTypes, NumericTypes
  <2>4. CASE {from, to} \subseteq NumericTypes /\ from # to
    <3>1. v \in Held(from) BY <2>4, TypesOfOperands DEF MachineTypes
    <3>2. /\ v[1] = from /\ from \notin Pointers /\ from # "Any"
          /\ \/ from \in {"Int", "UInt"} /\ v[2] \in Int
             \/ from = "Number"
      BY <2>4, <3>1, HeldValues, HalfIsPositive, PointerShapes DEF NumericTypes, Ints, UInts, References_
    <3>3. box_value(v) = Boxed(from, v[2]) BY <2>4, <3>2 DEF box_value, Tag, NumericTypes
    <3>4. any_to_number(box_value(v)) = NumberOf(v)
      BY <2>4, <3>2, <3>3 DEF any_to_number, IsNumeric, numeric, NumberOf, Boxed, NumericTypes
    <3>5. CASE to = "Number"
      <4>1. w = <<"Number", NumberOf(v)>>
        BY <2>2, <2>4, <3>2, <3>5 DEF convert_to, convert_to_number
      <4>2. u = w BY <3>4, <3>5, <4>1 DEF unbox_any_ptr
      <4> HIDE DEF u, w
      <4>3. Same(w, u) BY <4>2 DEF Same
      <4> QED BY <4>3 DEF u, w
    <3>6. CASE to # "Number"
      <4>0. to \in {"Int", "UInt"} BY <2>4, <3>6 DEF NumericTypes
      <4>1. u = <<to, convert_num_to_int(NumberOf(v), to)>> BY <3>4, <4>0 DEF unbox_any_ptr
      <4>2. CASE from = "Number"
        <5>1. w = <<to, convert_num_to_int(v[2], to)>>
          BY <2>2, <3>2, <4>0, <4>2 DEF convert_to, convert_to_int
        <5>2. u = w BY <3>2, <4>1, <4>2, <5>1 DEF NumberOf
        <5> HIDE DEF u, w
        <5>3. Same(w, u) BY <5>2 DEF Same
        <5> QED BY <5>3 DEF u, w
      <4>3. CASE from # "Number"
        <5>1. w = Wrapped(to, v[2]) BY <2>2, <3>2, <4>0, <4>3 DEF convert_to, convert_to_int
        <5>2. NumberOf(v) = Fin(2 * v[2]) BY <3>2, <4>3 DEF NumberOf
        <5>3. u = w BY <3>2, <4>0, <4>1, <4>3, <5>1, <5>2, NumbersWrap
        <5> HIDE DEF u, w
        <5>4. Same(w, u) BY <5>3 DEF Same
        <5> QED BY <5>4 DEF u, w
      <4> QED BY <4>2, <4>3
    <3> QED BY <3>5, <3>6
  <2> QED BY <2>1, <2>3, <2>4
<1>6. CASE conversion(from, to) = <<"FromAny", to>>
  <2>1. from = "Any" BY <1>6 DEF conversion, None, Illegal
  <2>2. v[1] = "Any" BY <2>1, TypesOfOperands, HeldValues
  <2>3. "Any" \notin Pointers BY PointerShapes DEF References_
  <2>4. box_value(v) = v[2] BY <2>2, <2>3 DEF box_value
  <2>5. w = unbox_any_ptr(v[2], to) BY <1>1, <1>2, <1>6, <2>2 DEF convert
  <2>6. u = w BY <2>4, <2>5
  <2> HIDE DEF u, w
  <2>7. Same(w, u) BY <2>6 DEF Same
  <2> QED BY <2>7 DEF u, w
<1>7. conversion(from, to) \in {None, <<"To", to>>, <<"FromAny", to>>, Illegal} BY DEF conversion
<1> QED BY <1>1, <1>3, <1>4, <1>5, <1>6, <1>7

(* A variable gives back what it was given, captured or not.               *)
LEMMA StoredIsRead ==
  ASSUME NEW c, c.to \in VariableTypes, NEW v \in Passing(c.to) \cup {Throw}
  PROVE  Same(load_local(c, store_local(c, v)), v)
<1> DEFINE s == load_local(c, store_local(c, v))
<1>0. c.to \in OperandTypes \ {"Void"} /\ "Null" \in OperandTypes \ {"Void"} BY TypesOfOperands
<1>1. CASE v = Throw
  <2>1. store_local(c, v) = Throw BY <1>1 DEF store_local
  <2>2. s = Throw BY <2>1 DEF load_local, Throw
  <2> HIDE DEF s
  <2>3. Same(s, v) BY <1>1, <2>2 DEF Same
  <2> QED BY <2>3 DEF s
<1>2. CASE v \in Passing(c.to)
  <2>1. PICK l \in OperandTypes \ {"Void"} : v \in Held(l) BY <1>0, <1>2 DEF Passing
  <2>2. v \notin {Panic, Throw} /\ v[1] \notin {"Panic", "Throw", "Garbage", "cell"} BY <2>1, HeldShape
  <2>3. s # Throw /\ box_value(s) = box_value(v)
    <3>1. CASE c.cell
      <4>1. store_local(c, v) = <<"cell", box_value(v)>> BY <2>2, <3>1 DEF store_local
      <4>2. s = unbox_any_ptr(box_value(v), c.to) BY <4>1 DEF load_local
      <4> QED BY <1>2, <4>2, OwnBox
    <3>2. CASE ~c.cell
      <4>1. store_local(c, v) = v BY <1>0, <1>2, <2>2, <3>2, RewrappedIsHeld DEF store_local
      <4>2. s = Rewrap(v, c.to) BY <2>2, <4>1 DEF load_local
      <4>3. s \in Held(c.to) BY <1>0, <1>2, <4>2, RewrappedIsHeld
      <4>4. s # Throw BY <1>0, <4>3, HeldShape
      <4>5. CASE v \in Held(c.to)
        <5>1. v = <<ShapeOf(c.to), v[2]>> BY <1>0, <4>5, HeldShape
        <5>2. Rewrap(v, c.to) = v BY <5>1 DEF Rewrap
        <5> QED BY <4>2, <4>4, <5>2
      <4>6. CASE c.to \in NullableTypes /\ v \in Held("Null")
        <5>1. v = <<"String", Nil>> /\ "String" \in Pointers BY <4>6, HeldValues, PointerShapes
        <5>2. c.to \in PointerTypes BY <4>6 DEF PointerTypes
        <5>3. ShapeOf(c.to) \in Pointers BY <5>2, PointerShapes
        <5>4. Rewrap(v, c.to) = <<ShapeOf(c.to), Nil>>
          BY <5>1, <5>3, PointerShapes DEF Rewrap, basic_ty, References_
        <5>5. \A p \in Pointers : box_value(<<p, Nil>>) = Null
          BY PointerShapes DEF box_value, References_
        <5> HIDE DEF s
        <5>6. box_value(v) = Null /\ box_value(s) = Null BY <4>2, <5>1, <5>3, <5>4, <5>5
        <5> QED BY <4>4, <5>6
      <4> QED BY <1>2, <4>5, <4>6 DEF Passing
    <3> QED BY <3>1, <3>2
  <2> HIDE DEF s
  <2>4. Same(s, v) BY <2>2, <2>3 DEF Same
  <2> QED BY <2>4 DEF s
<1> QED BY <1>1, <1>2

(* What a variable holds after an assignment is the conversion of the box  *)
(* of the value assigned.                                                  *)
LEMMA AssignmentIsOfBox ==
  ASSUME NEW c, c.to \in VariableTypes, NEW from \in OperandTypes \ {"Void"}, NEW v \in Passing(from),
         c.last = coerce(from, c.to), c.last # Illegal
  PROVE  Same(load_local(c, store_local(c, convert(c.last, v))), unbox_any_ptr(box_value(v), c.to))
<1> DEFINE w == convert(c.last, v)
           s == load_local(c, store_local(c, w))
           u == unbox_any_ptr(box_value(v), c.to)
<1>1. w \in Passing(c.to) \cup {Throw} BY CoercedIsPassing
<1>2. Same(w, u) BY ConversionIsOfBox
<1> HIDE DEF u, w
<1>3. Same(s, w) BY <1>1, StoredIsRead
<1> HIDE DEF s
<1>4. Same(s, u) BY <1>2, <1>3 DEF Same
<1> QED BY <1>4 DEF s, u, w

(* Numbers of the same value convert to the same value.                    *)
LEMMA AlikeBoxes ==
  ASSUME NEW p \in Boxes, NEW q \in Boxes, SameValue(p, q), NEW t \in VariableTypes
  PROVE  Alike(unbox_any_ptr(p, t), unbox_any_ptr(q, t))
<1> DEFINE u == unbox_any_ptr(p, t)
           w == unbox_any_ptr(q, t)
<1>1. ASSUME u = w PROVE Alike(u, w)
  <2> HIDE DEF u, w
  <2> QED BY <1>1 DEF Alike, SameValue
<1>2. CASE p = q BY <1>1, <1>2
<1>3. CASE p # q
  <2>1. /\ p[1] \in NumericTypes /\ q[1] \in NumericTypes /\ numeric(p) = numeric(q)
    BY <1>3 DEF SameValue, IsNumeric
  <2>2. /\ any_to_number(p) = any_to_number(q) /\ any_truthy(p) = any_truthy(q)
        /\ any_to_display(p) = any_to_display(q)
    BY <2>1 DEF any_to_number, any_truthy, any_to_display, IsNumeric, NumericTypes
  <2>3. CASE t = "Any"
    <3>1. u = <<"Any", p>> /\ w = <<"Any", q>> BY <2>3 DEF unbox_any_ptr
    <3>2. "Any" \notin Pointers BY PointerShapes DEF References_
    <3> HIDE DEF u, w
    <3>3. u # Throw /\ w # Throw /\ box_value(u) = p /\ box_value(w) = q
      BY <3>1, <3>2 DEF Throw, box_value
    <3>4. Alike(u, w) BY <3>3 DEF Alike
    <3> QED BY <3>4 DEF u, w
  <2>4. CASE t \in MachineTypes
    <3>1. u = w BY <2>2, <2>4 DEF unbox_any_ptr, MachineTypes, NumericTypes
    <3> QED BY <1>1, <3>1
  <2>5. CASE t \in PointerTypes
    <3>1. \A b : b[1] \in NumericTypes => b \notin ObjectsOf(t) \/ t = "String"
      <4>1. t # "String" => Tag(ShapeOf(t)) \notin NumericTypes
        BY <2>5, PointerShapes DEF Tag, References_, NumericTypes
      <4> QED BY <2>5, <4>1, ObjectsAreTagged
    <3>2. any_coerce(p, t) = any_coerce(q, t)
      BY <2>1, <2>2, <3>1 DEF any_coerce, IsInstance, Empty, NumericTypes
    <3>3. u = w BY <2>5, <3>2 DEF unbox_any_ptr, PointerTypes, NullableTypes, ClassTypes, VectorTypes
    <3> QED BY <1>1, <3>3
  <2> QED BY <2>3, <2>4, <2>5 DEF VariableTypes
<1> QED BY <1>2, <1>3

(* Assignments of values that convert alike end alike.                     *)
LEMMA AssignmentsAlike ==
  ASSUME NEW c, NEW d, c.to \in VariableTypes, d.to = c.to,
         NEW from \in OperandTypes \ {"Void"}, NEW v \in Passing(from),
         c.last = coerce(from, c.to), c.last # Illegal,
         NEW other \in OperandTypes \ {"Void"}, NEW w \in Passing(other),
         d.last = coerce(other, c.to), d.last # Illegal,
         Alike(unbox_any_ptr(box_value(v), c.to), unbox_any_ptr(box_value(w), c.to))
  PROVE  Alike(load_local(c, store_local(c, convert(c.last, v))),
               load_local(d, store_local(d, convert(d.last, w))))
<1> DEFINE m == load_local(c, store_local(c, convert(c.last, v)))
           n == load_local(d, store_local(d, convert(d.last, w)))
           p == unbox_any_ptr(box_value(v), c.to)
           q == unbox_any_ptr(box_value(w), c.to)
<1>1. Same(m, p) BY AssignmentIsOfBox
<1>2. Same(n, q) BY AssignmentIsOfBox
<1>3. Alike(p, q) OBVIOUS
<1> HIDE DEF m, n, p, q
<1>4. Alike(m, n) BY <1>1, <1>2, <1>3 DEF Same, Alike
<1> QED BY <1>4 DEF m, n

(* Coerced to a machine type, an operand is what its box converts to,      *)
(* whatever its static type.                                               *)
LEMMA MachineOperand ==
  ASSUME NEW l \in OperandTypes \ {"Void"}, NEW b \in ValuesOf(l), NEW t \in MachineTypes,
         coerce(l, t) # Illegal
  PROVE  /\ convert(coerce(l, t), Operand(b, l)) = unbox_any_ptr(b, t)
         /\ convert(coerce("Any", t), <<"Any", b>>) = unbox_any_ptr(b, t)
         /\ unbox_any_ptr(b, t) \in Held(t)
<1>1. t \in VariableTypes BY DEF VariableTypes
<1>2. Operand(b, l) \in Held(l) /\ b \in Boxes BY OperandIsHeld
<1>3. box_value(Operand(b, l)) = b BY BoxOfOperand
<1>4. unbox_any_ptr(b, t) \in Held(t)
  <2>1. unbox_any_ptr(b, t) # Throw BY DEF unbox_any_ptr, MachineTypes, NumericTypes, Throw
  <2> QED BY <1>1, <1>2, <2>1, UnboxedIsHeld
<1>5. ASSUME NEW s \in OperandTypes \ {"Void"}, NEW v \in Held(s), box_value(v) = b, coerce(s, t) # Illegal
      PROVE  convert(coerce(s, t), v) = unbox_any_ptr(b, t)
  <2> DEFINE w == convert(coerce(s, t), v)
             u == unbox_any_ptr(b, t)
  <2>1. v \in Passing(s) BY DEF Passing
  <2>2. Same(w, u) BY <1>1, <1>5, <2>1, ConversionIsOfBox
  <2>3. w \in Held(t) \cup {Throw} BY <1>5, CoercedIsHeld
  <2> HIDE DEF w, u
  <2>4. u \in Held(t) BY <1>4 DEF u
  <2>5. t \in OperandTypes \ {"Void"} BY TypesOfOperands
  <2>6. u # Throw BY <2>4, <2>5, HeldShape
  <2>7. w \in Held(t) /\ box_value(w) = box_value(u) BY <2>2, <2>3, <2>6 DEF Same
  <2>8. \A z \in Held(t) : z = <<t, z[2]>> BY HeldValues DEF MachineTypes, NumericTypes
  <2>9. \A n : box_value(<<t, n>>) = Boxed(t, n)
    <3>1. t \notin Pointers /\ t # "Any" BY PointerShapes DEF MachineTypes, NumericTypes, References_
    <3> QED BY <3>1 DEF box_value, Tag, MachineTypes, NumericTypes
  <2>10. w = u BY <2>4, <2>7, <2>8, <2>9 DEF Boxed
  <2> QED BY <2>10 DEF w, u
<1>6. convert(coerce(l, t), Operand(b, l)) = unbox_any_ptr(b, t)
  <2> DEFINE x == Operand(b, l)
  <2>1. x \in Held(l) /\ box_value(x) = b BY <1>2, <1>3
  <2> HIDE DEF x
  <2>2. convert(coerce(l, t), x) = unbox_any_ptr(b, t) BY <1>5, <2>1
  <2> QED BY <2>2 DEF x
<1>7. convert(coerce("Any", t), <<"Any", b>>) = unbox_any_ptr(b, t)
  <2> DEFINE x == <<"Any", b>>
  <2>1. x \in Held("Any") BY <1>2, HeldValues
  <2>2. box_value(x) = b
    <3>1. "Any" \notin Pointers BY PointerShapes DEF References_
    <3> QED BY <3>1 DEF box_value
  <2>3. coerce("Any", t) # Illegal /\ "Any" \in OperandTypes \ {"Void"}
    BY TypesOfOperands DEF coerce, conversion, Illegal, None, MachineTypes, NumericTypes
  <2> HIDE DEF x
  <2>4. convert(coerce("Any", t), x) = unbox_any_ptr(b, t) BY <1>5, <2>1, <2>2, <2>3
  <2> QED BY <2>4 DEF x
<1> QED BY <1>4, <1>6, <1>7

(* The outcome of an operation that the checker has typed as e.            *)
Computed(c, e, x, y) == Emit(c, convert(e.left, x), convert(e.right, y))

(* Arithmetic, shifts and bits convert their operands first.               *)
LEMMA ArithmeticAgrees ==
  ASSUME NEW op \in {"-", ">>>"} \cup Bitwise32,
         NEW l \in OperandTypes \ {"Void"}, NEW r \in OperandTypes \ {"Void"},
         NEW p \in ValuesOf(l), NEW q \in ValuesOf(r), NEW c, c.op = op, NEW d, d.op = op,
         Illegal \notin {binary_typed(op, l, r).left, binary_typed(op, l, r).right}
  PROVE  /\ binary_typed(op, "Any", "Any").ty = binary_typed(op, l, r).ty
         /\ Computed(c, binary_typed(op, l, r), Operand(p, l), Operand(q, r))
              = Computed(d, binary_typed(op, "Any", "Any"), <<"Any", p>>, <<"Any", q>>)
<1> DEFINE t == IF op = "-" THEN "Number" ELSE IF op = ">>>" THEN "UInt" ELSE "Int"
           u == IF op = "-" THEN "Number" ELSE "Int"
           a == unbox_any_ptr(p, t)
           b == unbox_any_ptr(q, u)
<1>1. \A m, n : binary_typed(op, m, n) = Typed(t, coerce(m, t), coerce(n, u))
  BY DEF binary_typed, Logical, Choices, Bitwise32, Relational
<1>2. t \in MachineTypes /\ u \in MachineTypes BY DEF MachineTypes, NumericTypes
<1>3. coerce(l, t) # Illegal /\ coerce(r, u) # Illegal BY <1>1 DEF Typed
<1> HIDE DEF t, u
<1>4. /\ convert(coerce(l, t), Operand(p, l)) = a /\ convert(coerce("Any", t), <<"Any", p>>) = a /\ a \in Held(t)
      /\ convert(coerce(r, u), Operand(q, r)) = b /\ convert(coerce("Any", u), <<"Any", q>>) = b /\ b \in Held(u)
  BY <1>2, <1>3, MachineOperand
<1> HIDE DEF a, b
<1>5. Plain(a) /\ Plain(b) BY <1>2, <1>4, HeldIsPlain, TypesOfOperands
<1>6. Emit(c, a, b) = Emit(d, a, b)
  <2>1. CASE op = "-" BY <1>5, <2>1 DEF Emit, Plain, Logical, Choices, Bitwise32, Relational
  <2>2. CASE op \in {">>>"} \cup Bitwise32
    BY <1>5, <2>2 DEF Emit, Plain, Logical, Choices, Bitwise32, Relational
  <2> QED BY <2>1, <2>2
<1>7. binary_typed(op, "Any", "Any").ty = t /\ binary_typed(op, l, r).ty = t BY <1>1 DEF Typed
<1>8. Computed(c, binary_typed(op, l, r), Operand(p, l), Operand(q, r)) = Emit(c, a, b)
  BY <1>1, <1>4 DEF Computed, Typed
<1>9. Computed(d, binary_typed(op, "Any", "Any"), <<"Any", p>>, <<"Any", q>>) = Emit(d, a, b)
  BY <1>1, <1>4 DEF Computed, Typed
<1> QED BY <1>6, <1>7, <1>8, <1>9

(* An operand and its box.                                                 *)
LEMMA OperandInBox ==
  ASSUME NEW l \in OperandTypes \ {"Void"}, NEW p \in ValuesOf(l), NEW x, x = Operand(p, l)
  PROVE  /\ p \in Boxes /\ box_value(x) = p /\ Plain(x) /\ x[1] \in Pointers \cup MachineTypes \cup {"Any"}
         /\ x[1] \in MachineTypes => l = x[1] /\ p = Boxed(x[1], x[2])
         /\ x[1] = "Number" => x[2] \in Numbers
         /\ x[1] \in {"Int", "UInt"} => x[2] \in Int
         /\ x[1] = "Boolean" => x[2] \in BOOLEAN
         /\ x[1] \in Pointers => p = IF x[2] = Nil THEN Null ELSE Boxed(Tag(x[1]), x[2])
         /\ x[1] = "Any" <=> l = "Any"
         /\ l \in NumericTypes => x[1] = l
<1>1. x \in Held(l) /\ p \in Boxes BY OperandIsHeld
<1>2. box_value(x) = p BY BoxOfOperand
<1>3. x[1] = ShapeOf(l) /\ x[1] \in Pointers \cup MachineTypes \cup {"Any"} BY <1>1, HeldShape
<1>4. Plain(x) BY <1>1, HeldIsPlain
<1>5. x[1] \in MachineTypes => l = x[1] BY <1>3 DEF ShapeOf, MachineTypes, NumericTypes
<1>6. "Any" \notin Pointers /\ \A t \in MachineTypes : t \notin Pointers
  BY PointerShapes DEF References_, MachineTypes, NumericTypes
<1>7. x[1] \in MachineTypes => box_value(x) = Boxed(x[1], x[2])
  BY <1>6 DEF box_value, Tag, MachineTypes, NumericTypes
<1>8. x[1] \in Pointers => box_value(x) = IF x[2] = Nil THEN Null ELSE Boxed(Tag(x[1]), x[2])
  BY <1>6 DEF box_value
<1>9. x[1] = "Any" <=> l = "Any" BY <1>3 DEF ShapeOf, ClassTypes, VectorTypes
<1>10. l \in NumericTypes => x[1] = l BY <1>3 DEF ShapeOf, NumericTypes, ClassTypes, VectorTypes
<1>11. /\ x[1] = "Number" => x[2] \in Numbers
       /\ x[1] \in {"Int", "UInt"} => x[2] \in Int
       /\ x[1] = "Boolean" => x[2] \in BOOLEAN
  <2>1. x[1] \in MachineTypes => x \in Held(x[1]) BY <1>1, <1>5
  <2> QED BY <2>1, HeldValues, HalfIsPositive DEF MachineTypes, NumericTypes, Ints, UInts
<1> QED BY <1>1, <1>2, <1>3, <1>4, <1>5, <1>7, <1>8, <1>9, <1>10, <1>11

(* Objects of different kinds, and texts, have different names.            *)
LEMMA NamesAreUnique ==
  ASSUME NEW p \in Boxes, NEW q \in Boxes,
         p[1] \in {"String", "Object", "Array", "Vector"}, q[1] \in {"String", "Object", "Array", "Vector"},
         p[2] = q[2]
  PROVE  p = q
<1> DEFINE kinds == {"Object", "Array", "Vector"}
<1>1. ASSUME NEW b \in Boxes, b[1] \in kinds
      PROVE  \E s, id : s \in DOMAIN Instances /\ id \in Instances[s] /\ b = Boxed(TagOf(s), Ref(id))
  <2>1. b \in References BY <1>1, BoxCases DEF Undefined, Null, Boxed
  <2>2. PICK t \in DOMAIN Instances : b \in ObjectsOf(t) BY <2>1 DEF References
  <2>3. PICK s \in DOMAIN Instances : b \in {Boxed(TagOf(s), Ref(id)) : id \in Instances[s]}
    BY <2>2 DEF ObjectsOf
  <2> QED BY <2>3
<1>2. ASSUME NEW b \in Boxes, b[1] = "String" PROVE b[2][1] = "text"
  BY <1>2, BoxCases DEF Undefined, Null, Boxed, References_
<1>3. p = Boxed(p[1], p[2]) /\ q = Boxed(q[1], q[2]) BY BoxCases
<1>4. CASE p[1] = "String" /\ q[1] = "String" BY <1>3, <1>4
<1>5. CASE p[1] \in kinds /\ q[1] \in kinds
  <2>1. PICK s, id : s \in DOMAIN Instances /\ id \in Instances[s] /\ p = Boxed(TagOf(s), Ref(id)) BY <1>1, <1>5
  <2>2. PICK t, id2 : t \in DOMAIN Instances /\ id2 \in Instances[t] /\ q = Boxed(TagOf(t), Ref(id2)) BY <1>1, <1>5
  <2>3. id = id2 BY <2>1, <2>2 DEF Boxed, Ref
  <2>4. s = t BY <2>1, <2>2, <2>3 DEF Instances
  <2> QED BY <2>1, <2>2, <2>3, <2>4
<1>6. ASSUME NEW a \in Boxes, NEW b \in Boxes, a[1] = "String", b[1] \in kinds PROVE a[2] # b[2]
  <2>1. b[2][1] = "ref" BY <1>1, <1>6 DEF Boxed, Ref
  <2> QED BY <1>2, <1>6, <2>1
<1> QED BY <1>4, <1>5, <1>6

(* Two pointers are the same where their boxes are equal.                  *)
LEMMA PointersCompare ==
  ASSUME NEW a, NEW b, NEW p \in Boxes, NEW q \in Boxes,
         {a[1], b[1]} \subseteq ByIdentity \cup {"String"},
         p = IF a[2] = Nil THEN Null ELSE Boxed(Tag(a[1]), a[2]),
         q = IF b[2] = Nil THEN Null ELSE Boxed(Tag(b[1]), b[2])
  PROVE  (any_strict_equals(p, q) <=> a[2] = b[2]) /\ (any_equals(p, q) <=> a[2] = b[2])
<1> DEFINE kinds == {"String", "Object", "Array", "Vector"}
<1>1. Tag(a[1]) \in kinds /\ Tag(b[1]) \in kinds BY DEF ByIdentity, Tag
<1>2. /\ p[1] \in kinds \cup {"Null"} /\ (p[1] = "Null" <=> a[2] = Nil) /\ (a[2] # Nil => p[2] = a[2])
      /\ q[1] \in kinds \cup {"Null"} /\ (q[1] = "Null" <=> b[2] = Nil) /\ (b[2] # Nil => q[2] = b[2])
      /\ (a[2] = Nil => p[2] = 0) /\ (b[2] = Nil => q[2] = 0)
  BY <1>1 DEF Boxed, Null
<1>3. a[2] # Nil /\ b[2] # Nil /\ p[2] = q[2] => p[1] = q[1] BY <1>2, NamesAreUnique
<1>4. any_strict_equals(p, q) <=> p[1] = q[1] /\ p[2] = q[2]
  BY <1>2 DEF any_strict_equals, IsNumeric, NumericTypes
<1>5. any_strict_equals(p, q) <=> a[2] = b[2] BY <1>2, <1>3, <1>4
<1>6. CASE Nil \in {a[2], b[2]}
  <2>1. any_equals(p, q) <=> {p[1], q[1]} \subseteq Empty BY <1>2, <1>6 DEF any_equals, Empty
  <2> QED BY <1>2, <1>5, <1>6, <2>1 DEF Empty
<1>7. CASE Nil \notin {a[2], b[2]}
  <2>1. any_equals(p, q) <=> IF p[1] = q[1] THEN p[2] = q[2]
                             ELSE Compare("==", any_to_number(p), any_to_number(q))
    BY <1>2, <1>7 DEF any_equals, Empty, MachineTypes, NumericTypes
  <2>2. p[1] # q[1] => ~Compare("==", any_to_number(p), any_to_number(q))
    <3>1. \A z \in {p, q} : z[1] \in {"Object", "Array", "Vector"} => any_to_number(z) = NaN
      BY DEF any_to_number, IsNumeric, NumericTypes
    <3>2. p[1] # q[1] => NaN \in {any_to_number(p), any_to_number(q)} BY <1>2, <1>7, <3>1
    <3> QED BY <3>2 DEF Compare
  <2> QED BY <1>2, <1>3, <1>5, <1>7, <2>1, <2>2
<1> QED BY <1>5, <1>6, <1>7

(* The equality of machine values, and of pointers, is that of their boxes.*)
LEMMA EqualityOfBoxes ==
  ASSUME NEW l \in OperandTypes \ {"Void"}, NEW r \in OperandTypes \ {"Void"},
         NEW p \in ValuesOf(l), NEW q \in ValuesOf(r)
  PROVE  /\ equality(Operand(p, l), Operand(q, r), TRUE) <=> any_strict_equals(p, q)
         /\ equality(Operand(p, l), Operand(q, r), FALSE) <=> any_equals(p, q)
<1> DEFINE a == Operand(p, l)
           b == Operand(q, r)
           numbers == {a[1], b[1]} \subseteq NumericTypes
           booleans == a[1] = "Boolean" /\ b[1] = "Boolean"
           pointers == {a[1], b[1]} \subseteq ByIdentity \cup {"String"}
<1>1. /\ p \in Boxes /\ box_value(a) = p
      /\ a[1] \in MachineTypes => p = Boxed(a[1], a[2])
      /\ a[1] = "Boolean" => a[2] \in BOOLEAN
      /\ a[1] \in Pointers => p = IF a[2] = Nil THEN Null ELSE Boxed(Tag(a[1]), a[2])
  BY OperandInBox
<1>2. /\ q \in Boxes /\ box_value(b) = q
      /\ b[1] \in MachineTypes => q = Boxed(b[1], b[2])
      /\ b[1] = "Boolean" => b[2] \in BOOLEAN
      /\ b[1] \in Pointers => q = IF b[2] = Nil THEN Null ELSE Boxed(Tag(b[1]), b[2])
  BY OperandInBox
<1> HIDE DEF a, b
<1>3. CASE numbers
  <2>1. /\ equality(a, b, TRUE) = Compare("==", NumberOf(a), NumberOf(b))
        /\ equality(a, b, FALSE) = Compare("==", NumberOf(a), NumberOf(b))
    BY <1>3 DEF equality, NumericTypes, ByIdentity
  <2>2. /\ p[1] \in NumericTypes /\ q[1] \in NumericTypes
        /\ numeric(p) = NumberOf(a) /\ numeric(q) = NumberOf(b)
    BY <1>1, <1>2, <1>3 DEF MachineTypes, Boxed, numeric, NumberOf
  <2>3. any_strict_equals(p, q) <=> Compare("==", numeric(p), numeric(q))
    BY <2>2 DEF any_strict_equals, IsNumeric
  <2>4. any_to_number(p) = numeric(p) /\ any_to_number(q) = numeric(q)
    BY <2>2 DEF any_to_number, IsNumeric, NumericTypes
  <2>5. any_equals(p, q) <=> Compare("==", numeric(p), numeric(q))
    BY <2>2, <2>4 DEF any_equals, Empty, MachineTypes, NumericTypes
  <2> QED BY <2>1, <2>2, <2>3, <2>5 DEF a, b
<1>4. CASE booleans
  <2>1. equality(a, b, TRUE) = (a[2] = b[2]) /\ equality(a, b, FALSE) = (a[2] = b[2])
    BY <1>4 DEF equality, NumericTypes, ByIdentity
  <2>2. p[1] = "Boolean" /\ q[1] = "Boolean" /\ p[2] = a[2] /\ q[2] = b[2]
    BY <1>1, <1>2, <1>4 DEF MachineTypes, Boxed
  <2>3. any_strict_equals(p, q) <=> a[2] = b[2]
    BY <2>2 DEF any_strict_equals, IsNumeric, NumericTypes
  <2>4. any_equals(p, q) <=> Compare("==", any_to_number(p), any_to_number(q))
    BY <2>2 DEF any_equals, Empty, MachineTypes
  <2>5. any_to_number(p) = Fin(IF a[2] THEN 2 ELSE 0) /\ any_to_number(q) = Fin(IF b[2] THEN 2 ELSE 0)
    BY <2>2 DEF any_to_number, IsNumeric, NumericTypes
  <2>6. Fin(2) # Fin(0) /\ Fin(0) # NaN /\ Fin(2) # NaN BY DEF Fin, NaN
  <2>7. Compare("==", any_to_number(p), any_to_number(q)) <=> a[2] = b[2]
    BY <1>1, <1>2, <1>4, <2>5, <2>6, EqualNumbers
  <2> QED BY <2>1, <2>3, <2>4, <2>7 DEF a, b
<1>5. CASE pointers
  <2>1. equality(a, b, TRUE) = (a[2] = b[2]) /\ equality(a, b, FALSE) = (a[2] = b[2])
    BY <1>5 DEF equality, NumericTypes, ByIdentity
  <2>2. a[1] \in Pointers /\ b[1] \in Pointers BY <1>5, PointerShapes DEF ByIdentity, References_
  <2>3. (any_strict_equals(p, q) <=> a[2] = b[2]) /\ (any_equals(p, q) <=> a[2] = b[2])
    BY <1>1, <1>2, <1>5, <2>2, PointersCompare
  <2> QED BY <2>1, <2>3 DEF a, b
<1>6. CASE ~numbers /\ ~booleans /\ ~pointers
  <2>1. equality(a, b, TRUE) = any_strict_equals(p, q) /\ equality(a, b, FALSE) = any_equals(p, q)
    BY <1>1, <1>2, <1>6 DEF equality
  <2> QED BY <2>1 DEF a, b
<1> QED BY <1>3, <1>4, <1>5, <1>6

(* The order of two operands that are not numbers is that of their boxes.  *)
LEMMA OrderOfBoxes ==
  ASSUME NEW op \in Relational,
         NEW l \in OperandTypes \ {"Void"}, NEW r \in OperandTypes \ {"Void"},
         {l, r} \cap NumericTypes = {},
         NEW p \in ValuesOf(l), NEW q \in ValuesOf(r)
  PROVE  relational(op, Operand(p, l), Operand(q, r)) <=> any_cmp(op, p, q)
<1> DEFINE a == Operand(p, l)
           b == Operand(q, r)
<1>0. l # "Number" /\ r # "Number" /\ "Number" \in MachineTypes BY DEF MachineTypes, NumericTypes
<1>1. /\ p \in Boxes /\ box_value(a) = p /\ a[1] # "Number"
      /\ a[1] \in Pointers => p = IF a[2] = Nil THEN Null ELSE Boxed(Tag(a[1]), a[2])
  BY <1>0, OperandInBox
<1>2. /\ q \in Boxes /\ box_value(b) = q /\ b[1] # "Number"
      /\ b[1] \in Pointers => q = IF b[2] = Nil THEN Null ELSE Boxed(Tag(b[1]), b[2])
  BY <1>0, OperandInBox
<1> HIDE DEF a, b
<1>3. CASE a[1] = "String" /\ b[1] = "String"
  <2> DEFINE num(s) == IF s = Nil THEN Fin(0) ELSE string_to_number(s[2])
  <2>1. relational(op, a, b) = string_cmp(op, a[2], b[2]) BY <1>3 DEF relational
  <2>2. Tag("String") = "String" /\ "String" \in Pointers BY PointerShapes DEF Tag
  <2>3. /\ p = IF a[2] = Nil THEN Null ELSE Boxed("String", a[2])
        /\ q = IF b[2] = Nil THEN Null ELSE Boxed("String", b[2])
    BY <1>1, <1>2, <1>3, <2>2
  <2>4. CASE Nil \notin {a[2], b[2]}
    <3>1. p[1] = "String" /\ q[1] = "String" /\ p[2] = a[2] /\ q[2] = b[2]
      BY <2>3, <2>4 DEF Boxed
    <3>2. any_cmp(op, p, q) = string_cmp(op, a[2], b[2]) BY <3>1 DEF any_cmp
    <3> QED BY <2>1, <3>2 DEF a, b
  <2>5. CASE Nil \in {a[2], b[2]}
    <3>1. string_cmp(op, a[2], b[2]) = Compare(op, num(a[2]), num(b[2])) BY <2>5 DEF string_cmp
    <3>2. "Null" \in {p[1], q[1]} BY <2>3, <2>5 DEF Null, Boxed
    <3>3. any_cmp(op, p, q) = Compare(op, any_to_number(p), any_to_number(q)) BY <3>2 DEF any_cmp
    <3>4. ASSUME NEW z, NEW s, z = IF s = Nil THEN Null ELSE Boxed("String", s)
          PROVE  any_to_number(z) = num(s)
      BY <3>4 DEF any_to_number, IsNumeric, NumericTypes, Null, Boxed
    <3>5. any_to_number(p) = num(a[2]) /\ any_to_number(q) = num(b[2]) BY <2>3, <3>4
    <3> QED BY <2>1, <3>1, <3>3, <3>5 DEF a, b
  <2> QED BY <2>4, <2>5
<1>4. CASE ~(a[1] = "String" /\ b[1] = "String")
  <2>1. relational(op, a, b) = any_cmp(op, p, q) BY <1>1, <1>2, <1>4 DEF relational
  <2> QED BY <2>1 DEF a, b
<1> QED BY <1>3, <1>4

(* Comparing and testing for equality.                                     *)
LEMMA ComparisonAgrees ==
  ASSUME NEW op \in Relational \cup Equality,
         NEW l \in OperandTypes \ {"Void"}, NEW r \in OperandTypes \ {"Void"},
         NEW p \in ValuesOf(l), NEW q \in ValuesOf(r), NEW c, c.op = op, NEW d, d.op = op,
         Illegal \notin {binary_typed(op, l, r).left, binary_typed(op, l, r).right}
  PROVE  /\ binary_typed(op, "Any", "Any").ty = binary_typed(op, l, r).ty
         /\ Computed(c, binary_typed(op, l, r), Operand(p, l), Operand(q, r))
              = Computed(d, binary_typed(op, "Any", "Any"), <<"Any", p>>, <<"Any", q>>)
<1> DEFINE numbers == op \in Relational /\ {l, r} \cap NumericTypes # {}
           e == binary_typed(op, l, r)
           f == binary_typed(op, "Any", "Any")
           x == Operand(p, l)
           y == Operand(q, r)
           u == <<"Any", p>>
           w == <<"Any", q>>
           test(strict, loose) == IF op \in {"==", "!="} THEN loose = (op = "==") ELSE strict = (op = "===")
<1>1. e = IF numbers THEN Typed("Boolean", coerce(l, "Number"), coerce(r, "Number"))
          ELSE Typed("Boolean", None, None)
  BY DEF binary_typed, Logical, Choices, Bitwise32, Relational, Equality
<1>2. f = Typed("Boolean", None, None)
  BY DEF binary_typed, Logical, Choices, Bitwise32, Relational, Equality, NumericTypes
<1>3. \A v : convert(None, v) = v BY DEF convert, None
<1>4. p \in Boxes /\ q \in Boxes BY OperandIsHeld
<1>5. Plain(u) /\ Plain(w) /\ box_value(u) = p /\ box_value(w) = q
  <2>1. "Any" \notin Pointers BY PointerShapes DEF References_
  <2> QED BY <2>1 DEF Plain, Panic, Throw, box_value
<1>6. e.ty = "Boolean" /\ f.ty = "Boolean" /\ f.left = None /\ f.right = None BY <1>1, <1>2 DEF Typed
<1>7. Computed(d, f, u, w) = Emit(d, u, w) BY <1>3, <1>6 DEF Computed
<1>8. ASSUME NEW k, k.op = op, NEW a, NEW b, Plain(a), Plain(b)
      PROVE  Emit(k, a, b) = Bool(IF op \in Relational THEN relational(op, a, b)
                                  ELSE test(equality(a, b, TRUE), equality(a, b, FALSE)))
  <2>1. CASE op \in Relational BY <1>8, <2>1 DEF Emit, Plain, Logical, Choices, Bitwise32, Relational
  <2>2. CASE op \in {"==", "!="} BY <1>8, <2>2 DEF Emit, Plain, Logical, Choices, Bitwise32, Relational
  <2>3. CASE op \in {"===", "!=="} BY <1>8, <2>3 DEF Emit, Plain, Logical, Choices, Bitwise32, Relational
  <2> QED BY <2>1, <2>2, <2>3 DEF Equality
<1>9. CASE op \in Relational
  <2>1. relational(op, u, w) = any_cmp(op, p, q) BY <1>5 DEF relational
  <2>2. Emit(d, u, w) = Bool(any_cmp(op, p, q))
    <3> HIDE DEF u, w
    <3> QED BY <1>5, <1>8, <1>9, <2>1
  <2>3. CASE numbers
    <3>1. e.left = coerce(l, "Number") /\ e.right = coerce(r, "Number") BY <1>1, <2>3 DEF Typed
    <3>2. "Number" \in MachineTypes BY DEF MachineTypes, NumericTypes
    <3>3. coerce(l, "Number") # Illegal /\ coerce(r, "Number") # Illegal BY <3>1
    <3> DEFINE a == unbox_any_ptr(p, "Number")
               b == unbox_any_ptr(q, "Number")
    <3>4. convert(e.left, x) = a /\ convert(e.right, y) = b /\ a \in Held("Number") /\ b \in Held("Number")
      <4>1. convert(coerce(l, "Number"), x) = a /\ a \in Held("Number") BY <3>2, <3>3, MachineOperand
      <4>2. convert(coerce(r, "Number"), y) = b /\ b \in Held("Number") BY <3>2, <3>3, MachineOperand
      <4> HIDE DEF a, b, e, x, y
      <4> QED BY <3>1, <4>1, <4>2
    <3>5. a = <<"Number", any_to_number(p)>> /\ b = <<"Number", any_to_number(q)>> BY DEF unbox_any_ptr
    <3>6. relational(op, a, b) = Compare(op, any_to_number(p), any_to_number(q)) BY <3>5 DEF relational
    <3>7. "String" \notin {p[1]} \cap {q[1]}
      <4>1. \A t \in NumericTypes : \A z \in ValuesOf(t) : z[1] = t
        BY BoxOfOperand, TypesOfOperands DEF MachineTypes
      <4> QED BY <2>3, <4>1 DEF NumericTypes
    <3>8. any_cmp(op, p, q) = Compare(op, any_to_number(p), any_to_number(q)) BY <3>7 DEF any_cmp
    <3>9. Plain(a) /\ Plain(b) BY <3>4, HeldIsPlain, TypesOfOperands DEF MachineTypes, NumericTypes
    <3> HIDE DEF a, b, e, f, u, w, x, y
    <3>10. Emit(c, a, b) = Bool(relational(op, a, b)) BY <1>8, <1>9, <3>9
    <3>11. Computed(c, e, x, y) = Emit(c, a, b) BY <3>4 DEF Computed
    <3>12. Computed(c, e, x, y) = Computed(d, f, u, w) BY <1>7, <2>2, <3>6, <3>8, <3>10, <3>11
    <3> QED BY <1>6, <3>12 DEF e, f, x, y, u, w
  <2>4. CASE ~numbers
    <3>1. e.left = None /\ e.right = None BY <1>1, <2>4 DEF Typed
    <3>2. {l, r} \cap NumericTypes = {} BY <1>9, <2>4
    <3>3. relational(op, x, y) <=> any_cmp(op, p, q) BY <1>9, <3>2, OrderOfBoxes
    <3>4. Plain(x) /\ Plain(y) /\ x \in Held(l) /\ y \in Held(r)
      BY OperandInBox, OperandIsHeld
    <3>5. relational(op, x, y) \in BOOLEAN /\ any_cmp(op, p, q) \in BOOLEAN
      BY DEF relational, any_cmp, string_cmp, Compare
    <3> HIDE DEF e, f, u, w, x, y
    <3>6. Computed(c, e, x, y) = Bool(relational(op, x, y)) BY <1>3, <1>8, <1>9, <3>1, <3>4 DEF Computed
    <3>7. relational(op, x, y) = any_cmp(op, p, q) BY <3>3, <3>5
    <3>8. Computed(c, e, x, y) = Computed(d, f, u, w) BY <1>7, <2>2, <3>6, <3>7
    <3> QED BY <1>6, <3>8 DEF e, f, x, y, u, w
  <2> QED BY <2>3, <2>4
<1>10. CASE op \notin Relational
  <2>1. e.left = None /\ e.right = None BY <1>1, <1>10 DEF Typed
  <2>2. /\ equality(x, y, TRUE) <=> any_strict_equals(p, q)
        /\ equality(x, y, FALSE) <=> any_equals(p, q)
    BY EqualityOfBoxes
  <2>3. /\ equality(u, w, TRUE) = any_strict_equals(p, q)
        /\ equality(u, w, FALSE) = any_equals(p, q)
    BY <1>5 DEF equality, NumericTypes, ByIdentity
  <2>4. Plain(x) /\ Plain(y) BY OperandInBox
  <2>5. /\ equality(x, y, TRUE) \in BOOLEAN /\ equality(x, y, FALSE) \in BOOLEAN
        /\ any_strict_equals(p, q) \in BOOLEAN /\ any_equals(p, q) \in BOOLEAN
    <3>1. equality(u, w, TRUE) \in BOOLEAN /\ equality(u, w, FALSE) \in BOOLEAN BY EqualityIsBoolean
    <3>2. equality(x, y, TRUE) \in BOOLEAN /\ equality(x, y, FALSE) \in BOOLEAN BY EqualityIsBoolean
    <3> HIDE DEF x, y, u, w
    <3> QED BY <2>3, <3>1, <3>2
  <2> HIDE DEF e, f, u, w, x, y, test
  <2>6. equality(x, y, TRUE) = equality(u, w, TRUE) /\ equality(x, y, FALSE) = equality(u, w, FALSE)
    BY <2>2, <2>3, <2>5
  <2>7. Computed(c, e, x, y) = Emit(c, x, y) BY <1>3, <2>1 DEF Computed
  <2>8. Emit(c, x, y) = Emit(d, u, w) BY <1>5, <1>8, <1>10, <2>4, <2>6
  <2>9. Computed(c, e, x, y) = Computed(d, f, u, w) BY <1>7, <2>7, <2>8
  <2> QED BY <1>6, <2>9 DEF e, f, x, y, u, w
<1> QED BY <1>9, <1>10

(* The truth of a value is that of its box.                                *)
LEMMA TruthOfBox ==
  ASSUME NEW t \in OperandTypes \ {"Void"}, NEW v \in Held(t)
  PROVE  truthy(v) <=> any_truthy(box_value(v))
<1>1. v[1] \in Pointers \cup MachineTypes \cup {"Any"} /\ v[1] = ShapeOf(t) BY HeldShape
<1>2. CASE v[1] \in {"String", "Any"} BY <1>2 DEF truthy
<1>3. CASE v[1] \in MachineTypes
  <2>1. t = v[1] BY <1>1, <1>3 DEF ShapeOf, MachineTypes, NumericTypes
  <2>2. box_value(v) = Boxed(v[1], v[2])
    <3>1. v[1] \notin Pointers /\ v[1] # "Any" BY <1>3, PointerShapes DEF MachineTypes, NumericTypes, References_
    <3> QED BY <1>3, <3>1 DEF box_value, Tag, MachineTypes, NumericTypes
  <2>3. CASE v[1] = "Boolean" BY <2>2, <2>3 DEF truthy, any_truthy, Boxed, IsNumeric, NumericTypes
  <2>4. CASE v[1] = "Number"
    BY <2>2, <2>4 DEF truthy, any_truthy, Boxed, IsNumeric, NumericTypes, numeric
  <2>5. CASE v[1] \in {"Int", "UInt"}
    <3>1. v[2] \in Int BY <2>1, <2>5, HeldValues, HalfIsPositive DEF Ints, UInts
    <3>2. Fin(2 * v[2]) = Fin(0) <=> v[2] = 0 BY <3>1 DEF Fin
    <3>3. Fin(2 * v[2]) # NaN BY DEF Fin, NaN
    <3>4. any_truthy(box_value(v)) <=> Fin(2 * v[2]) \notin {Fin(0), NaN}
      BY <2>2, <2>5 DEF any_truthy, Boxed, IsNumeric, NumericTypes, numeric
    <3> QED BY <2>5, <3>2, <3>3, <3>4 DEF truthy
  <2> QED BY <1>3, <2>3, <2>4, <2>5 DEF MachineTypes, NumericTypes
<1>4. CASE v[1] \in Pointers \ {"String"}
  <2>1. v[1] \notin {"String", "Any"} \cup MachineTypes
    BY <1>4, PointerShapes DEF MachineTypes, NumericTypes, References_
  <2>2. truthy(v) <=> v[2] # Nil BY <2>1 DEF truthy, MachineTypes, NumericTypes
  <2>3. box_value(v) = IF v[2] = Nil THEN Null ELSE Boxed(Tag(v[1]), v[2]) BY <1>4, <2>1 DEF box_value
  <2>4. any_truthy(Null) = FALSE BY DEF any_truthy, Null, Boxed, IsNumeric, NumericTypes
  <2>5. Tag(v[1]) \in References_ BY <1>4, PointerShapes DEF Tag, References_
  <2>6. v[2] # Nil => any_truthy(Boxed(Tag(v[1]), v[2]))
    BY <2>5 DEF any_truthy, Boxed, References_, IsNumeric, NumericTypes
  <2> QED BY <2>2, <2>3, <2>4, <2>6
<1> QED BY <1>1, <1>2, <1>3, <1>4

(* A condition converts to the truth of its box, any operand to its box.   *)
LEMMA TruthAndBox ==
  ASSUME NEW l \in OperandTypes \ {"Void"}, NEW p \in ValuesOf(l)
  PROVE  /\ convert(coerce_condition(l), Operand(p, l)) = <<"Boolean", any_truthy(p)>>
         /\ convert(IF l = "Boolean" THEN None ELSE <<"To", "Boolean">>, Operand(p, l)) = <<"Boolean", any_truthy(p)>>
         /\ Plain(convert(coerce_to_any(l), Operand(p, l)))
         /\ box_value(convert(coerce_to_any(l), Operand(p, l))) = p
         /\ l # "Null" => convert(coerce_to_any(l), Operand(p, l)) = <<"Any", p>>
<1> DEFINE x == Operand(p, l)
<1>1. /\ p \in Boxes /\ x \in Held(l) /\ box_value(x) = p /\ Plain(x)
      /\ x[1] = ShapeOf(l)
  <2>1. x \in Held(l) BY OperandIsHeld
  <2>2. x[1] = ShapeOf(l) BY <2>1, HeldShape
  <2> QED BY <2>1, <2>2, OperandInBox
<1> HIDE DEF x
<1>2. truthy(x) = any_truthy(p)
  <2>1. truthy(x) <=> any_truthy(p) BY <1>1, TruthOfBox
  <2>2. truthy(x) \in BOOLEAN /\ any_truthy(p) \in BOOLEAN BY <1>1, TruthIsBoolean, BoxesAreRead
  <2> QED BY <2>1, <2>2
<1>3. convert(None, x) = x BY DEF convert, None
<1>4. convert(<<"To", "Boolean">>, x) = <<"Boolean", any_truthy(p)>>
  BY <1>1, <1>2 DEF convert, convert_to, Bool, Plain
<1>5. l = "Boolean" => x = <<"Boolean", any_truthy(p)>>
  <2>1. l = "Boolean" => x = <<"Boolean", x[2]>> BY <1>1, HeldValues
  <2>2. l = "Boolean" => truthy(x) = x[2] BY <2>1 DEF truthy
  <2> QED BY <1>2, <2>1, <2>2
<1>6. l # "Void" => coerce_condition(l) = IF l = "Boolean" THEN None ELSE <<"To", "Boolean">>
  BY DEF coerce_condition
<1>7. convert(<<"To", "Any">>, x) = <<"Any", p>> BY <1>1 DEF convert, convert_to, Plain
<1>8. Plain(<<"Any", p>>) /\ box_value(<<"Any", p>>) = p
  <2>1. "Any" \notin Pointers BY PointerShapes DEF References_
  <2> QED BY <2>1 DEF Plain, Panic, Throw, box_value
<1>9. coerce_to_any(l) = IF l \in {"Any", "Null"} THEN None ELSE <<"To", "Any">> BY DEF coerce_to_any
<1>10. l = "Any" => x = <<"Any", p>> BY DEF x, Operand
<1> QED BY <1>1, <1>3, <1>4, <1>5, <1>6, <1>7, <1>8, <1>9, <1>10 DEF x

(* Some null references have no text of their own, or one that no box has. *)
HasText(l, p) == p = Null => l \in {"Any", "String", "Null", "I"} \cup ClassTypes

(* The text an operand brings to a concatenation is that of its box.       *)
LEMMA TextOfOperand ==
  ASSUME NEW l \in OperandTypes \ {"Void"}, NEW p \in ValuesOf(l), HasText(l, p),
         NEW a, a = convert(concat_operand(l), Operand(p, l))
  PROVE  /\ a \in Held("String") /\ a[1] = "String"
         /\ (IF a[2] = Nil THEN Lit("null") ELSE a[2][2]) = any_to_display(p)
         /\ p # Null => a[2] # Nil
<1> DEFINE x == Operand(p, l)
           text(s) == IF s = Nil THEN Lit("null") ELSE s[2]
<1>1. /\ p \in Boxes /\ box_value(x) = p /\ Plain(x) /\ x \in Held(l)
      /\ x[1] \in Pointers => p = IF x[2] = Nil THEN Null ELSE Boxed(Tag(x[1]), x[2])
      /\ x[1] = ShapeOf(l)
  <2>1. x \in Held(l) BY OperandIsHeld
  <2>2. x[1] = ShapeOf(l) BY <2>1, HeldShape
  <2> QED BY <2>1, <2>2, OperandInBox
<1>2. any_to_display(Null) = Lit("null") BY DEF any_to_display, Null, Boxed, IsNumeric, NumericTypes
<1>3. {"String", "Function", "Socket", "Namespace", "Array", "VecP", "RegExp", "Date"} \subseteq Pointers
  BY PointerShapes DEF References_
<1> HIDE DEF x
<1>4. ASSUME NEW s, s \in Strings, a = <<"String", s>>, text(s) = any_to_display(p), p # Null => s # Nil
      PROVE  /\ a \in Held("String") /\ a[1] = "String"
             /\ (IF a[2] = Nil THEN Lit("null") ELSE a[2][2]) = any_to_display(p)
             /\ p # Null => a[2] # Nil
  BY <1>4, HeldValues
<1>5. CASE x[1] = "String"
  <2>1. l \in {"String", "Null"} BY <1>1, <1>5 DEF ShapeOf, OperandTypes, VariableTypes
  <2>2. x = <<"String", x[2]>> /\ x[2] \in Strings
    <3>1. l = "Null" => x = <<"String", Nil>> /\ Nil \in Strings BY <1>1, HeldValues DEF Strings
    <3>2. l = "String" => x = <<"String", x[2]>> /\ x[2] \in Strings BY <1>1, HeldValues
    <3> QED BY <2>1, <3>1, <3>2
  <2>3. text(x[2]) = any_to_display(p) /\ (p # Null => x[2] # Nil)
    <3>1. CASE x[2] = Nil BY <1>1, <1>2, <1>3, <1>5, <3>1
    <3>2. CASE x[2] # Nil
      <4>1. p = Boxed("String", x[2]) BY <1>1, <1>3, <1>5, <3>2 DEF Tag
      <4> QED BY <3>2, <4>1 DEF any_to_display, Boxed, IsNumeric, NumericTypes
    <3> QED BY <3>1, <3>2
  <2>4. a = x
    <3>1. a = convert(concat_operand(l), x) BY DEF x
    <3>2. x[1] # "Void" /\ x \notin {Panic, Throw} BY <1>1 DEF Plain
    <3>3. x[2][1] # "throw" BY <2>2, TextIsString, <1>1
    <3>4. stringify(x) = x[2] BY <1>5 DEF stringify
    <3>5. convert(<<"To", "String">>, x) = convert_to(x, "String") BY <3>2 DEF convert
    <3>6. convert_to(x, "String") = x BY <2>2, <3>3, <3>4 DEF convert_to
    <3> QED BY <3>1, <3>5, <3>6 DEF concat_operand, convert, None
  <2> QED BY <1>4, <2>2, <2>3, <2>4
<1>6. CASE x[1] # "String"
  <2> DEFINE s == stringify(x)
  <2>0. l # "String" BY <1>1, <1>6 DEF ShapeOf, ClassTypes, VectorTypes
  <2>1. a = convert(<<"To", "String">>, x) BY <2>0 DEF concat_operand, x
  <2>2. a = IF s[1] = "throw" THEN Throw ELSE <<"String", s>>
    BY <1>1, <2>1 DEF convert, convert_to, Plain
  <2>3. x[1] \in {"Array", "VecP", "RegExp", "Date", "Namespace", "Function", "Socket"} => x[2] # Nil /\ p = Boxed(Tag(x[1]), x[2])
    <3>1. x[1] \in {"Array", "VecP", "RegExp", "Date", "Namespace", "Function", "Socket"}
            => l \notin {"Any", "String", "Null", "I"} \cup ClassTypes
      BY <1>1 DEF ShapeOf, ClassTypes, VectorTypes
    <3>2. x[1] \in {"Array", "VecP", "RegExp", "Date", "Namespace", "Function", "Socket"} => p # Null
      BY <3>1 DEF HasText
    <3> QED BY <1>1, <1>3, <3>2
  <2>4. CASE x[1] \in {"Function", "Socket"}
    <3>1. s = Str(Lit(x[1])) BY <1>6, <2>4 DEF stringify
    <3>2. p = Boxed(x[1], x[2]) /\ x[2] # Nil BY <2>3, <2>4 DEF Tag
    <3>3. any_to_display(p) = Lit(x[1])
      BY <2>4, <3>2 DEF any_to_display, Boxed, IsNumeric, NumericTypes
    <3>4. s \in Strings /\ s[1] # "throw" /\ s # Nil /\ s[2] = Lit(x[1])
      <4>1. Lit("Function") \in Seq(Atoms) /\ Lit("Socket") \in Seq(Atoms) BY TextsAreAtoms DEF Words
      <4> QED BY <2>4, <3>1, <4>1 DEF Str, Nil, Strings
    <3> HIDE DEF s
    <3> QED BY <1>4, <2>2, <3>3, <3>4
  <2>5. CASE x[1] \notin {"Function", "Socket"}
    <3>1. s = Str(any_to_display(p)) BY <1>1, <1>6, <2>3, <2>5 DEF stringify
    <3>2. s \in Strings /\ s[1] # "throw" /\ s # Nil /\ s[2] = any_to_display(p)
      <4>1. any_to_display(p) \in Seq(Atoms) BY <1>1, BoxesAreRead
      <4> QED BY <3>1, <4>1 DEF Str, Nil, Strings
    <3> HIDE DEF s
    <3> QED BY <1>4, <2>2, <3>2
  <2> QED BY <2>4, <2>5
<1> QED BY <1>5, <1>6

(* Addition and concatenation.                                             *)
LEMMA AdditionAgrees ==
  ASSUME NEW l \in OperandTypes \ {"Void"}, NEW r \in OperandTypes \ {"Void"},
         NEW p \in ValuesOf(l), NEW q \in ValuesOf(r), NEW c, c.op = "+", NEW d, d.op = "+",
         Illegal \notin {binary_typed("+", l, r).left, binary_typed("+", l, r).right},
         "Null" \in {l, r} => "String" \in {l, r},
         HasText(l, p), HasText(r, q), "String" \in {l, r} => "String" \in {p[1], q[1]}
  PROVE  /\ binary_typed("+", "Any", "Any").ty = "Any"
         /\ Computed(d, binary_typed("+", "Any", "Any"), <<"Any", p>>, <<"Any", q>>) = <<"Any", any_add(p, q)>>
         /\ Computed(c, binary_typed("+", l, r), Operand(p, l), Operand(q, r)) # Throw
         /\ box_value(Computed(c, binary_typed("+", l, r), Operand(p, l), Operand(q, r))) = any_add(p, q)
<1> DEFINE e == binary_typed("+", l, r)
           f == binary_typed("+", "Any", "Any")
           x == Operand(p, l)
           y == Operand(q, r)
           u == <<"Any", p>>
           w == <<"Any", q>>
           a == convert(e.left, x)
           b == convert(e.right, y)
           t == IF "String" \in {l, r} THEN "String"
                ELSE IF {l, r} \subseteq NumericTypes THEN "Number" ELSE "Any"
<1>1. e = IF t = "String" THEN Typed(t, concat_operand(l), concat_operand(r))
          ELSE IF t = "Number" THEN Typed(t, coerce(l, t), coerce(r, t))
          ELSE Typed(t, coerce_to_any(l), coerce_to_any(r))
  BY DEF binary_typed, Logical, Choices, Bitwise32, Relational
<1>2. f = Typed("Any", None, None)
  BY DEF binary_typed, Logical, Choices, Bitwise32, Relational, NumericTypes, coerce_to_any
<1>3. p \in Boxes /\ q \in Boxes BY OperandIsHeld
<1>4. "Any" \notin Pointers /\ "Number" \notin Pointers /\ "String" \in Pointers
  BY PointerShapes DEF References_
<1>5. Plain(u) /\ Plain(w) /\ box_value(u) = p /\ box_value(w) = q
  BY <1>4 DEF Plain, Panic, Throw, box_value
<1>6. ASSUME NEW k, k.op = "+", NEW m, NEW n, Plain(m), Plain(n) PROVE Emit(k, m, n) = binary_add(m, n)
  BY <1>6 DEF Emit, Plain, Logical, Choices, Bitwise32, Relational
<1>7. f.ty = "Any" /\ Computed(d, f, u, w) = <<"Any", any_add(p, q)>>
  <2>1. convert(f.left, u) = u /\ convert(f.right, w) = w /\ f.ty = "Any"
    <3>1. f.left = None /\ f.right = None /\ f.ty = "Any" BY <1>2 DEF Typed
    <3> HIDE DEF f, u, w
    <3> QED BY <3>1 DEF convert, None
  <2>2. binary_add(u, w) = <<"Any", any_add(box_value(u), box_value(w))>> BY DEF binary_add
  <2> HIDE DEF f, u, w
  <2>3. Computed(d, f, u, w) = binary_add(u, w) BY <1>5, <1>6, <2>1 DEF Computed
  <2> QED BY <1>5, <2>1, <2>2, <2>3
<1>8. Computed(c, e, x, y) # Throw /\ box_value(Computed(c, e, x, y)) = any_add(p, q)
  <2>0. Computed(c, e, x, y) = Emit(c, a, b) BY DEF Computed
  <2>1. CASE t = "String"
    <3> DEFINE text(s) == IF s = Nil THEN Lit("null") ELSE s[2]
    <3>1. e.left = concat_operand(l) /\ e.right = concat_operand(r) BY <1>1, <2>1 DEF Typed
    <3>2. a \in Held("String") /\ a[1] = "String" /\ text(a[2]) = any_to_display(p)
      <4>1. a = convert(concat_operand(l), Operand(p, l)) BY <3>1
      <4> HIDE DEF a
      <4> QED BY <4>1, TextOfOperand
    <3>3. b \in Held("String") /\ b[1] = "String" /\ text(b[2]) = any_to_display(q)
      <4>1. b = convert(concat_operand(r), Operand(q, r)) BY <3>1
      <4> HIDE DEF b
      <4> QED BY <4>1, TextOfOperand
    <3>4. Plain(a) /\ Plain(b) BY <3>2, <3>3, HeldIsPlain, TypesOfOperands
    <3> HIDE DEF a, b
    <3>5. stringify(a) = a[2] /\ stringify(b) = b[2] BY <3>2, <3>3 DEF stringify
    <3>6. binary_add(a, b) = <<"String", Str(text(a[2]) \o text(b[2]))>>
      BY <3>2, <3>3, <3>5 DEF binary_add
    <3>7. Emit(c, a, b) = <<"String", Str(any_to_display(p) \o any_to_display(q))>>
      BY <1>6, <3>2, <3>3, <3>4, <3>6
    <3>8. "String" \in {p[1], q[1]} BY <2>1
    <3>9. any_add(p, q) = Boxed("String", Str(any_to_display(p) \o any_to_display(q)))
      BY <3>8 DEF any_add
    <3>10. \A s : /\ box_value(<<"String", Str(s)>>) = Boxed("String", Str(s))
                  /\ <<"String", Str(s)>> # Throw
      BY <1>4 DEF box_value, Tag, Str, Nil, Throw
    <3> HIDE DEF e, x, y
    <3> QED BY <2>0, <3>7, <3>9, <3>10
  <2>2. CASE t = "Number"
    <3>1. e.left = coerce(l, "Number") /\ e.right = coerce(r, "Number") BY <1>1, <2>2 DEF Typed
    <3>2. "Number" \in MachineTypes BY DEF MachineTypes, NumericTypes
    <3>3. coerce(l, "Number") # Illegal /\ coerce(r, "Number") # Illegal BY <3>1
    <3>4. a = unbox_any_ptr(p, "Number") /\ b = unbox_any_ptr(q, "Number")
          /\ a \in Held("Number") /\ b \in Held("Number")
      <4>1. convert(coerce(l, "Number"), x) = unbox_any_ptr(p, "Number")
            /\ unbox_any_ptr(p, "Number") \in Held("Number") BY <3>2, <3>3, MachineOperand
      <4>2. convert(coerce(r, "Number"), y) = unbox_any_ptr(q, "Number")
            /\ unbox_any_ptr(q, "Number") \in Held("Number") BY <3>2, <3>3, MachineOperand
      <4> HIDE DEF e, x, y
      <4> QED BY <3>1, <4>1, <4>2
    <3>5. Plain(a) /\ Plain(b) BY <3>4, HeldIsPlain, TypesOfOperands DEF MachineTypes, NumericTypes
    <3> HIDE DEF a, b
    <3>6. a = <<"Number", any_to_number(p)>> /\ b = <<"Number", any_to_number(q)>>
      BY <3>4 DEF unbox_any_ptr
    <3>7. Emit(c, a, b) = <<"Number", Plus(any_to_number(p), any_to_number(q))>>
      BY <1>6, <3>5, <3>6 DEF binary_add
    <3>8. "String" \notin {p[1], q[1]}
      <4>1. {l, r} \subseteq NumericTypes BY <2>2
      <4>2. \A s \in NumericTypes : \A z \in ValuesOf(s) : z[1] = s
        BY BoxOfOperand, TypesOfOperands DEF MachineTypes
      <4> QED BY <4>1, <4>2 DEF NumericTypes
    <3>9. any_add(p, q) = Boxed("Number", Plus(any_to_number(p), any_to_number(q)))
      BY <3>8 DEF any_add
    <3>10. \A n : box_value(<<"Number", n>>) = Boxed("Number", n) /\ <<"Number", n>> # Throw
      BY <1>4 DEF box_value, Tag, Throw
    <3> HIDE DEF e, x, y
    <3> QED BY <2>0, <3>7, <3>9, <3>10
  <2>3. CASE t = "Any"
    <3>1. e.left = coerce_to_any(l) /\ e.right = coerce_to_any(r) BY <1>1, <2>3 DEF Typed
    <3>2. "Null" \notin {l, r} BY <2>3
    <3>4. convert(coerce_to_any(l), x) = u /\ convert(coerce_to_any(r), y) = w BY <3>2, TruthAndBox
    <3> HIDE DEF e, x, y, u, w
    <3>5. a = u /\ b = w BY <3>1, <3>4
    <3> HIDE DEF a, b
    <3>6. Emit(c, a, b) = binary_add(u, w) BY <1>5, <1>6, <3>5
    <3>7. binary_add(u, w) = <<"Any", any_add(box_value(u), box_value(w))>> BY DEF binary_add, u, w
    <3>8. \A n : box_value(<<"Any", n>>) = n /\ <<"Any", n>> # Throw BY <1>4 DEF box_value, Throw
    <3> QED BY <1>5, <2>0, <3>6, <3>7, <3>8
  <2> QED BY <2>1, <2>2, <2>3
<1> QED BY <1>7, <1>8

(* Giving a value the shape of its type keeps its box.                     *)
LEMMA RewrapKeepsBox ==
  ASSUME NEW t \in OperandTypes \ {"Void"}, NEW v \in Passing(t)
  PROVE  box_value(Rewrap(v, t)) = box_value(v) /\ Rewrap(v, t) # Throw
<1>1. Rewrap(v, t) \in Held(t) BY RewrappedIsHeld
<1>2. Rewrap(v, t) # Throw BY <1>1, HeldShape
<1>3. CASE v \in Held(t)
  <2>1. v = <<ShapeOf(t), v[2]>> BY <1>3, HeldShape
  <2>2. Rewrap(v, t) = v BY <2>1 DEF Rewrap
  <2> QED BY <1>2, <2>2
<1>4. CASE t \in NullableTypes /\ v \in Held("Null")
  <2>1. v = <<"String", Nil>> /\ "String" \in Pointers BY <1>4, HeldValues, PointerShapes
  <2>2. t \in PointerTypes BY <1>4 DEF PointerTypes
  <2>3. ShapeOf(t) \in Pointers BY <2>2, PointerShapes
  <2>4. Rewrap(v, t) = <<ShapeOf(t), Nil>>
    BY <2>1, <2>3, PointerShapes DEF Rewrap, basic_ty, References_
  <2>5. \A p \in Pointers : box_value(<<p, Nil>>) = Null BY PointerShapes DEF box_value, References_
  <2> QED BY <1>2, <2>1, <2>3, <2>4, <2>5
<1> QED BY <1>3, <1>4 DEF Passing

(* Boxes of the same value read alike.                                     *)
LEMMA SameBoxesRead ==
  ASSUME NEW p, NEW q, SameValue(p, q)
  PROVE  /\ any_to_number(p) = any_to_number(q) /\ any_truthy(p) = any_truthy(q)
         /\ any_to_display(p) = any_to_display(q)
<1>1. CASE p = q BY <1>1
<1>2. CASE p # q
  <2>1. p[1] \in NumericTypes /\ q[1] \in NumericTypes /\ numeric(p) = numeric(q)
    BY <1>2 DEF SameValue, IsNumeric
  <2> QED BY <2>1 DEF any_to_number, any_truthy, any_to_display, IsNumeric, NumericTypes
<1> QED BY <1>1, <1>2

(* The type two operands have in common loses nothing of their values.     *)
LEMMA MergedOperand ==
  ASSUME NEW l \in OperandTypes \ {"Void"}, NEW r \in OperandTypes \ {"Void"}, NEW t,
         t \in {merge_types(l, r), merge_types(r, l)},
         NEW p \in ValuesOf(l), NEW a, a = convert(coerce(l, t), Operand(p, l))
  PROVE  /\ coerce(l, t) # Illegal /\ t \in OperandTypes \ {"Void"}
         /\ a \in Passing(t) /\ a # Throw
         /\ SameValue(box_value(a), p) /\ (truthy(a) <=> any_truthy(p))
<1> DEFINE x == Operand(p, l)
<1>1. \/ t = l
      \/ t = "Number" /\ l \in NumericTypes
      \/ t = "Object" /\ l \in ClassTypes \cup {"I", "Null"}
      \/ t = "Any"
  BY DEF merge_types
<1>2. t \in OperandTypes \ {"Void"} /\ (t \in VariableTypes \/ t = l)
  BY <1>1, TypesOfOperands
     DEF VariableTypes, MachineTypes, NumericTypes, PointerTypes, NullableTypes, ClassTypes
<1>3. coerce(l, t) = conversion(l, t) BY DEF coerce
<1>4. \/ conversion(l, t) = None
      \/ t = "Number" /\ l \in NumericTypes /\ conversion(l, t) # Illegal
      \/ t = "Any" /\ conversion(l, t) = <<"To", "Any">>
  BY <1>1 DEF conversion, Widens, ClassTypes, NullableTypes, None, Illegal, MachineTypes, NumericTypes
<1>5. coerce(l, t) # Illegal BY <1>3, <1>4 DEF None, Illegal
<1>6. /\ p \in Boxes /\ x \in Held(l) /\ box_value(x) = p /\ Plain(x)
      /\ l \in NumericTypes => x[1] = l
      /\ x[1] \in MachineTypes => l = x[1] /\ p = Boxed(x[1], x[2])
  BY OperandIsHeld, OperandInBox
<1>7. SameValue(box_value(a), p) /\ a # Throw
  <2>1. CASE conversion(l, t) = None
    <3>1. a = x BY <1>3, <2>1 DEF convert, None
    <3> HIDE DEF x
    <3> QED BY <1>6, <3>1 DEF SameValue, Plain
  <2>2. CASE t = "Number" /\ l \in NumericTypes
    <3>1. "Number" \in MachineTypes BY DEF MachineTypes, NumericTypes
    <3>2. a = unbox_any_ptr(p, "Number") BY <1>5, <2>2, <3>1, MachineOperand
    <3>3. a = <<"Number", any_to_number(p)>> BY <3>2 DEF unbox_any_ptr
    <3>4. IsNumeric(p) BY <1>6, <2>2 DEF IsNumeric, MachineTypes, Boxed
    <3>5. any_to_number(p) = numeric(p) BY <3>4 DEF any_to_number, IsNumeric, NumericTypes
    <3>6. "Number" \notin Pointers BY PointerShapes DEF References_
    <3>7. box_value(a) = Boxed("Number", numeric(p)) BY <3>3, <3>5, <3>6 DEF box_value, Tag
    <3>8. IsNumeric(box_value(a)) /\ numeric(box_value(a)) = numeric(p)
      BY <3>7 DEF IsNumeric, NumericTypes, numeric, Boxed
    <3> QED BY <3>3, <3>4, <3>8 DEF SameValue, Throw
  <2>3. CASE t = "Any" /\ conversion(l, t) = <<"To", "Any">>
    <3>1. a = convert(<<"To", "Any">>, x) BY <1>3, <2>3
    <3> HIDE DEF x
    <3>2. a = <<"Any", p>> BY <1>6, <3>1 DEF convert, convert_to, Plain
    <3>3. "Any" \notin Pointers BY PointerShapes DEF References_
    <3> QED BY <3>2, <3>3 DEF box_value, SameValue, Throw
  <2> QED BY <1>4, <2>1, <2>2, <2>3
<1>8. a \in Passing(t)
  <2>1. x \in Passing(l) BY <1>6 DEF Passing
  <2>2. t \in VariableTypes \cup {l} BY <1>2
  <2> HIDE DEF x
  <2>3. convert(coerce(l, t), x) \in Passing(t) \cup {Throw} BY <1>5, <2>1, <2>2, CoercedIsPassing
  <2> QED BY <1>7, <2>3 DEF x
<1>9. truthy(a) <=> any_truthy(p)
  <2>1. PICK s \in OperandTypes \ {"Void"} : a \in Held(s)
    BY <1>2, <1>8, TypesOfOperands DEF Passing
  <2>2. any_truthy(box_value(a)) = any_truthy(p) BY <1>7, SameBoxesRead
  <2> QED BY <2>1, <2>2, TruthOfBox
<1> QED BY <1>2, <1>5, <1>7, <1>8, <1>9
(* && and ||, and the conditional, choose the same operand.                *)
LEMMA LogicalAgrees ==
  ASSUME NEW op \in Logical,
         NEW l \in OperandTypes \ {"Void"}, NEW r \in OperandTypes \ {"Void"},
         NEW p \in ValuesOf(l), NEW q \in ValuesOf(r),
         NEW c, c.op = op, c.ty = binary_typed(op, l, r).ty, NEW d, d.op = op, d.ty = "Any"
  PROVE  /\ binary_typed(op, "Any", "Any").ty = "Any"
         /\ \E s \in {p, q} :
              /\ Computed(d, binary_typed(op, "Any", "Any"), <<"Any", p>>, <<"Any", q>>) = <<"Any", s>>
              /\ Computed(c, binary_typed(op, l, r), Operand(p, l), Operand(q, r)) # Throw
              /\ SameValue(box_value(Computed(c, binary_typed(op, l, r), Operand(p, l), Operand(q, r))), s)
<1> DEFINE t == merge_types(l, r)
           e == binary_typed(op, l, r)
           f == binary_typed(op, "Any", "Any")
           a == convert(coerce(l, t), Operand(p, l))
           b == convert(coerce(r, t), Operand(q, r))
           u == <<"Any", p>>
           w == <<"Any", q>>
           right == IF op \in Choices THEN op = "?:r" ELSE any_truthy(p) = (op = "&&")
<1>1. e = Typed(t, coerce(l, t), coerce(r, t)) BY DEF binary_typed, Logical, Choices, Bitwise32, Relational
<1>2. f = Typed("Any", None, None)
  <2>1. f = Typed(merge_types("Any", "Any"), coerce("Any", merge_types("Any", "Any")),
                  coerce("Any", merge_types("Any", "Any")))
    BY DEF binary_typed, Logical, Choices, Bitwise32, Relational
  <2> QED BY <2>1 DEF merge_types, coerce, conversion
<1>3. /\ t \in OperandTypes \ {"Void"}
      /\ a \in Passing(t) /\ a # Throw /\ SameValue(box_value(a), p) /\ (truthy(a) <=> any_truthy(p))
  <2> HIDE DEF a
  <2>1. a = convert(coerce(l, t), Operand(p, l)) BY DEF a
  <2> HIDE DEF t
  <2>2. t \in {merge_types(l, r), merge_types(r, l)} BY DEF t
  <2> QED BY <2>1, <2>2, MergedOperand
<1>4. b \in Passing(t) /\ b # Throw /\ SameValue(box_value(b), q)
  <2> HIDE DEF b
  <2>1. b = convert(coerce(r, t), Operand(q, r)) BY DEF b
  <2> HIDE DEF t
  <2>2. t \in {merge_types(r, l), merge_types(l, r)} BY DEF t
  <2> QED BY <2>1, <2>2, MergedOperand
<1>5. "Any" \notin Pointers BY PointerShapes DEF References_
<1>6. p \in Boxes /\ q \in Boxes BY OperandIsHeld
<1>7. Plain(u) /\ Plain(w) /\ truthy(u) = any_truthy(p) /\ u[1] = "Any" /\ w[1] = "Any"
  BY <1>5 DEF Plain, Panic, Throw, truthy, box_value
<1>8. Plain(a) /\ Plain(b) BY <1>3, <1>4, HeldIsPlain
<1>9. any_truthy(p) \in BOOLEAN BY <1>6, BoxesAreRead
<1>10. truthy(a) \in BOOLEAN
  <2>1. PICK s \in OperandTypes \ {"Void"} : a \in Held(s) BY <1>3, TypesOfOperands DEF Passing
  <2> HIDE DEF a
  <2> QED BY <2>1, TruthIsBoolean
<1> HIDE DEF a, b, u, w, e, f, t
<1>11. ASSUME NEW k, k.op = op, NEW m, NEW n, Plain(m), Plain(n), truthy(m) = any_truthy(p)
       PROVE  Emit(k, m, n) = Rewrap(IF right THEN n ELSE m, k.ty)
  <2>1. CASE op \in Choices
    <3>1. Emit(k, m, n) = Rewrap(IF op = "?l:" THEN m ELSE n, k.ty)
      BY <1>11, <2>1 DEF Emit, Plain, Logical, Choices, Bitwise32, Relational
    <3> QED BY <2>1, <3>1 DEF Choices
  <2>2. CASE op \in {"&&", "||"}
    <3>1. Emit(k, m, n) = Rewrap(IF truthy(m) = (op = "&&") THEN n ELSE m, k.ty)
      BY <1>11, <2>2 DEF Emit, Plain, Logical, Choices, Bitwise32, Relational
    <3>2. right <=> truthy(m) = (op = "&&") BY <1>11, <2>2 DEF Choices
    <3> HIDE DEF right
    <3> QED BY <3>1, <3>2
  <2> QED BY <2>1, <2>2 DEF Logical
<1> HIDE DEF right
<1>12. Emit(c, a, b) = Rewrap(IF right THEN b ELSE a, t)
  <2>1. truthy(a) = any_truthy(p) BY <1>3, <1>9, <1>10
  <2>2. c.ty = t BY <1>1 DEF e, Typed
  <2> QED BY <1>8, <1>11, <2>1, <2>2
<1>13. Emit(d, u, w) = IF right THEN w ELSE u
  <2>1. Emit(d, u, w) = Rewrap(IF right THEN w ELSE u, "Any") BY <1>7, <1>11
  <2>2. \A v : v[1] = "Any" => Rewrap(v, "Any") = v BY DEF Rewrap
  <2> QED BY <1>7, <2>1, <2>2
<1>14. Computed(c, e, Operand(p, l), Operand(q, r)) = Emit(c, a, b)
  <2>1. e.left = coerce(l, t) /\ e.right = coerce(r, t) BY <1>1 DEF Typed
  <2> QED BY <2>1 DEF Computed, a, b
<1>15. Computed(d, f, u, w) = Emit(d, u, w)
  <2>1. f.left = None /\ f.right = None BY <1>2 DEF Typed
  <2> QED BY <2>1 DEF Computed, convert, None
<1>16. /\ box_value(Rewrap(a, t)) = box_value(a) /\ Rewrap(a, t) # Throw
       /\ box_value(Rewrap(b, t)) = box_value(b) /\ Rewrap(b, t) # Throw
  BY <1>3, <1>4, RewrapKeepsBox
<1>17. f.ty = "Any" BY <1>2 DEF Typed
<1> DEFINE s == IF right THEN q ELSE p
           v == Computed(c, e, Operand(p, l), Operand(q, r))
<1>18. /\ s \in {p, q} /\ Computed(d, f, u, w) = <<"Any", s>> /\ v # Throw /\ SameValue(box_value(v), s)
  <2>1. CASE right BY <1>4, <1>12, <1>13, <1>14, <1>15, <1>16, <2>1 DEF w
  <2>2. CASE ~right BY <1>3, <1>12, <1>13, <1>14, <1>15, <1>16, <2>2 DEF u
  <2> QED BY <2>1, <2>2
<1> HIDE DEF s
<1> QED BY <1>17, <1>18 DEF e, f, u, w

(* Operators on one operand, but for those whose arithmetic is on ints.    *)
LEMMA UnaryAgrees ==
  ASSUME NEW op \in UnaryOps \ {"++", "--"}, NEW l \in OperandTypes \ {"Void"}, op = "-x" => l # "Int",
         NEW p \in ValuesOf(l), NEW y, Plain(y), NEW c, c.op = op, NEW d, d.op = op,
         unary(op, l).left # Illegal
  PROVE  /\ unary(op, "Any").ty = unary(op, l).ty
         /\ Computed(c, unary(op, l), Operand(p, l), y) = Computed(d, unary(op, "Any"), <<"Any", p>>, y)
<1> DEFINE x == Operand(p, l)
           u == <<"Any", p>>
           e == unary(op, l)
           f == unary(op, "Any")
<1>0. \A v : convert(None, v) = v BY DEF convert, None
<1>2. p \in Boxes BY OperandIsHeld
<1>3. e.right = None /\ f.right = None BY DEF unary, UnaryOps, Typed
<1>4. Computed(c, e, x, y) = Emit(c, convert(e.left, x), y) /\ Computed(d, f, u, y) = Emit(d, convert(f.left, u), y)
  BY <1>0, <1>3 DEF Computed
<1>5. Plain(u) /\ box_value(u) = p
  <2>1. "Any" \notin Pointers BY PointerShapes DEF References_
  <2> QED BY <2>1 DEF Plain, Panic, Throw, box_value
<1>6. ASSUME NEW t \in MachineTypes, op \in {"~", "+x", "-x"}, e = Typed(t, coerce(l, t), None),
             f = Typed(t, coerce("Any", t), None)
      PROVE  f.ty = e.ty /\ Computed(c, e, x, y) = Computed(d, f, u, y)
  <2> DEFINE a == unbox_any_ptr(p, t)
  <2>1. e.left = coerce(l, t) /\ f.left = coerce("Any", t) /\ e.ty = t /\ f.ty = t BY <1>6 DEF Typed
  <2>2. convert(e.left, x) = a /\ convert(f.left, u) = a /\ a \in Held(t)
    <3>1. coerce(l, t) # Illegal BY <2>1
    <3>2. /\ convert(coerce(l, t), x) = a /\ convert(coerce("Any", t), u) = a /\ a \in Held(t)
      BY <3>1, MachineOperand
    <3> HIDE DEF e, f, x, u, a
    <3> QED BY <2>1, <3>2
  <2> HIDE DEF a
  <2>3. Plain(a) BY <2>2, HeldIsPlain, TypesOfOperands
  <2>4. Emit(c, a, y) = Emit(d, a, y)
    BY <1>6, <2>3 DEF Emit, Plain, Logical, Choices, Bitwise32, Relational
  <2> HIDE DEF e, f, x, u
  <2> QED BY <1>4, <2>1, <2>2, <2>4
<1>7. CASE op = "!"
  <2> DEFINE a == <<"Boolean", any_truthy(p)>>
  <2>1. e = Typed("Boolean", coerce_condition(l), None) /\ f = Typed("Boolean", coerce_condition("Any"), None)
    BY <1>7 DEF unary
  <2>2. e.left = coerce_condition(l) /\ f.left = <<"To", "Boolean">> /\ e.ty = f.ty
    BY <2>1 DEF Typed, coerce_condition
  <2>3. convert(e.left, x) = a
    <3>1. convert(coerce_condition(l), x) = a BY TruthAndBox
    <3> HIDE DEF e, x, a
    <3> QED BY <2>2, <3>1
  <2>4. convert(f.left, u) = a
    <3>1. truthy(u) = any_truthy(p) BY <1>5 DEF truthy
    <3> HIDE DEF f, u
    <3> QED BY <1>5, <2>2, <3>1 DEF convert, convert_to, Bool, Plain
  <2>5. Plain(a) BY DEF Plain, Panic, Throw
  <2> HIDE DEF a, e, f, x, u
  <2>6. Emit(c, a, y) = Emit(d, a, y)
    BY <1>7, <2>5 DEF Emit, Plain, Logical, Choices, Bitwise32, Relational
  <2>7. f.ty = e.ty /\ Computed(c, e, x, y) = Computed(d, f, u, y) BY <1>4, <2>2, <2>3, <2>4, <2>6
  <2> QED BY <2>7 DEF e, f, x, u
<1>8. CASE op = "~"
  <2>1. e = Typed("Int", coerce(l, "Int"), None) /\ f = Typed("Int", coerce("Any", "Int"), None)
    BY <1>8 DEF unary
  <2>2. "Int" \in MachineTypes BY DEF MachineTypes, NumericTypes
  <2> QED BY <1>6, <1>8, <2>1, <2>2
<1>9. CASE op \in {"+x", "-x"}
  <2>1. e = Typed("Number", coerce(l, "Number"), None) /\ f = Typed("Number", coerce("Any", "Number"), None)
    BY <1>9 DEF unary
  <2>2. "Number" \in MachineTypes BY DEF MachineTypes, NumericTypes
  <2> QED BY <1>6, <1>9, <2>1, <2>2
<1>10. CASE op \in {"typeof", "void"}
  <2> DEFINE a == convert(e.left, x)
  <2>1. /\ e = Typed(IF op = "typeof" THEN "String" ELSE "Any", coerce_to_any(l), None)
        /\ f = Typed(IF op = "typeof" THEN "String" ELSE "Any", coerce_to_any("Any"), None)
    BY <1>10 DEF unary
  <2>2. e.left = coerce_to_any(l) /\ f.left = None /\ e.ty = f.ty BY <2>1 DEF Typed, coerce_to_any
  <2>3. Plain(a) /\ box_value(a) = p
    <3>1. Plain(convert(coerce_to_any(l), x)) /\ box_value(convert(coerce_to_any(l), x)) = p BY TruthAndBox
    <3> HIDE DEF e, x
    <3> QED BY <2>2, <3>1
  <2>4. convert(f.left, u) = u
    <3> HIDE DEF f, u
    <3> QED BY <1>0, <2>2
  <2> HIDE DEF a, u
  <2>5. Emit(c, a, y) = Emit(d, u, y)
    BY <1>5, <1>10, <2>3 DEF Emit, Plain, Logical, Choices, Bitwise32, Relational
  <2> HIDE DEF e, f, x
  <2>6. f.ty = e.ty /\ Computed(c, e, x, y) = Computed(d, f, u, y) BY <1>4, <2>2, <2>4, <2>5 DEF a
  <2> QED BY <2>6 DEF e, f, x, u
<1> QED BY <1>7, <1>8, <1>9, <1>10 DEF UnaryOps

(* A boxed whole number converts to the int or uint arithmetic would give. *)
LEMMA WholeNumbers ==
  ASSUME NEW t \in {"Int", "UInt"}, NEW n \in Int
  PROVE  /\ unbox_any_ptr(box_value(Wrapped(t, n)), t) = Wrapped(t, n)
         /\ unbox_any_ptr(Boxed("Number", Fin(2 * n)), t) = Wrapped(t, n)
         /\ Wrapped(t, n) # Throw
<1>1. Wrapped(t, n) \in Held(t) BY WrappedIsWord
<1> DEFINE v == Wrapped(t, n)
           m == v[2]
<1>2. /\ v = <<t, m>> /\ m \in Int
      /\ \/ t = "Int" /\ m \in Ints
         \/ t = "UInt" /\ m \in UInts
  <2> HIDE DEF v
  <2>1. v \in Held(t) BY <1>1 DEF v
  <2>2. CASE t = "Int"
    <3>1. v = <<"Int", v[2]>> /\ v[2] \in Ints BY <2>1, <2>2, HeldValues
    <3> QED BY <2>2, <3>1, HalfIsPositive DEF Ints
  <2>3. CASE t = "UInt"
    <3>1. v = <<"UInt", v[2]>> /\ v[2] \in UInts BY <2>1, <2>3, HeldValues
    <3> QED BY <2>3, <3>1, HalfIsPositive DEF UInts
  <2> QED BY <2>2, <2>3
<1> HIDE DEF v, m
<1>3. ASSUME NEW k \in Int, NEW b, any_to_number(b) = Fin(2 * k)
      PROVE  unbox_any_ptr(b, t) = Wrapped(t, k)
  <2>1. unbox_any_ptr(b, t) = <<t, convert_num_to_int(Fin(2 * k), t)>> BY <1>3 DEF unbox_any_ptr
  <2> QED BY <2>1, NumbersWrap
<1>4. t \notin Pointers /\ t # "Any" BY PointerShapes DEF References_
<1>5. box_value(v) = Boxed(t, m) BY <1>2, <1>4 DEF box_value, Tag
<1>6. any_to_number(Boxed(t, m)) = Fin(2 * m)
  BY DEF any_to_number, IsNumeric, NumericTypes, numeric, Boxed
<1>7. Wrapped(t, m) = v BY <1>2, NumbersWrap
<1>8. unbox_any_ptr(box_value(v), t) = v BY <1>2, <1>3, <1>5, <1>6, <1>7
<1>9. any_to_number(Boxed("Number", Fin(2 * n))) = Fin(2 * n)
  BY DEF any_to_number, IsNumeric, NumericTypes, numeric, Boxed
<1>10. v # Throw BY <1>2 DEF Throw
<1> QED BY <1>3, <1>8, <1>9, <1>10 DEF v

(* Minus an int wraps as the conversion of minus its number does.          *)
LEMMA NegationAgrees ==
  ASSUME NEW p \in ValuesOf("Int"), NEW y, Plain(y), NEW c, c.op = "-x", NEW d, d.op = "-x"
  PROVE  /\ unary("-x", "Int").ty = "Int" /\ unary("-x", "Any").ty = "Number"
         /\ Computed(c, unary("-x", "Int"), Operand(p, "Int"), y) # Throw
         /\ Computed(d, unary("-x", "Any"), <<"Any", p>>, y) # Throw
         /\ unbox_any_ptr(box_value(Computed(c, unary("-x", "Int"), Operand(p, "Int"), y)), "Int")
              = unbox_any_ptr(box_value(Computed(d, unary("-x", "Any"), <<"Any", p>>, y)), "Int")
<1> DEFINE x == Operand(p, "Int")
           u == <<"Any", p>>
           e == unary("-x", "Int")
           f == unary("-x", "Any")
           n == p[2]
<1>1. e = Typed("Int", None, None) /\ f = Typed("Number", <<"To", "Number">>, None)
  <2>1. coerce("Int", "Int") = None BY DEF coerce, conversion
  <2>2. coerce("Any", "Number") = <<"To", "Number">>
    BY DEF coerce, conversion, MachineTypes, NumericTypes, Widens, NullableTypes
  <2>3. e = Typed("Int", coerce("Int", "Int"), None) /\ f = Typed("Number", coerce("Any", "Number"), None)
    BY DEF unary
  <2> QED BY <2>1, <2>2, <2>3
<1>2. /\ e.ty = "Int" /\ e.left = None /\ e.right = None
      /\ f.ty = "Number" /\ f.left = <<"To", "Number">> /\ f.right = None
  BY <1>1 DEF Typed
<1>3. p = Boxed("Int", n) /\ n \in Int /\ x = <<"Int", n>>
  <2>1. p = Boxed("Int", n) /\ n \in Ints BY TypingAssumption DEF ValuesOf, Boxed
  <2>2. "Int" \in OperandTypes \ {"Void"} BY TypesOfOperands DEF MachineTypes, NumericTypes
  <2>3. x = <<ShapeOf("Int"), IF p = Null THEN Nil ELSE p[2]>> /\ p # Null
    BY <2>2, BoxOfOperand DEF MachineTypes, NumericTypes
  <2>4. ShapeOf("Int") = "Int" BY DEF ShapeOf, ClassTypes, VectorTypes
  <2>5. n \in Int BY <2>1, HalfIsPositive DEF Ints
  <2> HIDE DEF x
  <2> QED BY <2>1, <2>3, <2>4, <2>5
<1>4. any_to_number(p) = Fin(2 * n)
  <2> HIDE DEF n
  <2> QED BY <1>3 DEF any_to_number, IsNumeric, NumericTypes, numeric, Boxed
<1>5. convert(f.left, u) = <<"Number", Fin(2 * n)>>
  <2>1. convert(<<"To", "Number">>, u) = <<"Number", any_to_number(p)>>
    BY DEF convert, convert_to, convert_to_number, Panic, Throw, NumericTypes
  <2> HIDE DEF f, u, n
  <2> QED BY <1>2, <1>4, <2>1
<1> HIDE DEF x, u, e, f, n
<1>6. Computed(c, e, x, y) = Wrapped("Int", -n)
  <2>1. convert(e.left, x) = x /\ convert(e.right, y) = y BY <1>2 DEF convert, None
  <2>2. Emit(c, x, y) = Wrapped("Int", -n)
    BY <1>3 DEF Emit, Plain, Panic, Throw, Logical, Choices, Bitwise32, Relational
  <2> QED BY <2>1, <2>2 DEF Computed
<1>7. Computed(d, f, u, y) = <<"Number", Fin(2 * (-n))>>
  <2> DEFINE a == <<"Number", Fin(2 * n)>>
  <2>1. convert(f.right, y) = y BY <1>2 DEF convert, None
  <2>2. Emit(d, a, y) = <<"Number", Negate(Fin(2 * n))>>
    BY DEF Emit, Plain, Panic, Throw, Logical, Choices, Bitwise32, Relational
  <2>3. Negate(Fin(2 * n)) = Fin(2 * (-n))
    <3>1. -(2 * n) = 2 * (-n) BY <1>3
    <3>2. Fin(2 * n) # NaN /\ Fin(2 * n) = <<"fin", 2 * n>> BY DEF Fin, NaN
    <3> QED BY <3>1, <3>2 DEF Negate, Fin
  <2> QED BY <1>5, <2>1, <2>2, <2>3 DEF Computed
<1>8. box_value(<<"Number", Fin(2 * (-n))>>) = Boxed("Number", Fin(2 * (-n)))
  <2>1. "Number" \notin Pointers BY PointerShapes DEF References_
  <2> QED BY <2>1 DEF box_value, Tag
<1>9. <<"Number", Fin(2 * (-n))>> # Throw BY DEF Throw
<1>10. -n \in Int BY <1>3
<1> QED BY <1>2, <1>6, <1>7, <1>8, <1>9, <1>10, WholeNumbers DEF x, u, e, f

(* x++ is x + 1, x-- is x - 1: what wraps in an int does so in the         *)
(* conversion of the number.                                               *)
LEMMA IncrementAgrees ==
  ASSUME NEW op \in {"++", "--"}, NEW l \in NumericTypes, NEW p \in ValuesOf(l), NEW y, Plain(y),
         NEW step, step = (IF op = "++" THEN "+" ELSE "-"), NEW c, c.op = op, NEW d, d.op = step
  PROVE  /\ unary(op, l).ty = l /\ binary_typed(step, "Any", "Any").ty \in {"Any", "Number"}
         /\ Computed(c, unary(op, l), Operand(p, l), y) # Throw
         /\ Computed(d, binary_typed(step, "Any", "Any"), <<"Any", p>>, <<"Any", Boxed("Int", 1)>>) # Throw
         /\ IF l = "Number"
            THEN box_value(Computed(c, unary(op, l), Operand(p, l), y))
                   = box_value(Computed(d, binary_typed(step, "Any", "Any"), <<"Any", p>>, <<"Any", Boxed("Int", 1)>>))
            ELSE unbox_any_ptr(box_value(Computed(c, unary(op, l), Operand(p, l), y)), l)
                   = unbox_any_ptr(box_value(Computed(d, binary_typed(step, "Any", "Any"), <<"Any", p>>,
                                                      <<"Any", Boxed("Int", 1)>>)), l)
<1> DEFINE x == Operand(p, l)
           i == Boxed("Int", 1)
           u == <<"Any", p>>
           w == <<"Any", i>>
           e == unary(op, l)
           f == binary_typed(step, "Any", "Any")
           one == IF op = "++" THEN 1 ELSE -1
           sum == Plus(any_to_number(p), Fin(2 * one))
<1>1. e = Typed(l, None, None)
  <2>1. coerce(l, l) = None BY DEF coerce, conversion, NumericTypes
  <2>2. e = Typed(l, coerce(l, l), None) BY DEF unary
  <2> QED BY <2>1, <2>2
<1>2. e.ty = l /\ e.left = None /\ e.right = None BY <1>1 DEF Typed
<1>3. /\ p = Boxed(l, x[2]) /\ x = <<l, x[2]>> /\ Plain(x)
      /\ l = "Number" => x[2] \in Numbers
      /\ l # "Number" => x[2] \in Int
  <2>1. l \in OperandTypes \ {"Void"} BY TypesOfOperands DEF MachineTypes
  <2>2. x \in Held(l) BY <2>1, OperandIsHeld
  <2>3. x[1] = l /\ x[1] \in MachineTypes BY <2>1, OperandInBox DEF MachineTypes
  <2>4. p = Boxed(l, x[2]) /\ Plain(x) BY <2>1, <2>3, OperandInBox
  <2>5. x = <<l, x[2]>> BY <2>1, <2>2, <2>3, HeldShape
  <2>6. l = "Number" => x[2] \in Numbers BY <2>1, <2>3, OperandInBox
  <2>7. l # "Number" => x[2] \in Int BY <2>1, <2>3, OperandInBox DEF NumericTypes
  <2> QED BY <2>4, <2>5, <2>6, <2>7
<1> HIDE DEF x
<1>4. IsNumeric(p) /\ any_to_number(p) = IF l = "Number" THEN x[2] ELSE Fin(2 * x[2])
  BY <1>3 DEF any_to_number, IsNumeric, NumericTypes, numeric, Boxed
<1>5. any_to_number(i) = Fin(2) BY DEF any_to_number, IsNumeric, NumericTypes, numeric, Boxed
<1>6. Plain(u) /\ Plain(w) BY DEF Plain, Panic, Throw
<1>7. f.ty \in {"Any", "Number"}
      /\ Computed(d, f, u, w) \in {<<"Any", Boxed("Number", sum)>>, <<"Number", sum>>}
  <2>1. CASE op = "++"
    <3>1. f = Typed("Any", None, None)
      BY <2>1 DEF binary_typed, Logical, Choices, Bitwise32, Relational, NumericTypes, coerce_to_any
    <3>2. f.ty = "Any" /\ f.left = None /\ f.right = None BY <3>1 DEF Typed
    <3>3. Emit(d, u, w) = binary_add(u, w)
      BY <1>6, <2>1 DEF Emit, Plain, Logical, Choices, Bitwise32, Relational
    <3>4. binary_add(u, w) = <<"Any", any_add(p, i)>>
      <4>1. "Any" \notin Pointers BY PointerShapes DEF References_
      <4> QED BY <4>1 DEF binary_add, box_value
    <3>5. any_add(p, i) = Boxed("Number", sum)
      <4>1. "String" \notin {p[1], i[1]} BY <1>4 DEF IsNumeric, NumericTypes, Boxed
      <4>2. Fin(2 * one) = Fin(2) BY <2>1
      <4> HIDE DEF i
      <4> QED BY <1>5, <4>1, <4>2 DEF any_add
    <3> HIDE DEF f, u, w, sum
    <3>6. Computed(d, f, u, w) = Emit(d, u, w) BY <3>2 DEF Computed, convert, None
    <3> QED BY <3>2, <3>3, <3>4, <3>5, <3>6
  <2>2. CASE op = "--"
    <3>0. coerce("Any", "Number") = <<"To", "Number">>
      BY DEF coerce, conversion, MachineTypes, NumericTypes, Widens, NullableTypes
    <3>1. f = Typed("Number", <<"To", "Number">>, <<"To", "Number">>)
      BY <2>2, <3>0 DEF binary_typed, Logical, Choices, Bitwise32, Relational
    <3>2. f.ty = "Number" /\ f.left = <<"To", "Number">> /\ f.right = <<"To", "Number">> BY <3>1 DEF Typed
    <3>3. \A z : convert(<<"To", "Number">>, <<"Any", z>>) = <<"Number", any_to_number(z)>>
      BY DEF convert, convert_to, convert_to_number, Panic, Throw, NumericTypes
    <3> DEFINE a == <<"Number", any_to_number(p)>>
               b == <<"Number", Fin(2)>>
    <3>4. convert(f.left, u) = a /\ convert(f.right, w) = b
      <4> HIDE DEF f, i
      <4> QED BY <1>5, <3>2, <3>3
    <3>5. Emit(d, a, b) = <<"Number", Plus(any_to_number(p), Negate(Fin(2)))>>
      BY <2>2 DEF Emit, Plain, Panic, Throw, Logical, Choices, Bitwise32, Relational
    <3>6. Negate(Fin(2)) = Fin(2 * one) BY <2>2 DEF Negate, Fin, NaN
    <3> HIDE DEF f, u, w, a, b
    <3> QED BY <3>2, <3>4, <3>5, <3>6 DEF Computed
  <2> QED BY <2>1, <2>2
<1> DEFINE v == Computed(c, e, x, y)
           z == Computed(d, f, u, w)
<1>8. v = IF l = "Number" THEN <<"Number", sum>> ELSE Wrapped(l, x[2] + one)
  <2>1. v = Emit(c, x, y) BY <1>2 DEF Computed, convert, None
  <2>2. CASE l = "Number"
    <3>1. Emit(c, x, y) = <<"Number", Plus(x[2], Fin(2 * one))>>
      <4>1. x[1] = "Number" BY <1>3, <2>2
      <4> QED BY <1>3, <4>1 DEF Emit, Plain, Logical, Choices, Bitwise32, Relational
    <3> HIDE DEF v
    <3> QED BY <1>4, <2>1, <2>2, <3>1
  <2>3. CASE l # "Number"
    <3>1. Emit(c, x, y) = Wrapped(l, x[2] + one)
      <4>1. x[1] = l BY <1>3
      <4> QED BY <1>3, <2>3, <4>1 DEF Emit, Plain, Logical, Choices, Bitwise32, Relational
    <3> HIDE DEF v
    <3> QED BY <2>1, <2>3, <3>1
  <2> QED BY <2>2, <2>3
<1>9. box_value(z) = Boxed("Number", sum) /\ z # Throw
  <2>1. "Number" \notin Pointers /\ "Any" \notin Pointers BY PointerShapes DEF References_
  <2>2. \A s : /\ box_value(<<"Any", Boxed("Number", s)>>) = Boxed("Number", s)
               /\ box_value(<<"Number", s>>) = Boxed("Number", s)
               /\ <<"Any", Boxed("Number", s)>> # Throw /\ <<"Number", s>> # Throw
    BY <2>1 DEF box_value, Tag, Throw
  <2> HIDE DEF z, sum
  <2>3. z \in {<<"Any", Boxed("Number", sum)>>, <<"Number", sum>>} BY <1>7 DEF z
  <2> QED BY <2>2, <2>3
<1>10. v # Throw /\ IF l = "Number" THEN box_value(v) = box_value(z)
                    ELSE unbox_any_ptr(box_value(v), l) = unbox_any_ptr(box_value(z), l)
  <2>1. CASE l = "Number"
    <3>1. "Number" \notin Pointers BY PointerShapes DEF References_
    <3>2. box_value(<<"Number", sum>>) = Boxed("Number", sum) /\ <<"Number", sum>> # Throw
      BY <3>1 DEF box_value, Tag, Throw
    <3> HIDE DEF v, z, sum
    <3> QED BY <1>8, <1>9, <2>1, <3>2
  <2>2. CASE l # "Number"
    <3> DEFINE n == x[2] + one
    <3>1. x[2] \in Int /\ one \in Int BY <1>3, <2>2
    <3>2. sum = Fin(2 * n)
      <4>1. any_to_number(p) = Fin(2 * x[2]) BY <1>4, <2>2
      <4>2. Plus(Fin(2 * x[2]), Fin(2 * one)) = Fin(2 * x[2] + 2 * one) BY DEF Plus, Fin, NaN
      <4>3. 2 * x[2] + 2 * one = 2 * n
        <5> HIDE DEF one
        <5> QED BY <3>1
      <4> QED BY <4>1, <4>2, <4>3
    <3>3. n \in Int /\ l \in {"Int", "UInt"}
      <4> HIDE DEF one
      <4> QED BY <2>2, <3>1 DEF NumericTypes
    <3> HIDE DEF v, z, sum, n
    <3>4. v = Wrapped(l, n) BY <1>8, <2>2 DEF n
    <3> QED BY <1>9, <2>2, <3>2, <3>3, <3>4, WholeNumbers
  <2> QED BY <2>1, <2>2
<1> HIDE DEF u, w, e, f
<1> QED BY <1>2, <1>7, <1>9, <1>10 DEF e, f, u, w, x

(* "is" and "as" look at the box of their operand.                         *)
LEMMA TypeTestAgrees ==
  ASSUME NEW op \in {"is", "as"}, NEW l \in OperandTypes \ {"Void"}, NEW p \in ValuesOf(l),
         NEW y, Plain(y), NEW t, NEW c, c.op = op, c.target = t, NEW d, d.op = op, d.target = t
  PROVE  /\ is_as(op, "Any", t).ty = is_as(op, l, t).ty
         /\ Computed(c, is_as(op, l, t), Operand(p, l), y) = Computed(d, is_as(op, "Any", t), <<"Any", p>>, y)
<1> DEFINE a == convert(coerce_to_any(l), Operand(p, l))
           u == <<"Any", p>>
<1>1. Plain(a) /\ box_value(a) = p BY TruthAndBox
<1>2. convert(coerce_to_any("Any"), u) = u BY DEF coerce_to_any, convert, None
<1>3. Plain(u) /\ box_value(u) = p
  <2>1. "Any" \notin Pointers BY PointerShapes DEF References_
  <2> QED BY <2>1 DEF Plain, Panic, Throw, box_value
<1>4. convert(None, y) = y BY DEF convert, None
<1>5. Computed(c, is_as(op, l, t), Operand(p, l), y) = Emit(c, a, y)
  BY <1>4 DEF Computed, is_as, Typed
<1>6. Computed(d, is_as(op, "Any", t), u, y) = Emit(d, u, y)
  <2> HIDE DEF u
  <2> QED BY <1>2, <1>4 DEF Computed, is_as, Typed
<1> HIDE DEF a, u
<1>7. Emit(c, a, y) = Emit(d, u, y)
  BY <1>1, <1>3 DEF Emit, Plain, Logical, Choices, Bitwise32, Relational
<1> QED BY <1>5, <1>6, <1>7 DEF is_as, Typed, u

(* A cast converts the box of its operand, or leaves the operand alone     *)
(* where it belongs to the target already.                                 *)
LEMMA CastAgrees ==
  ASSUME NEW l \in OperandTypes \ {"Void"}, NEW p \in ValuesOf(l), NEW t \in VariableTypes \ {"Any"},
         NEW y, Plain(y), NEW c, c.op = "cast", c.from = l, c.target = t,
         NEW d, d.op = "cast", d.from = "Any", d.target = t,
         cast_call(l, t).left # Illegal,
         l \notin NumericTypes \cup {"Any", t} =>
           t \notin {"Int", "UInt"} /\ (t = "Number" => l \in {"String", "Null"}),
         t = "String" /\ p = Null => l = "Any"
  PROVE  /\ cast_call("Any", t).ty = t /\ cast_call(l, t).ty = t
         /\ Same(Computed(c, cast_call(l, t), Operand(p, l), y), Computed(d, cast_call("Any", t), <<"Any", p>>, y))
<1> DEFINE core == MachineTypes \cup {"String"}
           e == cast_call(l, t)
           f == cast_call("Any", t)
           x == Operand(p, l)
           u == <<"Any", p>>
           how == IF t \in core THEN <<"To", t>> ELSE <<"FromAny", t>>
           v == Computed(c, e, x, y)
           w == Computed(d, f, u, y)
<1>0. \A z : convert(None, z) = z BY DEF convert, None
<1>1. t \in core \cup ClassTypes \cup {"I"}
  BY DEF cast_call, Typed
<1>2. e.ty = t /\ f.ty = t /\ e.right = None /\ f.right = None BY <1>1 DEF cast_call, Typed
<1>3. e.left = IF t \in core \/ conversion(l, t) = None THEN None ELSE coerce_to_any(l)
  <2>1. t \in ClassTypes \cup {"I"} => t \notin core BY DEF MachineTypes, NumericTypes, ClassTypes
  <2> QED BY <1>1, <2>1 DEF cast_call, Typed
<1>4. conversion("Any", t) # None
  BY DEF conversion, Widens, None, VariableTypes, Illegal
<1>5. f.left = None
  <2>1. t \in ClassTypes \cup {"I"} => t \notin core BY DEF MachineTypes, NumericTypes, ClassTypes
  <2> QED BY <1>1, <1>4, <2>1 DEF cast_call, Typed, coerce_to_any
<1>6. /\ x \in Held(l) /\ p \in Boxes /\ box_value(x) = p /\ Plain(x)
      /\ x[1] \in MachineTypes => l = x[1]
      /\ x[1] \in Pointers => p = IF x[2] = Nil THEN Null ELSE Boxed(Tag(x[1]), x[2])
  BY OperandIsHeld, OperandInBox
<1>7. "Any" \notin Pointers BY PointerShapes DEF References_
<1>8. Plain(u) /\ box_value(u) = p BY <1>7 DEF Plain, Panic, Throw, box_value
<1>9. ASSUME NEW k, k.op = "cast", k.target = t, NEW a, Plain(a)
      PROVE  Emit(k, a, y) = IF conversion(k.from, t) = None THEN a ELSE convert(how, a)
  <2>1. Emit(k, a, y) = emit_cast(k, a)
    BY <1>9 DEF Emit, Plain, Logical, Choices, Bitwise32, Relational
  <2> QED BY <1>9, <2>1 DEF emit_cast
<1>10. w = convert(how, u)
  <2> HIDE DEF f, u, how
  <2>1. w = Emit(d, u, y) BY <1>0, <1>2, <1>5 DEF Computed
  <2> QED BY <1>4, <1>8, <1>9, <2>1
<1>11. how[1] = "FromAny" => w = unbox_any_ptr(p, t)
  <2>1. how[1] = "FromAny" => how = <<"FromAny", t>> OBVIOUS
  <2>2. convert(<<"FromAny", t>>, u) = unbox_any_ptr(p, t) BY DEF convert, Panic, Throw
  <2> HIDE DEF w, u, how
  <2> QED BY <1>10, <2>1, <2>2
<1>12. t \in MachineTypes => w = unbox_any_ptr(p, t)
  <2>1. truthy(u) = any_truthy(p) BY <1>8 DEF truthy
  <2>2. convert(<<"To", t>>, u) = convert_to(u, t) BY DEF convert, Panic, Throw
  <2>3. t \in MachineTypes => convert_to(u, t) = unbox_any_ptr(p, t)
    BY <2>1 DEF convert_to, convert_to_int, convert_to_number, unbox_any_ptr, MachineTypes, NumericTypes, Bool
  <2> HIDE DEF w, u
  <2> QED BY <1>10, <2>2, <2>3
<1>13. t = "String" => w = <<"String", Str(any_to_display(p))>>
  <2>1. stringify(u) = Str(any_to_display(p)) BY <1>8 DEF stringify
  <2>2. convert(<<"To", "String">>, u) = <<"String", Str(any_to_display(p))>>
    BY <2>1 DEF convert, Panic, Throw, convert_to, Str
  <2> HIDE DEF w, u
  <2> QED BY <1>10, <2>2
<1>14. CASE conversion(l, t) = None
  <2>1. v = x
    <3> HIDE DEF e, x
    <3>1. e.left = None BY <1>3, <1>14
    <3>2. v = Emit(c, x, y) BY <1>0, <1>2, <3>1 DEF Computed
    <3> QED BY <1>6, <1>9, <1>14, <3>2
  <2>2. x \in Passing(t)
    <3>1. x \in Passing(l) BY <1>6 DEF Passing
    <3>2. coerce(l, t) = None /\ None # Illegal BY <1>14 DEF coerce, None, Illegal
    <3> HIDE DEF x
    <3>3. convert(coerce(l, t), x) \in Passing(t) \cup {Throw} BY <3>1, <3>2, CoercedIsPassing
    <3> QED BY <1>0, <1>6, <3>2, <3>3 DEF Plain
  <2>3. t \in VariableTypes OBVIOUS
  <2> HIDE DEF x
  <2>4. unbox_any_ptr(p, t) # Throw /\ box_value(unbox_any_ptr(p, t)) = p BY <1>6, <2>2, <2>3, OwnBox
  <2> HIDE DEF e, f, u, v, w
  <2>5. CASE t # "String"
    <3>1. w = unbox_any_ptr(p, t)
      <4>1. t \notin MachineTypes => how[1] = "FromAny" BY <2>5
      <4> QED BY <1>11, <1>12, <4>1
    <3>2. Same(v, w) BY <1>6, <2>1, <2>4, <3>1 DEF Same, Plain
    <3> QED BY <1>2, <3>2 DEF e, f, u, v, w, x
  <2>6. CASE t = "String"
    <3>1. l \in {"String", "Null"} BY <1>14, <2>6 DEF conversion, Widens, None, Illegal
    <3>2. p # Null BY <2>6, <3>1
    <3>3. l = "String" BY <3>1, <3>2 DEF ValuesOf
    <3>4. PICK s \in Texts : p = Boxed("String", Str(s)) BY <3>2, <3>3 DEF ValuesOf
    <3>5. any_to_display(p) = s BY <3>4 DEF any_to_display, Boxed, Str, Nil, IsNumeric, NumericTypes
    <3>6. box_value(w) = p /\ w # Throw
      <4>1. "String" \in Pointers BY PointerShapes
      <4> QED BY <1>13, <2>6, <3>4, <3>5, <4>1 DEF box_value, Tag, Str, Nil, Throw
    <3>7. Same(v, w) BY <1>6, <2>1, <3>6 DEF Same, Plain
    <3> QED BY <1>2, <3>7 DEF e, f, u, v, w, x
  <2> QED BY <2>5, <2>6
<1>15. CASE conversion(l, t) # None /\ t \in core
  <2>1. v = convert(<<"To", t>>, x)
    <3>1. e.left = None /\ how = <<"To", t>> BY <1>3, <1>15
    <3> HIDE DEF e, x, how
    <3>2. v = Emit(c, x, y) BY <1>0, <1>2, <3>1 DEF Computed
    <3> QED BY <1>6, <1>9, <1>15, <3>1, <3>2
  <2>2. v = w
    <3> HIDE DEF e, f, u, v, w, x
    <3>1. CASE t = "Boolean"
      <4>1. l # "Boolean" BY <1>15, <3>1 DEF conversion
      <4>2. v = <<"Boolean", any_truthy(p)>> BY <2>1, <3>1, <4>1, TruthAndBox DEF x
      <4>3. w = <<"Boolean", any_truthy(p)>>
        BY <1>12, <3>1 DEF unbox_any_ptr, MachineTypes
      <4> QED BY <4>2, <4>3
    <3>2. CASE t \in NumericTypes /\ l \in NumericTypes \cup {"Any"}
      <4>1. t \in MachineTypes /\ l # "Void" BY <3>2 DEF MachineTypes, NumericTypes
      <4>2. coerce(l, t) = <<"To", t>>
        BY <1>15, <3>2, <4>1 DEF coerce, conversion, NumericTypes
      <4>3. coerce(l, t) # Illegal BY <4>2 DEF Illegal
      <4>4. v = unbox_any_ptr(p, t) BY <2>1, <4>1, <4>2, <4>3, MachineOperand DEF x
      <4> QED BY <1>12, <4>1, <4>4
    <3>3. CASE t \in NumericTypes /\ l \notin NumericTypes \cup {"Any"}
      <4>1. t = "Number" /\ l \in {"String", "Null"} BY <1>15, <3>3 DEF conversion, NumericTypes
      <4>2. x[1] = "String" BY <1>6, <4>1, HeldValues
      <4>3. v = <<"Number", any_to_number(p)>>
        BY <1>6, <2>1, <4>1, <4>2 DEF convert, convert_to, convert_to_number, Plain, NumericTypes
      <4>4. w = <<"Number", any_to_number(p)>>
        BY <1>12, <3>3, <4>1 DEF unbox_any_ptr, MachineTypes
      <4> QED BY <4>3, <4>4
    <3>4. CASE t = "String"
      <4>1. l # "String" BY <1>15, <3>4 DEF conversion
      <4>2. v = convert(concat_operand(l), Operand(p, l)) BY <2>1, <3>4, <4>1 DEF concat_operand, x
      <4>3. l = "Any" \/ p # Null BY <3>4
      <4>4. HasText(l, p) BY <4>3 DEF HasText
      <4>5. /\ v \in Held("String") /\ v[1] = "String"
            /\ (IF v[2] = Nil THEN Lit("null") ELSE v[2][2]) = any_to_display(p)
            /\ p # Null => v[2] # Nil
        BY <4>2, <4>4, TextOfOperand
      <4>6. CASE l = "Any"
        <5>1. v = w
          <6>1. x = u BY <4>6 DEF x, u, Operand
          <6>2. how = <<"To", t>> BY <3>4
          <6> QED BY <1>10, <2>1, <6>1, <6>2
        <5> QED BY <5>1
      <4>7. CASE p # Null
        <5>1. v = <<"String", v[2]>> /\ v[2] \in Strings \ {Nil} BY <4>5, <4>7, HeldValues
        <5>2. v[2] = Str(v[2][2]) BY <5>1 DEF Strings, Str
        <5>3. v = <<"String", Str(any_to_display(p))>> BY <4>5, <5>1, <5>2
        <5> QED BY <1>13, <3>4, <5>3
      <4> QED BY <4>3, <4>6, <4>7
    <3> QED BY <1>15, <3>1, <3>2, <3>3, <3>4 DEF MachineTypes
  <2> HIDE DEF e, f, u, v, w, x
  <2>3. Same(v, w) BY <2>2 DEF Same
  <2> QED BY <1>2, <2>3 DEF e, f, u, v, w, x
<1>16. CASE conversion(l, t) # None /\ t \notin core
  <2>1. l # "Null" BY <1>1, <1>16 DEF conversion, NullableTypes, ClassTypes
  <2>2. convert(e.left, x) = u
    <3>1. convert(coerce_to_any(l), x) = u BY <2>1, TruthAndBox
    <3> HIDE DEF e, x, u
    <3> QED BY <1>3, <1>16, <3>1
  <2> HIDE DEF e, f, u, x, how
  <2>3. v = Emit(c, u, y) BY <1>0, <1>2, <2>2 DEF Computed
  <2>4. v = w BY <1>8, <1>9, <1>10, <1>16, <2>3
  <2> HIDE DEF v, w
  <2>5. Same(v, w) BY <2>4 DEF Same
  <2> QED BY <1>2, <2>5 DEF e, f, u, v, w, x
<1> QED BY <1>14, <1>15, <1>16

-----------------------------------------------------------------------------
(* Statements: the typed run and the run on boxes end with the same value. *)

(* The outcomes v, typed, and w, dynamic and of type ty, leave a variable  *)
(* of type to with the same value.                                         *)
Meets(to, v, ty, w) ==
  /\ ty \in OperandTypes \ {"Void"} /\ coerce(ty, to) # Illegal
  /\ w \in Passing(ty) \cup {Throw}
  /\ \/ Alike(v, w)
     \/ /\ to \in {"Int", "UInt"} /\ Throw \notin {v, w}
        /\ unbox_any_ptr(box_value(v), to) = unbox_any_ptr(box_value(w), to)

(* Any type takes a value of type "*".                                     *)
LEMMA AnyConverts ==
  /\ \A t \in VariableTypes : coerce("Any", t) # Illegal
  /\ coerce("Any", "Any") = None
<1>1. coerce("Any", "Any") = None BY DEF coerce, conversion
<1>2. ASSUME NEW t \in VariableTypes PROVE coerce("Any", t) # Illegal
  <2>1. coerce("Any", t) \in {None, <<"To", t>>, <<"FromAny", t>>}
    BY DEF coerce, conversion
  <2> QED BY <2>1 DEF None, Illegal
<1> QED BY <1>1, <1>2

(* Equal outcomes of equal types meet.                                     *)
LEMMA EqualOutcomesMeet ==
  ASSUME NEW to, NEW ty \in OperandTypes \ {"Void"}, coerce(ty, to) # Illegal,
         NEW v \in Passing(ty) \cup {Throw}
  PROVE  Meets(to, v, ty, v)
<1>1. Alike(v, v) BY DEF Alike, SameValue
<1> QED BY <1>1 DEF Meets

(* An outcome meets its box, and a box of the same value.                  *)
LEMMA BoxedOutcomesMeet ==
  ASSUME NEW to \in VariableTypes, NEW v, v # Throw, NEW s \in Boxes, SameValue(box_value(v), s)
  PROVE  Meets(to, v, "Any", <<"Any", s>>)
<1> DEFINE w == <<"Any", s>>
<1>1. "Any" \in OperandTypes \ {"Void"} /\ Passing("Any") = Held("Any") BY TypesOfOperands
<1>2. w \in Held("Any") BY DEF Held, MachineTypes
<1>3. "Any" \notin Pointers BY PointerShapes DEF References_
<1>4. box_value(w) = s /\ w # Throw BY <1>3 DEF box_value, Throw
<1>5. coerce("Any", to) # Illegal BY AnyConverts
<1> HIDE DEF w
<1>6. Alike(v, w) BY <1>4 DEF Alike
<1> QED BY <1>1, <1>2, <1>5, <1>6 DEF Meets, w

(* The box of an outcome that a variable accepts.                          *)
LEMMA PassingIsBoxed ==
  ASSUME NEW t \in OperandTypes \ {"Void"}, NEW v \in Passing(t)
  PROVE  box_value(v) \in Boxes /\ v # Throw
<1>1. PICK l \in OperandTypes \ {"Void"} : v \in Held(l) BY TypesOfOperands DEF Passing
<1> QED BY <1>1, BoxedIsBox, HeldShape

(* Outcomes that meet leave a variable with the same value.                *)
LEMMA MeetingIsKept ==
  ASSUME NEW c, NEW d, c.to \in VariableTypes, d.to = c.to,
         NEW from \in OperandTypes \ {"Void"}, NEW v \in Passing(from) \cup {Throw},
         c.last = coerce(from, c.to), c.last # Illegal,
         NEW ty, NEW w, d.last = coerce(ty, c.to), Meets(c.to, v, ty, w)
  PROVE  Alike(load_local(c, store_local(c, convert(c.last, v))),
               load_local(d, store_local(d, convert(d.last, w))))
<1>1. /\ ty \in OperandTypes \ {"Void"} /\ d.last # Illegal
      /\ w \in Passing(ty) \cup {Throw}
  BY DEF Meets
<1>2. CASE Throw \in {v, w}
  <2>1. v = Throw /\ w = Throw BY <1>2 DEF Meets, Alike
  <2>2. ASSUME NEW a, NEW k PROVE load_local(a, store_local(a, convert(k, Throw))) = Throw
    <3>1. convert(k, Throw) = Throw BY DEF convert
    <3>2. store_local(a, Throw) = Throw BY DEF store_local
    <3>3. load_local(a, Throw) = Throw BY DEF load_local, Throw
    <3> QED BY <3>1, <3>2, <3>3
  <2> DEFINE m == load_local(c, store_local(c, convert(c.last, v)))
             n == load_local(d, store_local(d, convert(d.last, w)))
  <2>3. m = Throw /\ n = Throw BY <2>1, <2>2
  <2> HIDE DEF m, n
  <2>4. Alike(m, n) BY <2>3 DEF Alike
  <2> QED BY <2>4 DEF m, n
<1>3. CASE Throw \notin {v, w}
  <2>1. v \in Passing(from) /\ w \in Passing(ty) BY <1>1, <1>3
  <2>2. box_value(v) \in Boxes /\ box_value(w) \in Boxes BY <1>1, <2>1, PassingIsBoxed
  <2>3. Alike(unbox_any_ptr(box_value(v), c.to), unbox_any_ptr(box_value(w), c.to))
    <3>1. CASE Alike(v, w)
      <4>1. SameValue(box_value(v), box_value(w)) BY <1>3, <3>1 DEF Alike
      <4> QED BY <2>2, <4>1, AlikeBoxes
    <3>2. CASE unbox_any_ptr(box_value(v), c.to) = unbox_any_ptr(box_value(w), c.to)
      <4>1. \A m : Alike(m, m) BY DEF Alike, SameValue
      <4> QED BY <3>2, <4>1
    <3> QED BY <3>1, <3>2 DEF Meets
  <2> QED BY <1>1, <2>1, <2>3, AssignmentsAlike
<1> QED BY <1>2, <1>3

(* Where no conversion of a box to the variable's type exists, the outcome *)
(* itself is compared.                                                     *)
LEMMA MeetingInBox ==
  ASSUME NEW c, NEW d, c.to \in {"Function", "Namespace"}, d.to = "Any",
         NEW from \in OperandTypes \ {"Void"}, NEW v \in Passing(from) \cup {Throw},
         c.last = coerce(from, c.to), c.last \notin {Illegal, <<"FromAny", c.to>>},
         NEW w, d.last = None, Meets(c.to, v, "Any", w)
  PROVE  Alike(load_local(c, store_local(c, convert(c.last, v))),
               load_local(d, store_local(d, convert(d.last, w))))
<1> DEFINE m == load_local(c, store_local(c, convert(c.last, v)))
           n == load_local(d, store_local(d, convert(d.last, w)))
<1>0. c.to \in VariableTypes /\ "Any" \in VariableTypes
  BY DEF VariableTypes, PointerTypes, NullableTypes
<1>1. c.last = None
  <2>1. conversion(from, c.to) \in {None, <<"FromAny", c.to>>, Illegal}
    BY DEF conversion, MachineTypes, NumericTypes
  <2> QED BY <2>1 DEF coerce
<1>2. Alike(v, w) /\ w \in Passing("Any") \cup {Throw} BY DEF Meets
<1>3. \A z : convert(None, z) = z BY DEF convert, None
<1>4. v \in Passing(c.to) \cup {Throw}
  <2>1. CASE v = Throw BY <2>1
  <2>2. CASE v # Throw
    <3>1. convert(coerce(from, c.to), v) \in Passing(c.to) \cup {Throw}
      BY <1>0, <2>2, CoercedIsPassing
    <3> QED BY <1>1, <1>3, <3>1
  <2> QED BY <2>1, <2>2
<1>5. Same(m, v) BY <1>0, <1>1, <1>3, <1>4, StoredIsRead
<1>6. Same(n, w) BY <1>0, <1>2, <1>3, StoredIsRead
<1> HIDE DEF m, n
<1>7. Alike(m, n) BY <1>2, <1>5, <1>6 DEF Same, Alike
<1> QED BY <1>7 DEF m, n

-----------------------------------------------------------------------------
(* The statement on boxes. *)

(* The operator, the statement and the operands of DynamicRun.             *)
DynamicOp(op) == CASE op = "++" -> "+" [] op = "--" -> "-" [] OTHER -> op
Dynamic(to) == [op |-> DynamicOp(stmt.op), l |-> "Any",
                r |-> IF IsBinary(stmt) \/ stmt.op \in {"++", "--"} THEN "Any" ELSE stmt.r,
                to |-> to, cell |-> FALSE]
DynamicVals == IF stmt.op \in {"++", "--"} THEN <<vals[1], Boxed("Int", 1)>> ELSE vals

(* What the checker makes of it.                                           *)
LEMMA DynamicIs ==
  ASSUME IsStatement(stmt), NEW to, NEW s, s = Dynamic(to), NEW op, op = stmt.op
  PROVE  /\ s.op = DynamicOp(op) /\ s.l = "Any" /\ s.to = to
         /\ op \in BinaryOps =>
              /\ s.op = op /\ s.r = "Any" /\ RightType(s) = "Any" /\ RightType(stmt) = stmt.r
              /\ expr(s) = binary_typed(op, "Any", "Any") /\ expr(stmt) = binary_typed(op, stmt.l, stmt.r)
         /\ op \in {"++", "--"} =>
              /\ s.op = (IF op = "++" THEN "+" ELSE "-") /\ RightType(s) = "Any" /\ RightType(stmt) = "Null"
              /\ expr(s) = binary_typed(s.op, "Any", "Any") /\ expr(stmt) = unary(op, stmt.l)
         /\ op \notin BinaryOps \cup {"++", "--"} =>
              /\ s.op = op /\ s.r = stmt.r /\ RightType(s) = "Null" /\ RightType(stmt) = "Null"
         /\ op \in UnaryOps \ {"++", "--"} => expr(s) = unary(op, "Any") /\ expr(stmt) = unary(op, stmt.l)
         /\ op \in {"is", "as"} => expr(s) = is_as(op, "Any", stmt.r) /\ expr(stmt) = is_as(op, stmt.l, stmt.r)
         /\ op = "cast" => expr(s) = cast_call("Any", stmt.r) /\ expr(stmt) = cast_call(stmt.l, stmt.r)
         /\ op = "=" => expr(s) = Typed("Any", None, None) /\ expr(stmt) = Typed(stmt.l, None, None)
<1>1. op \in BinaryOps \cup UnaryOps \cup TypeOps \cup {"="} BY DEF IsStatement
<1>2. BinaryOps \cap (UnaryOps \cup TypeOps \cup {"="}) = {} /\ {"+", "-"} \subseteq BinaryOps
      /\ {"++", "--"} \subseteq UnaryOps
  BY DEF BinaryOps, UnaryOps, TypeOps, Logical, Choices, Bitwise32, Relational, Equality
<1>3. \A z : IsBinary(z) <=> z.op \notin UnaryOps \cup TypeOps \cup {"="} BY DEF IsBinary
<1>4. IsBinary(stmt) <=> op \in BinaryOps BY <1>1, <1>2, <1>3
<1>5. /\ s.op = DynamicOp(op) /\ s.l = "Any" /\ s.to = to
      /\ s.r = IF op \in BinaryOps \/ op \in {"++", "--"} THEN "Any" ELSE stmt.r
  BY <1>4 DEF Dynamic
<1>6. op \notin {"++", "--"} => s.op = op BY <1>5 DEF DynamicOp
<1>7. op \in {"++", "--"} => s.op = (IF op = "++" THEN "+" ELSE "-") BY <1>5 DEF DynamicOp
<1>8. \A z : z.op \in BinaryOps => expr(z) = binary_typed(z.op, z.l, z.r)
  BY <1>2 DEF expr, UnaryOps, TypeOps
<1>9. \A z : z.op \in UnaryOps => expr(z) = unary(z.op, z.l) BY DEF expr, UnaryOps
<1>10. \A z : z.op \in {"is", "as"} => expr(z) = is_as(z.op, z.l, z.r) BY DEF expr, UnaryOps
<1>11. \A z : z.op = "cast" => expr(z) = cast_call(z.l, z.r) BY DEF expr, UnaryOps
<1>12. \A z : z.op = "=" => expr(z) = Typed(z.l, None, None) BY DEF expr, UnaryOps
<1>13. CASE op \in BinaryOps
  <2>1. s.op = op /\ s.r = "Any" BY <1>2, <1>5, <1>6, <1>13
  <2>2. RightType(s) = "Any" /\ RightType(stmt) = stmt.r BY <1>2, <1>3, <1>13, <2>1 DEF RightType
  <2> QED BY <1>2, <1>5, <1>8, <1>13, <2>1, <2>2 DEF TypeOps
<1>14. CASE op \in {"++", "--"}
  <2>1. s.op = (IF op = "++" THEN "+" ELSE "-") /\ s.r = "Any" /\ s.op \in BinaryOps BY <1>2, <1>5, <1>7, <1>14
  <2>2. RightType(s) = "Any" /\ RightType(stmt) = "Null" BY <1>2, <1>3, <1>14, <2>1 DEF RightType
  <2> QED BY <1>2, <1>5, <1>8, <1>9, <1>14, <2>1, <2>2 DEF TypeOps
<1>15. CASE op \notin BinaryOps \cup {"++", "--"}
  <2>1. s.op = op /\ s.r = stmt.r BY <1>5, <1>6, <1>15
  <2>2. RightType(s) = "Null" /\ RightType(stmt) = "Null" BY <1>1, <1>2, <1>3, <1>15, <2>1 DEF RightType
  <2> QED BY <1>5, <1>9, <1>10, <1>11, <1>12, <1>15, <2>1, <2>2
<1> QED BY <1>13, <1>14, <1>15

(* No operand of type "*" is converted to a function or a namespace: only  *)
(* the assignment of the result may be refused.                            *)
LEMMA DynamicIsLowered ==
  ASSUME IsStatement(stmt), stmt.op # "instanceof", NEW to \in VariableTypes,
         expr(Dynamic(to)).ty \in OperandTypes \ {"Void"}
  PROVE  /\ assign(Dynamic(to)).to = to /\ assign(Dynamic(to)).last = coerce(expr(Dynamic(to)).ty, to)
         /\ gated(assign(Dynamic(to))) =>
              /\ to \in {"Function", "Namespace"} /\ expr(Dynamic(to)).ty = "Any"
<1> DEFINE s == Dynamic(to)
           d == assign(s)
           f == expr(s)
           op == stmt.op
<1>0. "auto" \notin VariableTypes
  BY DEF VariableTypes, MachineTypes, NumericTypes, PointerTypes, NullableTypes, ClassTypes, VectorTypes
<1>1. s.to = to /\ s.op = DynamicOp(op) BY DEF Dynamic
<1>2. d.to = to /\ d.last = coerce(f.ty, to) /\ d.left = f.left /\ d.op = s.op BY <1>0, <1>1 DEF assign
<1>3. f.left[1] # "FromAny"
  <2>1. \A t \in MachineTypes \cup {"Any"} : coerce("Any", t)[1] # "FromAny"
    BY DEF coerce, conversion, None, Illegal
  <2>2. coerce_to_any("Any") = None /\ coerce_condition("Any")[1] # "FromAny" /\ None[1] # "FromAny"
        /\ Illegal[1] # "FromAny"
    BY DEF coerce_to_any, coerce_condition, None, Illegal
  <2>3. \A o \in BinaryOps : binary_typed(o, "Any", "Any").left[1] # "FromAny"
    <3> SUFFICES ASSUME NEW o \in BinaryOps PROVE binary_typed(o, "Any", "Any").left[1] # "FromAny" OBVIOUS
    <3>1. binary_typed(o, "Any", "Any").left \in {coerce("Any", "Any"), coerce("Any", "Number"), coerce("Any", "Int"),
                                                  coerce("Any", "UInt"), coerce_to_any("Any"), None}
      BY DEF binary_typed, Typed, merge_types, BinaryOps, Logical, Choices, Bitwise32, Relational, NumericTypes
    <3> QED BY <2>1, <2>2, <3>1 DEF MachineTypes, NumericTypes
  <2>4. \A o \in UnaryOps : unary(o, "Any").left[1] # "FromAny"
    BY <2>1, <2>2 DEF unary, UnaryOps, Typed, MachineTypes, NumericTypes
  <2>5. \A t : is_as("is", "Any", t).left[1] # "FromAny" /\ is_as("as", "Any", t).left[1] # "FromAny"
    BY <2>2 DEF is_as, Typed
  <2>6. \A t : cast_call("Any", t).left[1] # "FromAny"
    BY <2>2 DEF cast_call, Typed, MachineTypes, NumericTypes, ClassTypes
  <2>7. Typed("Any", None, None).left[1] # "FromAny" BY <2>2 DEF Typed
  <2>8. op \in BinaryOps \cup UnaryOps \cup TypeOps \cup {"="} BY DEF IsStatement
  <2>9. {"+", "-"} \subseteq BinaryOps BY DEF BinaryOps
  <2> HIDE DEF f, s, op
  <2>10. s = Dynamic(to) /\ op = stmt.op BY DEF s, op
  <2>11. CASE op \in BinaryOps BY <2>3, <2>10, <2>11, DynamicIs DEF f
  <2>12. CASE op \in {"++", "--"} BY <2>3, <2>9, <2>10, <2>12, DynamicIs DEF f
  <2>13. CASE op \in UnaryOps \ {"++", "--"} BY <2>4, <2>10, <2>13, DynamicIs DEF f
  <2>14. CASE op \in {"is", "as"} BY <2>5, <2>10, <2>14, DynamicIs DEF f
  <2>15. CASE op = "cast" BY <2>6, <2>10, <2>15, DynamicIs DEF f
  <2>16. CASE op = "=" BY <2>7, <2>10, <2>16, DynamicIs DEF f
  <2> QED BY <2>8, <2>11, <2>12, <2>13, <2>14, <2>15, <2>16 DEF TypeOps
<1>4. d.op \notin {"instanceof", "++", "--"} BY <1>1, <1>2 DEF DynamicOp
<1>5. gated(d) => d.last \in {<<"FromAny", "Function">>, <<"FromAny", "Namespace">>}
  <2> HIDE DEF d, f, s
  <2> QED BY <1>2, <1>3, <1>4 DEF gated
<1>6. d.last \in {<<"FromAny", "Function">>, <<"FromAny", "Namespace">>} => to \in {"Function", "Namespace"} /\ f.ty = "Any"
  <2> HIDE DEF f, d
  <2>1. \A t, k : t # "Any" => conversion(t, k)[1] # "FromAny" BY DEF conversion, None, Illegal
  <2>2. \A k, j : conversion("Any", k) = <<"FromAny", j>> => k = j BY DEF conversion, None, Illegal
  <2>3. coerce(f.ty, to) = conversion(f.ty, to) BY DEF coerce, f
  <2> QED BY <1>2, <2>1, <2>2, <2>3
<1> QED BY <1>2, <1>5, <1>6

(* An int can be 1.                                                        *)
LEMMA HalfExceedsOne == Half32 # 1
<1> DEFINE n == Width - 1
           S == SUBSET (1 .. n)
<1>1. n \in Nat /\ 1 \in 1 .. n BY TypingAssumption
<1>2. IsFiniteSet(1 .. n) /\ Cardinality(1 .. n) = n
  <2>1. Cardinality(1 .. n) = IF 1 > n THEN 0 ELSE n - 1 + 1 BY <1>1, FS_Interval
  <2> QED BY <1>1, <2>1, FS_Interval
<1>3. Cardinality(S) = 2 ^ n /\ IsFiniteSet(S) BY <1>2, FS_SUBSET
<1>4. {} \in S /\ {1} \in S /\ {} # {1} BY <1>1
<1>5. Cardinality(S) # 1
  <2> HIDE DEF S
  <2>1. \A a : S # {a} BY <1>4
  <2> QED BY <1>3, <2>1, FS_Singleton
<1> QED BY <1>3, <1>5 DEF Half32

(* Whatever the operator, the typed outcome and the one on boxes meet.     *)
LEMMA OutcomesMeet ==
  ASSUME IsStatement(stmt), NEW c, c = assign(stmt), IsLegal(c), ~gated(c),
         ~UncheckedOperand, ~MisshapenValue, ~TextOfNull,
         vals[1] \in ValuesOf(stmt.l), vals[2] \in ValuesOf(RightType(stmt)),
         NEW to, NEW s, s = Dynamic(to),
         NEW d, d.op = s.op, d.ty = expr(s).ty, d.from = "Any", d.target = s.r
  PROVE  Meets(c.to, Computed(c, expr(stmt), Operand(vals[1], stmt.l), Operand(vals[2], RightType(stmt))),
               expr(s).ty, Computed(d, expr(s), Operand(DynamicVals[1], "Any"),
                                    Operand(DynamicVals[2], RightType(s))))
<1> DEFINE op == stmt.op
           l == stmt.l
           r == RightType(stmt)
           p == vals[1]
           q == vals[2]
           e == expr(stmt)
           f == expr(s)
           x == Operand(p, l)
           y == Operand(q, r)
           u == Operand(DynamicVals[1], "Any")
           w == Operand(DynamicVals[2], RightType(s))
           v == Computed(c, e, x, y)
           z == Computed(d, f, u, w)
<1> SUFFICES Meets(c.to, v, f.ty, z) OBVIOUS
<1>1. /\ c.op = op /\ c.ty = e.ty /\ c.left = e.left /\ c.right = e.right
      /\ c.from = l /\ c.target = stmt.r /\ Illegal \notin {e.left, e.right}
  BY DEF assign, IsLegal
<1>2. /\ op \in BinaryOps \cup UnaryOps \cup TypeOps \cup {"="}
      /\ op \in TypeOps => stmt.r \in VariableTypes \ {"Any"}
      /\ op \in BinaryOps => stmt.r \in OperandTypes
  <2>1. BinaryOps \cap (UnaryOps \cup {"="}) = {}
    BY DEF BinaryOps, UnaryOps, Logical, Choices, Bitwise32, Relational, Equality
  <2> QED BY <2>1 DEF IsStatement
<1>3. l \in OperandTypes \ {"Void"} /\ (op \notin TypeOps => stmt.r # "Void") /\ op # "instanceof"
  BY <1>1 DEF IsStatement, UncheckedOperand, gated
<1>4. BinaryOps \cap (UnaryOps \cup TypeOps \cup {"="}) = {} /\ {"++", "--"} \subseteq UnaryOps
      /\ UnaryOps \cap (TypeOps \cup {"="}) = {}
  BY DEF BinaryOps, UnaryOps, TypeOps, Logical, Choices, Bitwise32, Relational, Equality
<1>5. r \in OperandTypes \ {"Void"}
  <2>1. "Null" \in OperandTypes \ {"Void"} BY TypesOfOperands
  <2>2. op \in BinaryOps => r = stmt.r BY <1>4, DynamicIs
  <2>3. op \notin BinaryOps => r = "Null" BY <1>2, <1>4 DEF IsBinary, RightType
  <2> QED BY <1>2, <1>3, <1>4, <2>1, <2>2, <2>3
<1>6. e.ty \in OperandTypes \ {"Void"} /\ v \in Passing(e.ty) \cup {Throw}
  BY <1>1, EmitYields DEF Computed
<1>7. c.to \in VariableTypes /\ c.last = coerce(e.ty, c.to) /\ c.last # Illegal
  BY <1>1, <1>6, VariableIsTyped DEF IsLegal
<1>8. /\ p \in Boxes /\ q \in Boxes /\ Plain(x) /\ Plain(y) /\ x \in Held(l) /\ y \in Held(r)
      /\ p \in ValuesOf(l) /\ q \in ValuesOf(r)
  BY <1>3, <1>5, OperandIsHeld, HeldIsPlain
<1>9. \A b : Operand(b, "Any") = <<"Any", b>> BY DEF Operand
<1>10. op \notin {"++", "--"} => u = <<"Any", p>> /\ DynamicVals[2] = q BY <1>9 DEF DynamicVals
<1>11. op \in {"++", "--"} => u = <<"Any", p>> /\ DynamicVals[2] = Boxed("Int", 1) BY <1>9 DEF DynamicVals
<1>12. op \notin BinaryOps \cup {"++", "--"} => w = y
  <2>1. op \notin BinaryOps \cup {"++", "--"} => RightType(s) = r BY DynamicIs
  <2> QED BY <1>10, <2>1
<1>13. op \in BinaryOps => w = <<"Any", q>>
  <2>1. op \in BinaryOps => RightType(s) = "Any" BY DynamicIs
  <2> QED BY <1>4, <1>9, <1>10, <2>1
<1>14. ASSUME f.ty = e.ty, z = v PROVE Meets(c.to, v, f.ty, z)
  <2> HIDE DEF v, z, e, f
  <2> QED BY <1>6, <1>7, <1>14, EqualOutcomesMeet
<1>15. ASSUME f.ty = "Any", v # Throw, NEW b \in Boxes, z = <<"Any", b>>, SameValue(box_value(v), b)
       PROVE  Meets(c.to, v, f.ty, z)
  <2> HIDE DEF v, z, f
  <2> QED BY <1>7, <1>15, BoxedOutcomesMeet
<1>16. CASE op \in BinaryOps
  <2>1. /\ r = stmt.r /\ e = binary_typed(op, l, r) /\ f = binary_typed(op, "Any", "Any") /\ d.op = op
        /\ u = <<"Any", p>> /\ w = <<"Any", q>>
    BY <1>4, <1>10, <1>13, <1>16, DynamicIs
  <2> DEFINE v1 == Computed(c, binary_typed(op, l, r), Operand(p, l), Operand(q, r))
             z1 == Computed(d, binary_typed(op, "Any", "Any"), <<"Any", p>>, <<"Any", q>>)
  <2> HIDE DEF op, l, r, p, q, e, f, x, y, u, w
  <2>6. Illegal \notin {binary_typed(op, l, r).left, binary_typed(op, l, r).right} BY <1>1, <2>1
  <2>7. v = v1 /\ z = z1 BY <2>1 DEF x, y
  <2>2. CASE op \in {"-", ">>>"} \cup Bitwise32
    <3>1. binary_typed(op, "Any", "Any").ty = binary_typed(op, l, r).ty /\ v1 = z1
      BY <1>1, <1>3, <1>5, <1>8, <2>1, <2>2, <2>6, ArithmeticAgrees
    <3>2. f.ty = e.ty /\ z = v BY <2>1, <2>7, <3>1
    <3> QED BY <1>14, <3>2
  <2>3. CASE op \in Relational \cup Equality
    <3>1. binary_typed(op, "Any", "Any").ty = binary_typed(op, l, r).ty /\ v1 = z1
      BY <1>1, <1>3, <1>5, <1>8, <2>1, <2>3, <2>6, ComparisonAgrees
    <3>2. f.ty = e.ty /\ z = v BY <2>1, <2>7, <3>1
    <3> QED BY <1>14, <3>2
  <2>4. CASE op = "+"
    <3>1. "Null" \in {l, r} => "String" \in {l, r} BY <2>1, <2>4 DEF MisshapenValue, op, l
    <3>2. HasText(l, p) /\ HasText(r, q) /\ ("String" \in {l, r} => "String" \in {p[1], q[1]})
      BY <2>1, <2>4 DEF TextOfNull, HasText, op, l, p, q
    <3>3. /\ f.ty = "Any" /\ z = <<"Any", any_add(p, q)>> /\ v # Throw /\ box_value(v) = any_add(p, q)
      BY <1>1, <1>3, <1>5, <1>8, <2>1, <2>4, <3>1, <3>2, AdditionAgrees DEF x, y
    <3>4. any_add(p, q) \in Boxes
      <4> HIDE DEF v
      <4>1. v \in Passing(e.ty) BY <1>6, <3>3
      <4> QED BY <1>6, <3>3, <4>1, PassingIsBoxed
    <3>5. SameValue(box_value(v), any_add(p, q)) BY <3>3 DEF SameValue
    <3> QED BY <1>15, <3>3, <3>4, <3>5
  <2>5. CASE op \in Logical
    <3>1. /\ f.ty = "Any"
          /\ \E b \in {p, q} : z = <<"Any", b>> /\ v # Throw /\ SameValue(box_value(v), b)
      <4>1. binary_typed(op, "Any", "Any").ty = "Any"
        BY <2>5 DEF binary_typed, Logical, Choices, Bitwise32, Relational, merge_types, Typed
      <4>2. d.ty = "Any" BY <2>1, <4>1 DEF f
      <4> QED BY <1>1, <1>3, <1>5, <1>8, <2>1, <2>5, <4>1, <4>2, LogicalAgrees DEF x, y
    <3>2. PICK b \in {p, q} : z = <<"Any", b>> /\ v # Throw /\ SameValue(box_value(v), b) BY <3>1
    <3> QED BY <1>8, <1>15, <3>1, <3>2
  <2> QED BY <1>3, <1>16, <2>2, <2>3, <2>4, <2>5 DEF BinaryOps, op
<1>17. CASE op \in {"++", "--"}
  <2>1. l \in NumericTypes
    <3>1. SUFFICES ASSUME l \notin NumericTypes PROVE FALSE OBVIOUS
    <3>2. e.left = coerce(l, "Number") BY <1>17, <3>1, DynamicIs DEF unary, Typed
    <3>3. coerce(l, "Number") # None
      BY <1>3, <3>1 DEF coerce, conversion, None, Illegal, NumericTypes, Widens, NullableTypes, ClassTypes
    <3> QED BY <1>1, <1>17, <3>2, <3>3 DEF gated
  <2>2. /\ e = unary(op, l) /\ s.op = (IF op = "++" THEN "+" ELSE "-")
        /\ f = binary_typed(s.op, "Any", "Any")
        /\ u = <<"Any", p>> /\ w = <<"Any", Boxed("Int", 1)>>
    <3>1. RightType(s) = "Any" BY <1>17, DynamicIs
    <3> QED BY <1>9, <1>11, <1>17, <3>1, DynamicIs
  <2> DEFINE b == Boxed("Int", 1)
  <2>3. b \in Boxes /\ <<"Any", b>> \in Held("Any") /\ <<"Any", p>> \in Held("Any")
    <3>1. 1 \in Ints
      <4>1. Half32 # 1 BY HalfExceedsOne
      <4> QED BY <4>1, HalfIsPositive DEF Ints
    <3>2. b \in Boxes BY <3>1 DEF Boxes, NumberBoxes, Boxed
    <3> HIDE DEF b, p
    <3> QED BY <1>8, <3>2 DEF Held, MachineTypes
  <2>4. "Any" \in OperandTypes \ {"Void"} BY TypesOfOperands
  <2>5. f.ty \in OperandTypes \ {"Void"} /\ z \in Passing(f.ty) \cup {Throw} /\ Illegal \notin {f.left, f.right}
    <3> HIDE DEF b, p, l, e, f
    <3>1. /\ binary_typed("+", "Any", "Any") = Typed("Any", None, None)
          /\ binary_typed("-", "Any", "Any") = Typed("Number", <<"To", "Number">>, <<"To", "Number">>)
      <4>1. coerce_to_any("Any") = None BY DEF coerce_to_any
      <4>2. coerce("Any", "Number") = <<"To", "Number">>
        BY DEF coerce, conversion, MachineTypes, NumericTypes, Widens, NullableTypes
      <4> QED BY <4>1, <4>2 DEF binary_typed, Logical, Choices, Bitwise32, Relational, NumericTypes
    <3>2. Illegal \notin {f.left, f.right} BY <2>2, <3>1 DEF Typed, None, Illegal
    <3> DEFINE k == <<"Any", b>>
               n == Emit(d, convert(f.left, u), convert(f.right, k))
    <3>3. u \in Held("Any") /\ k \in Held("Any") /\ z = n
      <4> HIDE DEF u, w
      <4> QED BY <2>2, <2>3 DEF Computed, b
    <3> HIDE DEF k
    <3>4. CASE s.op = "+"
      <4>1. f.ty = "Any" BY <2>2, <3>1, <3>4 DEF Typed
      <4>2. n \in Held(f.ty) \cup {Throw}
        BY <2>2, <2>4, <3>2, <3>3, <3>4, EmitAddition
      <4> QED BY <2>4, <3>2, <3>3, <4>1, <4>2, TypesOfOperands
    <3>5. CASE s.op = "-"
      <4>1. f.ty = "Number" BY <2>2, <3>1, <3>5 DEF Typed
      <4>2. n \in Held(f.ty) \cup {Throw}
        BY <2>2, <2>4, <3>2, <3>3, <3>5, EmitArithmetic
      <4> QED BY <3>2, <3>3, <4>1, <4>2, TypesOfOperands DEF MachineTypes, NumericTypes
    <3> QED BY <2>2, <3>4, <3>5
  <2>6. c.to = l
    <3>1. e.ty = l BY <2>1, <2>2, IncrementAgrees, <1>8, <1>17
    <3>2. l # "Null" BY <2>1 DEF NumericTypes
    <3> QED BY <1>17, <3>1, <3>2, <1>4 DEF assign, IsStatement, TypeOps
  <2>7. /\ f.ty \in {"Any", "Number"} /\ v # Throw /\ z # Throw
        /\ IF l = "Number" THEN box_value(v) = box_value(z)
           ELSE unbox_any_ptr(box_value(v), l) = unbox_any_ptr(box_value(z), l)
    <3> HIDE DEF e, f, u, w, b, y
    <3> QED BY <1>1, <1>8, <1>17, <2>1, <2>2, IncrementAgrees DEF b
  <2>8. coerce(f.ty, c.to) # Illegal
    <3>1. \A n \in NumericTypes : coerce("Number", n) # Illegal
      BY DEF coerce, conversion, MachineTypes, NumericTypes, None, Illegal
    <3> HIDE DEF f
    <3> QED BY <1>7, <2>1, <2>6, <2>7, <3>1, AnyConverts
  <2>9. Alike(v, z) \/ (c.to \in {"Int", "UInt"} /\ Throw \notin {v, z}
                         /\ unbox_any_ptr(box_value(v), c.to) = unbox_any_ptr(box_value(z), c.to))
    <3> HIDE DEF v, z, l
    <3>1. CASE l = "Number" BY <2>7, <3>1 DEF Alike, SameValue
    <3>2. CASE l # "Number" BY <2>1, <2>6, <2>7, <3>2 DEF NumericTypes
    <3> QED BY <3>1, <3>2
  <2> HIDE DEF v, z, f
  <2> QED BY <2>5, <2>8, <2>9 DEF Meets
<1>18. CASE op \in UnaryOps \ {"++", "--"}
  <2>1. /\ e = unary(op, l) /\ f = unary(op, "Any") /\ d.op = op /\ u = <<"Any", p>> /\ w = y
    BY <1>4, <1>10, <1>12, <1>18, DynamicIs
  <2>2. CASE op = "-x" => l # "Int"
    <3> HIDE DEF op, l, p, e, f, x, y, u, w
    <3>1. f.ty = e.ty /\ z = v BY <1>1, <1>3, <1>8, <1>18, <2>1, <2>2, UnaryAgrees DEF x
    <3> QED BY <1>14, <3>1
  <2>3. CASE op = "-x" /\ l = "Int"
    <3>1. /\ e.ty = "Int" /\ f.ty = "Number" /\ v # Throw /\ z # Throw
          /\ unbox_any_ptr(box_value(v), "Int") = unbox_any_ptr(box_value(z), "Int")
      <4> HIDE DEF y, e, f, u, w
      <4> QED BY <1>1, <1>8, <2>1, <2>3, NegationAgrees
    <3>2. c.to = "Int"
      BY <2>3, <3>1 DEF assign, IsStatement, TypeOps, BinaryOps, Logical, Choices, Bitwise32, Relational, Equality
    <3>3. coerce("Number", "Int") # Illegal
      BY DEF coerce, conversion, MachineTypes, NumericTypes, None, Illegal
    <3>4. z \in Passing("Number") \cup {Throw} /\ "Number" \in OperandTypes \ {"Void"}
      <4>1. "Any" \in OperandTypes \ {"Void"} /\ <<"Any", p>> \in Held("Any")
        BY <1>8, TypesOfOperands DEF Held, MachineTypes
      <4>2. f.left # Illegal /\ f.right = None
        <5>1. coerce("Any", "Number") # Illegal
          BY DEF coerce, conversion, MachineTypes, NumericTypes, None, Illegal
        <5> QED BY <2>1, <2>3, <5>1 DEF unary, Typed
      <4>3. convert(None, y) = y BY DEF convert, None
      <4> HIDE DEF p, y, f, u, w
      <4>4. Emit(d, convert(f.left, <<"Any", p>>), y) \in Held(f.ty) \cup {Throw}
        BY <1>8, <1>18, <2>1, <4>1, <4>2, EmitUnary
      <4> QED BY <2>1, <3>1, <4>2, <4>3, <4>4, TypesOfOperands DEF Computed, Passing, MachineTypes, NumericTypes
    <3> HIDE DEF v, z, f
    <3> QED BY <3>1, <3>2, <3>3, <3>4 DEF Meets
  <2> QED BY <2>2, <2>3
<1>19. CASE op \in {"is", "as"}
  <2>1. /\ e = is_as(op, l, stmt.r) /\ f = is_as(op, "Any", stmt.r) /\ d.op = op /\ d.target = stmt.r
        /\ u = <<"Any", p>> /\ w = y
    <3>1. op \notin BinaryOps \cup {"++", "--"} BY <1>4, <1>19 DEF TypeOps
    <3> QED BY <1>10, <1>12, <1>19, <3>1, DynamicIs
  <2> HIDE DEF op, l, p, e, f, x, y, u, w
  <2>2. f.ty = e.ty /\ z = v BY <1>1, <1>3, <1>8, <1>19, <2>1, TypeTestAgrees DEF x
  <2> QED BY <1>14, <2>2
<1>20. CASE op = "cast"
  <2>1. /\ e = cast_call(l, stmt.r) /\ f = cast_call("Any", stmt.r) /\ d.op = op /\ d.target = stmt.r
        /\ u = <<"Any", p>> /\ w = y
    <3>1. op \notin BinaryOps \cup {"++", "--"} BY <1>4, <1>20 DEF TypeOps
    <3> QED BY <1>10, <1>12, <1>20, <3>1, DynamicIs
  <2> DEFINE t == stmt.r
  <2>2. t \in VariableTypes \ {"Any"} BY <1>2, <1>20 DEF TypeOps
  <2>3. l \notin NumericTypes \cup {"Any", t} =>
           t \notin {"Int", "UInt"} /\ (t = "Number" => l \in {"String", "Null"})
    BY <1>20 DEF UncheckedOperand
  <2>4. t = "String" /\ p = Null => l = "Any" BY <1>20 DEF TextOfNull
  <2> HIDE DEF op, l, p, e, f, x, y, u, w, t
  <2>5. f.ty = t /\ e.ty = t /\ Same(v, z)
    BY <1>1, <1>3, <1>8, <1>20, <2>1, <2>2, <2>3, <2>4, CastAgrees DEF x, t
  <2>6. z \in Passing(t) \cup {Throw}
    <3>1. "Any" \in OperandTypes \ {"Void"} /\ <<"Any", p>> \in Held("Any")
      BY <1>8, TypesOfOperands DEF Held, MachineTypes
    <3>2. f.left # Illegal /\ f.right = None
      <4>1. coerce_to_any("Any") = None BY DEF coerce_to_any
      <4>2. e.left # Illegal BY <1>1
      <4>3. t \in MachineTypes \cup {"String"} \cup ClassTypes \cup {"I"} BY <2>1, <4>2 DEF cast_call, Typed, t
      <4> QED BY <2>1, <4>1, <4>3 DEF cast_call, Typed, t, None, Illegal
    <3>3. convert(None, y) = y BY DEF convert, None
    <3>4. Emit(d, convert(f.left, <<"Any", p>>), y) \in Passing(d.ty) \cup {Throw}
      <4>1. "cast" \in TypeOps BY DEF TypeOps
      <4>2. f = (IF op = "cast" THEN cast_call("Any", t) ELSE is_as(op, "Any", t)) BY <1>20, <2>1 DEF t
      <4>3. d.ty = f.ty /\ d.target = t BY <2>1 DEF f, t
      <4> QED BY <1>8, <1>20, <2>1, <2>2, <3>1, <3>2, <4>1, <4>2, <4>3, EmitTypeOps
    <3>5. d.ty = t BY <2>5 DEF f
    <3> QED BY <2>1, <3>2, <3>3, <3>4, <3>5 DEF Computed
  <2> HIDE DEF v, z
  <2>7. Alike(v, z) BY <2>5 DEF Same, Alike, SameValue
  <2> QED BY <1>6, <1>7, <2>5, <2>6, <2>7 DEF Meets
<1>21. CASE op = "="
  <2>1. /\ e = Typed(l, None, None) /\ f = Typed("Any", None, None) /\ d.op = op
        /\ u = <<"Any", p>> /\ w = y
    <3>1. op \notin BinaryOps \cup {"++", "--"} BY <1>4, <1>21
    <3> QED BY <1>10, <1>12, <1>21, <3>1, DynamicIs
  <2>2. \A m : convert(None, m) = m BY DEF convert, None
  <2>3. Plain(u) /\ box_value(x) = p
    <3>1. Plain(<<"Any", p>>) BY DEF Plain, Panic, Throw
    <3>2. box_value(x) = p BY <1>3, OperandInBox
    <3> QED BY <2>1, <3>1, <3>2
  <2>4. \A a, b : Plain(a) /\ Plain(b) => Emit(c, a, b) = a /\ Emit(d, a, b) = a
    BY <1>1, <1>21, <2>1 DEF Emit, Plain, Logical, Choices, Bitwise32, Relational
  <2> HIDE DEF p, e, f, x, y, u, w
  <2>5. v = x /\ z = u /\ f.ty = "Any" BY <1>8, <2>1, <2>2, <2>3, <2>4 DEF Computed, Typed
  <2>6. v # Throw /\ SameValue(box_value(v), p) BY <1>8, <2>3, <2>5 DEF Plain, SameValue
  <2> QED BY <1>8, <1>15, <2>1, <2>5, <2>6
<1> QED BY <1>2, <1>16, <1>17, <1>18, <1>19, <1>20, <1>21 DEF TypeOps

(* DynamicRun is the statement on boxes, left in a box where no conversion *)
(* to the variable's type exists.                                          *)
LEMMA DynamicRunIs ==
  DynamicRun = Run(IF gated(assign(Dynamic(code.to))) THEN Dynamic("Any") ELSE Dynamic(code.to), DynamicVals)
BY DEF DynamicRun, Dynamic, DynamicVals, DynamicOp

(* The typed and the dynamic run of a finished statement agree.            *)
LEMMA RunsMatch == IInv => TypedMatchesDynamic
<1> SUFFICES ASSUME IInv, stage = "done", ~UncheckedOperand, ~MisshapenValue, ~TextOfNull
             PROVE  Alike(seen, DynamicRun)
  BY DEF TypedMatchesDynamic, Alike
<1>1. /\ stmt \in Statements /\ code = assign(stmt) /\ IsLegal(code) /\ ~gated(code)
      /\ vals[1] \in ValuesOf(stmt.l) /\ vals[2] \in ValuesOf(RightType(stmt))
      /\ slot = store_local(code, Result(code, stmt.l, RightType(stmt), vals))
      /\ seen = load_local(code, slot)
  BY DEF IInv, CompiledInv, ExecutedInv
<1>2. IsStatement(stmt) BY <1>1, TypingAssumption
<1> DEFINE v == Computed(code, expr(stmt), Operand(vals[1], stmt.l), Operand(vals[2], RightType(stmt)))
<1>3. code.left = expr(stmt).left /\ code.right = expr(stmt).right /\ code.ty = expr(stmt).ty
  BY <1>1 DEF assign
<1>4. code.ty \in OperandTypes \ {"Void"} /\ v \in Passing(code.ty) \cup {Throw}
  BY <1>1, <1>2, <1>3, EmitYields DEF Computed
<1>5. code.to \in VariableTypes /\ code.last = coerce(code.ty, code.to) /\ code.last # Illegal
  BY <1>1, <1>2, <1>4, VariableIsTyped DEF IsLegal
<1>6. seen = load_local(code, store_local(code, convert(code.last, v)))
  BY <1>1, <1>3 DEF Result, Computed
<1>7. stmt.op # "instanceof" BY <1>1 DEF gated, assign
<1>8. ASSUME NEW to \in VariableTypes, NEW s, s = Dynamic(to), NEW d, d = assign(s)
      PROVE  \E w : /\ Meets(code.to, v, expr(s).ty, w)
                    /\ Run(s, DynamicVals) = load_local(d, store_local(d, convert(d.last, w)))
  <2> DEFINE x == Operand(DynamicVals[1], "Any")
             y == Operand(DynamicVals[2], RightType(s))
             w == Computed(d, expr(s), x, y)
  <2>1. d.op = s.op /\ d.ty = expr(s).ty /\ d.from = s.l /\ d.target = s.r
        /\ d.left = expr(s).left /\ d.right = expr(s).right
    BY <1>8 DEF assign
  <2>2. s.l = "Any" BY <1>8 DEF Dynamic
  <2>3. Meets(code.to, v, expr(s).ty, w) BY <1>1, <1>2, <1>8, <2>1, <2>2, OutcomesMeet
  <2>4. Run(s, DynamicVals) = load_local(d, store_local(d, convert(d.last, w)))
    BY <1>8, <2>1, <2>2 DEF Run, Result, RightType, Computed
  <2> HIDE DEF w, v
  <2> QED BY <2>3, <2>4
<1> DEFINE s == Dynamic(code.to)
           d == assign(s)
           boxed == Dynamic("Any")
           b == assign(boxed)
<1> HIDE DEF v
<1>9. PICK w : /\ Meets(code.to, v, expr(s).ty, w)
               /\ Run(s, DynamicVals) = load_local(d, store_local(d, convert(d.last, w)))
  BY <1>5, <1>8
<1>10. expr(s).ty \in OperandTypes \ {"Void"} BY <1>9 DEF Meets
<1>11. /\ d.to = code.to /\ d.last = coerce(expr(s).ty, code.to)
       /\ gated(d) => code.to \in {"Function", "Namespace"} /\ expr(s).ty = "Any"
  BY <1>2, <1>5, <1>7, <1>10, DynamicIsLowered
<1>12. CASE ~gated(d)
  <2>1. DynamicRun = Run(s, DynamicVals) BY <1>12, DynamicRunIs
  <2> DEFINE ty == expr(s).ty
  <2>2. Meets(code.to, v, ty, w) /\ d.last = coerce(ty, code.to) BY <1>9, <1>11
  <2> HIDE DEF s, d, ty
  <2> QED BY <1>4, <1>5, <1>6, <1>9, <1>11, <2>1, <2>2, MeetingIsKept
<1>13. CASE gated(d)
  <2>1. DynamicRun = Run(boxed, DynamicVals) BY <1>13, DynamicRunIs
  <2>2. expr(boxed) = expr(s)
    <3>1. boxed.op = s.op /\ boxed.l = s.l /\ boxed.r = s.r BY DEF Dynamic
    <3> QED BY <3>1 DEF expr
  <2>3. "Any" \in VariableTypes BY DEF VariableTypes
  <2>4. PICK z : /\ Meets(code.to, v, expr(boxed).ty, z)
                 /\ Run(boxed, DynamicVals) = load_local(b, store_local(b, convert(b.last, z)))
    BY <1>8, <2>3
  <2>5. b.to = "Any" /\ b.last = None
    <3>1. expr(boxed).ty = "Any" BY <1>11, <1>13, <2>2
    <3>2. "Any" \in OperandTypes \ {"Void"} BY TypesOfOperands
    <3>3. b.to = "Any" /\ b.last = coerce("Any", "Any")
      BY <1>2, <1>7, <2>3, <3>1, <3>2, DynamicIsLowered
    <3> QED BY <3>3, AnyConverts
  <2>6. code.last # <<"FromAny", code.to>> BY <1>1, <1>11, <1>13 DEF gated
  <2>7. Meets(code.to, v, "Any", z) BY <1>11, <1>13, <2>2, <2>4
  <2> HIDE DEF s, d, boxed, b
  <2> QED BY <1>4, <1>5, <1>6, <1>11, <1>13, <2>1, <2>4, <2>5, <2>6, <2>7, MeetingInBox
<1> QED BY <1>12, <1>13

(* Typing changes the speed of a statement and not its meaning: whatever   *)
(* the static types of its operands, and whether or not the variable is    *)
(* captured, the variable ends with the value the runtime's operations on  *)
(* boxes give it, outside the cases TypedMatchesDynamic names.             *)
THEOREM TypingKeepsMeaning == Spec => []TypedMatchesDynamic
<1>1. IInv => TypedMatchesDynamic BY RunsMatch
<1> QED BY <1>1, AlwaysComputed, PTL
=============================================================================
