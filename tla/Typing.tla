------------------------------- MODULE Typing -------------------------------
(***************************************************************************)
(* One statement "variable = operator(operands)" on its way through the    *)
(* compiler and into execution.  The checker (check/expr.rs) types the     *)
(* operator from the static types of its operands and inserts coercions;   *)
(* the lowering (lower.rs) gates what the backend lacks; the backend       *)
(* (llvm.rs) chooses machine code from the shape of each computed value,   *)
(* and falls back on the runtime's boxed operations (conv.rs, ffi.rs).     *)
(* The same operator therefore has two implementations, the typed one and  *)
(* the one reached when the operands are of type "*".                      *)
(*                                                                         *)
(* A Number is a finite count of halves, an infinity or NaN; the sign of   *)
(* zero is not kept.  A text is a sequence of atoms, the text of a number  *)
(* being one atom; several atoms joined read as no number.  The operator   *)
(* "-" stands for the four arithmetic operators that share its code;       *)
(* "?l:" and "?:r" are "c ? l : r" with a condition that is true or false. *)
(***************************************************************************)
EXTENDS Integers, Sequences, FiniteSets

CONSTANTS Width,          \* bits of an int, 32 in the code
          IntValues,      \* the ints, uints and Numbers that variables hold
          UIntValues,
          NumberValues,
          Texts,          \* the texts that variables hold
          BoxedNumbers,   \* the boxed numbers among the values of a "*" variable
          Statements      \* the statements compiled

Half32  == 2 ^ (Width - 1)
Range32 == 2 * Half32
Ints    == -Half32 .. Half32 - 1
UInts   == 0 .. Range32 - 1

VARIABLES stage,    \* how far the statement has come
          stmt,     \* [op, l, r, to, cell]: operator, operand types, type of the variable
          code,     \* the checked and lowered statement
          vals,     \* the operands' values, boxed
          slot,     \* what the variable's storage holds
          seen      \* the value read back from the variable

vars == <<stage, stmt, code, vals, slot, seen>>

-----------------------------------------------------------------------------
(* Types and the objects of the heap.  A stands for a class implementing   *)
(* the interface I, B for an unrelated class; both extend Object.          *)

NumericTypes == {"Int", "UInt", "Number"}
MachineTypes == NumericTypes \cup {"Boolean"}
ClassTypes   == {"Object", "A", "B"}
VectorTypes  == {"VecInt", "VecAny"}
NullableTypes == ClassTypes \cup {"I", "String", "Function", "RegExp", "Date", "Socket", "Namespace"}
PointerTypes  == NullableTypes \cup VectorTypes \cup {"Array"}
VariableTypes == MachineTypes \cup PointerTypes \cup {"Any"}

OperandTypes == VariableTypes \cup {"Null", "Void"}

Widens == {<<"A", "Object">>, <<"B", "Object">>, <<"A", "I">>, <<"I", "Object">>}

Instances == [A |-> {"a1", "a2"}, B |-> {"b1"}, Array |-> {"r1", "r2"}, VecInt |-> {"v1"},
              VecAny |-> {"w1"}, Function |-> {"f1", "f2"}, RegExp |-> {"e1"}, Date |-> {"d1", "d2"},
              Socket |-> {"k1"}, Namespace |-> {"n1", "n2"}]

TagOf(t) == CASE t \in ClassTypes \cup {"I"} -> "Object"
              [] t \in VectorTypes -> "Vector"
              [] OTHER -> t

Nil      == <<"nil", 0>>
Ref(id)  == <<"ref", id>>
Str(s)   == <<"text", s>>
Boxed(tag, p) == <<tag, p>>
Undefined == Boxed("Undefined", 0)
Null      == Boxed("Null", 0)
ObjectsOf(t) == UNION {{Boxed(TagOf(s), Ref(id)) : id \in Instances[s]} :
                         s \in {s \in DOMAIN Instances : s = t \/ <<s, t>> \in Widens}}

-----------------------------------------------------------------------------
(* Numbers and texts (conv.rs). *)

Fin(h) == <<"fin", h>>
NaN    == <<"nan", 0>>
Inf(sign) == <<"inf", sign>>
Numbers   == ({"fin"} \X Int) \cup {NaN, Inf(1), Inf(-1)}
Trunc(h) == IF h >= 0 THEN h \div 2 ELSE -((-h) \div 2)

Less(x, y) == IF x[1] = "fin" /\ y[1] = "fin" THEN x[2] < y[2]
              ELSE x # y /\ (x = Inf(-1) \/ y = Inf(1))
Compare(op, x, y) ==
  /\ NaN \notin {x, y}
  /\ CASE op = "<"  -> Less(x, y)
       [] op = ">"  -> Less(y, x)
       [] op = "<=" -> Less(x, y) \/ x = y
       [] op = ">=" -> Less(y, x) \/ x = y
       [] op = "==" -> x = y

Plus(x, y) == IF NaN \in {x, y} \/ (x[1] = "inf" /\ y[1] = "inf" /\ x # y) THEN NaN
              ELSE IF x[1] = "inf" THEN x
              ELSE IF y[1] = "inf" THEN y
              ELSE Fin(x[2] + y[2])
Negate(x) == IF x = NaN THEN NaN ELSE <<x[1], -x[2]>>

to_int32(x) == LET m == IF x[1] = "fin" THEN Trunc(x[2]) % Range32 ELSE 0
               IN  IF m >= Half32 THEN m - Range32 ELSE m
to_uint32(x) == to_int32(x) % Range32

\* A faulty variant: the upper bound of the fast path is
\* inclusive.
convert_num_to_intInclusive(x, to) ==
  LET lo == IF to = "Int" THEN -Half32 - 1 ELSE -1
      hi == IF to = "Int" THEN Half32 ELSE Range32
  IN  IF x[1] = "fin" /\ x[2] > 2 * lo /\ x[2] <= 2 * hi
      THEN Trunc(x[2])
      ELSE IF to = "Int" THEN to_int32(x) ELSE to_uint32(x)

\* The fast path truncates without a range check: it may only be taken inside
\* the exclusive bounds.
convert_num_to_int(x, to) ==
  LET lo == IF to = "Int" THEN -Half32 - 1 ELSE -1
      hi == IF to = "Int" THEN Half32 ELSE Range32
  IN  IF x[1] = "fin" /\ x[2] > 2 * lo /\ x[2] < 2 * hi
      THEN Trunc(x[2])
      ELSE IF to = "Int" THEN to_int32(x) ELSE to_uint32(x)

\* The words that conversions write, and those in the texts that variables hold.
Words == {"undefined", "null", "true", "false", "boolean", "number", "string", "function", "object",
          "Function", "Socket"} \cup UNION {Instances[t] : t \in DOMAIN Instances}
Literals == {a \in UNION {{t[i] : i \in DOMAIN t} : t \in Texts} : a[1] = "lit"}
Atoms  == ({"num"} \X Numbers) \cup ({"lit"} \X Words) \cup Literals
Lit(s) == <<<<"lit", s>>>>
number_to_string(x) == <<<<"num", x>>>>
string_to_number(s) == CASE s = <<>> -> Fin(0)
                         [] Len(s) = 1 /\ s[1][1] = "num" -> s[1][2]
                         [] OTHER -> NaN
\* The order of the texts that variables hold: "", then digits, then letters.
Units(s) == IF s = <<>> THEN 0 ELSE IF s[1][1] = "num" THEN 1 ELSE 2

\* A faulty variant: a null String orders before every text.
string_cmpOfUnits(op, p, q) ==
  LET units(s) == IF s = Nil THEN -1 ELSE Units(s[2]) IN Compare(op, Fin(units(p)), Fin(units(q)))

\* vs_string_cmp: a null side makes it a comparison of numbers.
string_cmp(op, p, q) ==
  LET num(s) == IF s = Nil THEN Fin(0) ELSE string_to_number(s[2])
  IN  IF Nil \in {p, q} THEN Compare(op, num(p), num(q))
      ELSE Compare(op, Fin(Units(p[2])), Fin(Units(q[2])))

-----------------------------------------------------------------------------
(* Operations on boxed values (any.rs, conv.rs, ffi.rs, object.rs). *)

numeric(b) == IF b[1] = "Number" THEN b[2] ELSE Fin(2 * b[2])
IsNumeric(b) == b[1] \in NumericTypes

any_truthy(b) == CASE b[1] \in {"Undefined", "Null"} -> FALSE
                   [] b[1] = "Boolean" -> b[2]
                   [] IsNumeric(b) -> numeric(b) \notin {Fin(0), NaN}
                   [] b[1] = "String" -> b[2] \notin {Nil, Str(<<>>)}
                   [] b[1] \in {"RegExp", "Date", "Socket", "Namespace"} -> b[2] # Nil
                   [] OTHER -> TRUE

any_to_number(b) == CASE b[1] = "Null" -> Fin(0)
                      [] b[1] = "Boolean" -> Fin(IF b[2] THEN 2 ELSE 0)
                      [] b[1] = "String" -> IF b[2] = Nil THEN Fin(0) ELSE string_to_number(b[2][2])
                      [] IsNumeric(b) -> numeric(b)
                      [] OTHER -> NaN

any_to_display(b) == CASE b[1] = "Undefined" -> Lit("undefined")
                       [] b[1] = "Boolean" -> Lit(IF b[2] THEN "true" ELSE "false")
                       [] IsNumeric(b) -> number_to_string(numeric(b))
                       [] b[1] = "Null" -> Lit("null")
                       [] OTHER -> IF b[2] = Nil THEN Lit("null")
                                   ELSE IF b[1] = "String" THEN b[2][2]
                                   ELSE Lit(IF b[1] \in {"Function", "Socket"} THEN b[1] ELSE b[2][2])

any_typeof(b) == CASE b[1] = "Undefined" -> Lit("undefined")
                   [] b[1] = "Boolean" -> Lit("boolean")
                   [] IsNumeric(b) -> Lit("number")
                   [] b[1] = "String" -> Lit("string")
                   [] b[1] = "Function" -> Lit("function")
                   [] OTHER -> Lit("object")

any_strict_equals(a, b) ==
  IF IsNumeric(a) \/ IsNumeric(b)
  THEN IsNumeric(a) /\ IsNumeric(b) /\ Compare("==", numeric(a), numeric(b))
  ELSE /\ a[1] = b[1]
       /\ a[1] \in {"Undefined", "Null", "Boolean", "Object", "Array", "Vector", "String"}
       /\ a[2] = b[2]

\* A faulty variant: pairs of references fall into the
\* comparison of numbers.
Empty == {"Undefined", "Null"}
any_equalsByNumber(a, b) ==
  IF {a[1], b[1]} \cap Empty # {} THEN {a[1], b[1]} \subseteq Empty
  ELSE IF a[1] = "String" /\ b[1] = "String" THEN any_strict_equals(a, b)
  ELSE Compare("==", any_to_number(a), any_to_number(b))

any_equals(a, b) ==
  IF {a[1], b[1]} \cap Empty # {} THEN {a[1], b[1]} \subseteq Empty
  ELSE IF a[1] = b[1] /\ a[1] \notin MachineTypes THEN a[2] = b[2]
  ELSE Compare("==", any_to_number(a), any_to_number(b))

any_add(a, b) == IF "String" \in {a[1], b[1]}
                 THEN Boxed("String", Str(any_to_display(a) \o any_to_display(b)))
                 ELSE Boxed("Number", Plus(any_to_number(a), any_to_number(b)))

any_cmp(op, a, b) == IF a[1] = "String" /\ b[1] = "String"
                     THEN string_cmp(op, a[2], b[2])
                     ELSE Compare(op, any_to_number(a), any_to_number(b))

\* vs_any_is_class, _iface, _array, _vector: the target is not a core type.
IsInstance(b, t) == b \in ObjectsOf(t)
\* vs_any_is with the tag codegen passes; Function has none of its own.
ty_tag(t) == IF t \in {"Any", "Function", "Array"} \cup ClassTypes \cup VectorTypes THEN "Null" ELSE t
any_is(b, tag) ==
  CASE tag \in {"Int", "UInt"} -> /\ IsNumeric(b) /\ numeric(b)[1] = "fin"
                                  /\ numeric(b)[2] % 2 = 0
                                  /\ numeric(b)[2] \div 2 \in (IF tag = "Int" THEN Ints ELSE UInts)
    [] tag = "Number" -> IsNumeric(b)
    [] tag = "Null" -> FALSE
    [] OTHER -> b[1] = tag
\* The checked conversion of a boxed value to a reference type: a pointer, or
\* a TypeError.
any_coerce(b, t) ==
  IF b[1] \in Empty THEN Nil
  ELSE IF t = "String" THEN (IF b[1] = "String" THEN b[2] ELSE Str(any_to_display(b)))
  ELSE IF IsInstance(b, t) THEN b[2]
  ELSE IF t = "Namespace" THEN Nil ELSE <<"throw", 0>>

-----------------------------------------------------------------------------
(* The checker.  A coercion is <<how, type>>. *)

None    == <<"none", "none">>
Illegal == <<"illegal", "none">>

conversion(from, to) ==
  IF from = to \/ <<from, to>> \in Widens \/ (from = "Null" /\ to \in NullableTypes) THEN None
  ELSE IF to = "Any" \/ (to \in MachineTypes /\ (from = "Any" \/ {from, to} \subseteq NumericTypes))
       THEN <<"To", to>>
  ELSE IF from = "Any" THEN <<"FromAny", to>> ELSE Illegal

coerce(from, to) == IF from = "Void" THEN Illegal ELSE conversion(from, to)
coerce_to_any(t) == CASE t \in {"Any", "Null"} -> None
                      [] t = "Void" -> Illegal
                      [] OTHER -> <<"To", "Any">>
coerce_condition(t) == CASE t = "Boolean" -> None
                         [] t = "Void" -> Illegal
                         [] OTHER -> <<"To", "Boolean">>
concat_operand(t) == IF t = "String" THEN None ELSE <<"To", "String">>

merge_types(a, b) ==
  IF a = b THEN a
  ELSE IF {a, b} \subseteq NumericTypes THEN "Number"
  ELSE IF {a, b} \subseteq ClassTypes \cup {"I", "Null"} THEN "Object" ELSE "Any"

Choices    == {"?l:", "?:r"}
Logical    == {"&&", "||"} \cup Choices
Bitwise32  == {"&", "|", "^", "<<", ">>"}
Relational == {"<", ">", "<=", ">="}
Equality   == {"==", "!=", "===", "!=="}

Typed(ty, left, right) == [ty |-> ty, left |-> left, right |-> right]

binary_typed(op, l, r) ==
  CASE op \in Logical -> LET t == merge_types(l, r) IN Typed(t, coerce(l, t), coerce(r, t))
    [] op = "+" ->
         IF "String" \in {l, r} THEN Typed("String", concat_operand(l), concat_operand(r))
         ELSE IF {l, r} \subseteq NumericTypes THEN Typed("Number", coerce(l, "Number"), coerce(r, "Number"))
         ELSE Typed("Any", coerce_to_any(l), coerce_to_any(r))
    [] op = "-" -> Typed("Number", coerce(l, "Number"), coerce(r, "Number"))
    [] op \in Bitwise32 -> Typed("Int", coerce(l, "Int"), coerce(r, "Int"))
    [] op = ">>>" -> Typed("UInt", coerce(l, "UInt"), coerce(r, "Int"))
    [] op \in Relational /\ {l, r} \cap NumericTypes # {} ->
         Typed("Boolean", coerce(l, "Number"), coerce(r, "Number"))
    [] OTHER -> Typed("Boolean", None, None)      \* relational, equality, instanceof

unary(op, t) ==
  CASE op = "!" -> Typed("Boolean", coerce_condition(t), None)
    [] op = "~" -> Typed("Int", coerce(t, "Int"), None)
    [] op = "+x" -> Typed("Number", coerce(t, "Number"), None)
    [] op = "-x" -> LET ty == IF t = "Int" THEN "Int" ELSE "Number" IN Typed(ty, coerce(t, ty), None)
    [] op = "typeof" -> Typed("String", coerce_to_any(t), None)
    [] op = "void" -> Typed("Any", coerce_to_any(t), None)
    [] op \in {"++", "--"} ->
         LET ty == IF t \in NumericTypes THEN t ELSE "Number" IN Typed(ty, coerce(t, ty), None)

is_as(op, t, target) == Typed(IF op = "is" THEN "Boolean"
                              ELSE IF target \in MachineTypes THEN "Any" ELSE target,
                              coerce_to_any(t), None)

\* The conversion of a cast is the operation itself: see Emit.
cast_call(t, target) ==
  CASE target \in MachineTypes \cup {"String"} -> Typed(target, None, None)
    [] target \in ClassTypes \cup {"I"} ->
         Typed(target, IF conversion(t, target) = None THEN None ELSE coerce_to_any(t), None)
    [] OTHER -> Typed(target, Illegal, None)

UnaryOps == {"!", "~", "+x", "-x", "typeof", "void", "++", "--"}
TypeOps  == {"is", "as", "cast"}
\* The type named by the right side of a type operator is in r.
expr(s) == CASE s.op = "=" -> Typed(s.l, None, None)
             [] s.op \in UnaryOps -> unary(s.op, s.l)
             [] s.op \in {"is", "as"} -> is_as(s.op, s.l, s.r)
             [] s.op = "cast" -> cast_call(s.l, s.r)
             [] OTHER -> binary_typed(s.op, s.l, s.r)

\* x = e and x op= e; to = "auto" is a variable of the expression's own type.
\* The literal null has no type of its own: such a variable is "*".
assign(s) ==
  LET e  == expr(s)
      to == IF s.to = "auto" THEN (IF e.ty = "Null" THEN "Any" ELSE e.ty) ELSE s.to
  IN  [op |-> s.op, ty |-> e.ty, left |-> e.left, right |-> e.right,
       last |-> coerce(e.ty, to), to |-> to, target |-> s.r, from |-> s.l, cell |-> s.cell]
IsLegal(c) == Illegal \notin {c.left, c.right, c.last} /\ c.ty # "Void"

\* What lowering refuses.
gated(c) == \/ c.op = "instanceof"
            \/ c.op \in {"++", "--"} /\ c.left # None
            \/ \E k \in {c.left, c.last} : k \in {<<"FromAny", "Function">>, <<"FromAny", "Namespace">>}

-----------------------------------------------------------------------------
(* The backend.  A computed value is <<shape, payload>>; "Panic" is an     *)
(* unreachable! of the code generator, "Throw" a TypeError at run time.    *)

Panic == <<"Panic", 0>>
Throw == <<"Throw", 0>>

ShapeOf(t) == CASE t \in ClassTypes \cup {"I"} -> "Obj"
                [] t \in VectorTypes -> "VecP"
                [] t = "Null" -> "String"
                [] OTHER -> t
Tag(shape) == CASE shape = "Obj" -> "Object"
                [] shape = "VecP" -> "Vector"
                [] OTHER -> shape
Pointers == {ShapeOf(t) : t \in PointerTypes}
basic_ty(shape) == CASE shape \in {"Int", "UInt"} -> "i32"
                     [] shape \in Pointers -> "ptr"
                     [] OTHER -> shape

box_value(v) == CASE v[1] = "Any" -> v[2]
                  [] v[1] \in Pointers /\ v[2] = Nil -> Null
                  [] OTHER -> Boxed(Tag(v[1]), v[2])

unbox_any_ptr(b, t) ==
  CASE t = "Any" -> <<"Any", b>>
    [] t \in {"Int", "UInt"} -> <<t, convert_num_to_int(any_to_number(b), t)>>
    [] t = "Number" -> <<t, any_to_number(b)>>
    [] t = "Boolean" -> <<t, any_truthy(b)>>
    [] OTHER -> IF any_coerce(b, t)[1] = "throw" THEN Throw ELSE <<ShapeOf(t), any_coerce(b, t)>>

NumberOf(v) == IF v[1] = "Number" THEN v[2] ELSE Fin(2 * v[2])

\* Null arrays, vectors, expressions and dates have no text: a null pointer.
stringify(v) == CASE v[1] \in {"String"} -> v[2]
                  [] v[1] \in {"Array", "VecP", "RegExp", "Date"} /\ v[2] = Nil -> Nil
                  [] v[1] = "Namespace" /\ v[2] = Nil -> <<"throw", 0>>
                  [] v[1] \in {"Function", "Socket"} -> Str(Lit(v[1]))
                  [] OTHER -> Str(any_to_display(box_value(v)))

truthy(v) == CASE v[1] = "Boolean" -> v[2]
               [] v[1] \in {"Int", "UInt"} -> v[2] # 0
               [] v[1] = "Number" -> v[2] \notin {Fin(0), NaN}
               [] v[1] \in {"String", "Any"} -> any_truthy(box_value(v))
               [] OTHER -> v[2] # Nil

Bool(b) == <<"Boolean", b>>
Wrapped(t, n) == <<t, IF t = "UInt" THEN n % Range32 ELSE to_int32(Fin(2 * n))>>

convert_to_int(v, t) ==
  CASE v[1] \in {"Int", "UInt"} -> Wrapped(t, v[2])
    [] v[1] = "Number" -> <<t, convert_num_to_int(v[2], t)>>
    [] v[1] = "Any"    -> <<t, convert_num_to_int(any_to_number(v[2]), t)>>
    [] OTHER -> Panic
convert_to_number(v) ==
  CASE v[1] \in NumericTypes -> <<"Number", NumberOf(v)>>
    [] v[1] = "Any"    -> <<"Number", any_to_number(v[2])>>
    [] v[1] = "String" -> <<"Number", any_to_number(box_value(v))>>
    [] OTHER -> Panic
convert_to(v, t) ==
  CASE t \in {"Int", "UInt"} -> convert_to_int(v, t)
    [] t = "Number"  -> convert_to_number(v)
    [] t = "Boolean" -> Bool(truthy(v))
    [] t = "String"  -> IF stringify(v)[1] = "throw" THEN Throw ELSE <<"String", stringify(v)>>
    [] t = "Any"     -> <<"Any", box_value(v)>>
convert(c, v) ==
  IF c[1] = "none" \/ v \in {Panic, Throw} THEN v
  ELSE IF v[1] = "Void" THEN Panic
  ELSE IF c[1] = "To" THEN convert_to(v, c[2])
  ELSE IF v[1] = "Any" THEN unbox_any_ptr(v[2], c[2]) ELSE Panic

relational(op, a, b) ==
  CASE a[1] = "Number" /\ b[1] = "Number" -> Compare(op, a[2], b[2])
    [] a[1] = "String" /\ b[1] = "String" -> string_cmp(op, a[2], b[2])
    [] OTHER -> any_cmp(op, box_value(a), box_value(b))

ByIdentity == {"Obj", "Array", "VecP"}
equality(a, b, strict) ==
  CASE {a[1], b[1]} \subseteq NumericTypes -> Compare("==", NumberOf(a), NumberOf(b))
    [] a[1] = "Boolean" /\ b[1] = "Boolean" -> a[2] = b[2]
    [] {a[1], b[1]} \subseteq ByIdentity \cup {"String"} -> a[2] = b[2]
    [] OTHER -> IF strict THEN any_strict_equals(box_value(a), box_value(b))
                ELSE any_equals(box_value(a), box_value(b))

binary_add(a, b) ==
  CASE a[1] = "Number" /\ b[1] = "Number" -> <<"Number", Plus(a[2], b[2])>>
    [] "String" \in {a[1], b[1]} ->
         LET text(v) == LET s == stringify(v) IN IF s = Nil THEN Lit("null") ELSE s[2]
         IN  <<"String", Str(text(a) \o text(b))>>
    [] OTHER -> <<"Any", any_add(box_value(a), box_value(b))>>

\* The int whose bits, lowest first, are those of a predicate on positions.
FromBits(bit) ==
  LET low[i \in 0 .. Width] == IF i = 0 THEN 0 ELSE low[i - 1] + (IF bit[i - 1] THEN 2 ^ (i - 1) ELSE 0)
  IN  low[Width]
\* Shift counts keep their low bits only, as many as the width needs.
bit_op(op, a, b) ==
  LET x == a[2] % Range32
      n == b[2] % Width
      Bit(m, i)  == (m \div 2 ^ i) % 2 = 1
      Bitwise(f) == Wrapped("Int", FromBits([i \in 0 .. Width - 1 |->
                                               <<Bit(a[2], i), Bit(b[2], i)>> \in f]))
  IN  CASE op = "&"   -> Bitwise({<<TRUE, TRUE>>})
        [] op = "|"   -> Bitwise((BOOLEAN \X BOOLEAN) \ {<<FALSE, FALSE>>})
        [] op = "^"   -> Bitwise({<<TRUE, FALSE>>, <<FALSE, TRUE>>})
        [] op = "<<"  -> Wrapped("Int", x * 2 ^ n)
        [] op = ">>"  -> Wrapped("Int", a[2] \div 2 ^ n)
        [] op = ">>>" -> Wrapped("UInt", x \div 2 ^ n)

\* A faulty variant: the tag alone decides, whatever the class or the
\* element type.
as_valueByTag(b, t) ==
  CASE t \in ClassTypes \cup VectorTypes \cup {"I", "Array", "Date", "RegExp", "String"} ->
         <<ShapeOf(t), IF b[1] = TagOf(t) THEN b[2] ELSE Nil>>
    [] OTHER -> <<"Any", IF any_is(b, ty_tag(t)) THEN b ELSE Null>>

\* Array, Vector, class, interface, Date, RegExp and String targets yield a
\* pointer; every other target a box.
as_value(b, t) ==
  CASE t \in ClassTypes \cup VectorTypes \cup {"I", "Array", "Date", "RegExp", "String"} ->
         <<ShapeOf(t), IF (IF t = "String" THEN b[1] = t ELSE IsInstance(b, t)) THEN b[2] ELSE Nil>>
    [] OTHER -> <<"Any", IF any_is(b, ty_tag(t)) THEN b ELSE Null>>
is_value(b, t) == IF t \in ClassTypes \cup VectorTypes \cup {"I", "Array"}
                  THEN IsInstance(b, t) ELSE any_is(b, ty_tag(t))

Rewrap(v, t) == IF basic_ty(v[1]) # basic_ty(ShapeOf(t)) THEN v
                ELSE IF v[1] = "Any" THEN v ELSE <<ShapeOf(t), v[2]>>

emit_cast(c, a) ==
  IF conversion(c.from, c.target) = None THEN a
  ELSE convert(<<IF c.target \in MachineTypes \cup {"String"} THEN "To" ELSE "FromAny", c.target>>, a)

Emit(c, a, b) ==
  IF Panic \in {a, b} THEN Panic
  ELSE IF Throw \in {a, b} /\ c.op \notin Logical THEN Throw
  ELSE IF "Void" \in {a[1], b[1]} THEN Panic
  ELSE
  CASE c.op = "=" -> a
    [] c.op = "!" -> Bool(~truthy(a))
    [] c.op = "~" -> Wrapped("Int", -a[2] - 1)
    [] c.op = "+x" -> a
    [] c.op = "-x" -> IF a[1] = "Int" THEN Wrapped("Int", -a[2]) ELSE <<"Number", Negate(a[2])>>
    [] c.op = "typeof" -> <<"String", Str(any_typeof(box_value(a)))>>
    [] c.op = "void" -> <<"Any", Undefined>>
    [] c.op \in {"++", "--"} ->
         LET one == IF c.op = "++" THEN 1 ELSE -1
         IN  IF a[1] = "Number" THEN <<"Number", Plus(a[2], Fin(2 * one))>> ELSE Wrapped(a[1], a[2] + one)
    [] c.op = "is" -> Bool(is_value(box_value(a), c.target))
    [] c.op = "as" -> as_value(box_value(a), c.target)
    [] c.op = "cast" -> emit_cast(c, a)
    [] c.op \in Choices -> Rewrap(IF c.op = "?l:" THEN a ELSE b, c.ty)
    [] c.op \in {"&&", "||"} -> IF a = Throw THEN a
                          ELSE Rewrap(IF truthy(a) = (c.op = "&&") THEN b ELSE a, c.ty)
    [] c.op = "+" -> binary_add(a, b)
    [] c.op = "-" -> <<"Number", Plus(a[2], Negate(b[2]))>>
    [] c.op \in Bitwise32 \cup {">>>"} -> bit_op(c.op, a, b)
    [] c.op \in Relational -> Bool(relational(c.op, a, b))
    [] c.op \in {"==", "!="} -> Bool(equality(a, b, FALSE) = (c.op = "=="))
    [] c.op \in {"===", "!=="} -> Bool(equality(a, b, TRUE) = (c.op = "==="))

\* An operand of static type t whose value is the boxed b.
Operand(b, t) == CASE t = "Void" -> <<"Void", 0>>
                   [] t = "Any" -> <<"Any", b>>
                   [] OTHER -> <<ShapeOf(t), IF b = Null THEN Nil ELSE b[2]>>

\* Both operands in order, the operation, the conversion to the variable's type.
Result(c, l, r, vs) ==
  convert(c.last, Emit(c, convert(c.left, Operand(vs[1], l)), convert(c.right, Operand(vs[2], r))))

\* A captured variable is a boxed cell.  Otherwise the slot takes the value's
\* representation; one of another size leaves the slot with no meaning.
store_local(c, v) ==
  IF v \in {Panic, Throw} THEN v
  ELSE IF c.cell THEN <<"cell", box_value(v)>>
  ELSE IF basic_ty(v[1]) = basic_ty(ShapeOf(c.to)) THEN v
  ELSE <<"Garbage", 0>>
load_local(c, s) ==
  CASE s[1] \in {"Panic", "Throw", "Garbage"} -> s
    [] s[1] = "cell" -> unbox_any_ptr(s[2], c.to)
    [] OTHER -> Rewrap(s, c.to)

-----------------------------------------------------------------------------
(* The values an operand of a static type may have, boxed. *)

References == UNION {ObjectsOf(t) : t \in DOMAIN Instances}
NumberBoxes == ({"Int"} \X Ints) \cup ({"UInt"} \X UInts) \cup ({"Number"} \X Numbers)
Strings == {Nil} \cup ({"text"} \X Seq(Atoms))
Boxes   == NumberBoxes \cup ({"Boolean"} \X BOOLEAN) \cup ({"String"} \X (Strings \ {Nil}))
             \cup References \cup {Undefined, Null}
ValuesOf(t) ==
  CASE t = "Int" -> {Boxed(t, n) : n \in IntValues}
    [] t = "UInt" -> {Boxed(t, n) : n \in UIntValues}
    [] t = "Number" -> {Boxed(t, x) : x \in NumberValues}
    [] t = "Boolean" -> {Boxed(t, b) : b \in BOOLEAN}
    [] t = "String" -> {Boxed(t, Str(s)) : s \in Texts} \cup {Null}
    [] t = "Any" -> BoxedNumbers \cup References \cup {Undefined, Null}
                      \cup {Boxed("Boolean", b) : b \in BOOLEAN} \cup {Boxed("String", Str(s)) : s \in Texts}
    [] t \in {"Null", "Void"} -> {Null}
    [] OTHER -> ObjectsOf(t) \cup {Null}

IsBinary(s) == s.op \notin UnaryOps \cup TypeOps \cup {"="}

BinaryOps == Logical \cup {"+", "-"} \cup Bitwise32 \cup {">>>"} \cup Relational \cup Equality \cup {"instanceof"}
\* What the grammar lets stand: a type operator names any type but "*"; a
\* result is converted to another type by a statement of its own.
IsStatement(s) ==
  /\ s \in [op : BinaryOps \cup UnaryOps \cup TypeOps \cup {"="}, l : OperandTypes,
            r : OperandTypes \cup {"none"}, to : VariableTypes \cup {"auto"}, cell : BOOLEAN]
  /\ s.r = "none" <=> s.op \in UnaryOps \cup {"="}
  /\ s.op \in TypeOps => s.r \in VariableTypes \ {"Any"}
  /\ \/ s.to = "auto"
     \/ s.op \in BinaryOps \cup {"++", "--"} /\ s.to = s.l
     \/ s.op = "="

ASSUME TypingAssumption ==
  /\ Width \in Nat /\ Width >= 2
  /\ IntValues \subseteq Ints /\ UIntValues \subseteq UInts /\ NumberValues \subseteq Numbers
  /\ Texts \subseteq Seq(Atoms)
  /\ BoxedNumbers \subseteq NumberBoxes
  /\ \A s \in Statements : IsStatement(s)

Init ==
  /\ stage = "source" /\ stmt \in Statements
  /\ code = <<>> /\ vals = <<>> /\ slot = <<>> /\ seen = <<>>

Check ==
  /\ stage = "source"
  /\ stage' = IF IsLegal(assign(stmt)) THEN "checked" ELSE "rejected"
  /\ code' = assign(stmt)
  /\ UNCHANGED <<stmt, vals, slot, seen>>

Lower ==
  /\ stage = "checked"
  /\ stage' = IF gated(code) THEN "gated" ELSE "lowered"
  /\ UNCHANGED <<stmt, code, vals, slot, seen>>

Execute ==
  /\ stage = "lowered" /\ stage' = "stored"
  /\ \E b1 \in ValuesOf(stmt.l) :
     \E b2 \in IF IsBinary(stmt) THEN ValuesOf(stmt.r) ELSE {Null} :
       /\ vals' = <<b1, b2>>
       /\ slot' = store_local(code, Result(code, stmt.l, IF IsBinary(stmt) THEN stmt.r ELSE "Null", <<b1, b2>>))
  /\ UNCHANGED <<stmt, code, seen>>

Read ==
  /\ stage = "stored" /\ stage' = "done"
  /\ seen' = load_local(code, slot)
  /\ UNCHANGED <<stmt, code, vals, slot>>

Next == Check \/ Lower \/ Execute \/ Read

Spec == Init /\ [][Next]_vars
-----------------------------------------------------------------------------
(* Properties. *)

\* What the code generator does not expect and the checker lets through.
UncheckedOperand ==
  \/ "Void" \in {stmt.l, IF stmt.op \in TypeOps THEN "none" ELSE stmt.r}
  \/ /\ stmt.op = "cast" /\ stmt.l \notin NumericTypes \cup {"Any", stmt.r}
     /\ \/ stmt.r \in {"Int", "UInt"}
        \/ stmt.r = "Number" /\ stmt.l \notin {"String", "Null"}
\* null + e is typed "*" and computed as a String; e as Function, Socket or
\* Namespace is typed as its target and computed as a box.
MisshapenValue ==
  \/ stmt.op = "+" /\ "Null" \in {stmt.l, stmt.r} /\ "String" \notin {stmt.l, stmt.r}
  \/ stmt.op = "as" /\ stmt.r \in {"Function", "Socket", "Namespace"}
\* The text of a null reference of some types is not "null", and a null String
\* still makes + a concatenation, which the boxed + sees as two nulls.
TextOfNull ==
  LET odd(i, t) == vals[i] = Null /\ t \notin {"Any", "String", "Null", "I"} \cup ClassTypes
  IN  \/ stmt.op = "+" /\ (odd(1, stmt.l) \/ odd(2, stmt.r))
      \/ stmt.op = "+" /\ "String" \in {stmt.l, stmt.r} \ {vals[1][1], vals[2][1]}
      \/ stmt.op = "cast" /\ stmt.r = "String" /\ vals[1] = Null /\ stmt.l # "Any"

Run(s, vs) == LET c == assign(s)
              IN  load_local(c, store_local(c, Result(c, s.l, IF IsBinary(s) THEN s.r ELSE "Null", vs)))
\* The same statement on operands of type "*"; x++ is x + 1, for ++ has no
\* implementation on "*".  The result is converted to the variable's type
\* where lowering can, and is left boxed otherwise.
DynamicRun ==
  LET incdec == stmt.op \in {"++", "--"}
      s(to) == [op |-> CASE stmt.op = "++" -> "+" [] stmt.op = "--" -> "-" [] OTHER -> stmt.op,
                l |-> "Any", r |-> IF IsBinary(stmt) \/ incdec THEN "Any" ELSE stmt.r,
                to |-> to, cell |-> FALSE]
  IN  Run(IF gated(assign(s(code.to))) THEN s("Any") ELSE s(code.to),
          IF incdec THEN <<vals[1], Boxed("Int", 1)>> ELSE vals)
SameValue(b, d) == \/ b = d
                   \/ IsNumeric(b) /\ IsNumeric(d) /\ numeric(b) = numeric(d)

\* Typing changes the speed of a statement and not its meaning: whatever the
\* static types of its operands, captured or not, the variable ends with the
\* value the boxed operations of the runtime give it, outside the named cases.
TypedMatchesDynamic ==
  stage = "done" /\ ~UncheckedOperand /\ ~MisshapenValue /\ ~TextOfNull =>
    IF Throw \in {seen, DynamicRun} THEN seen = DynamicRun
    ELSE SameValue(box_value(seen), box_value(DynamicRun))

\* A variable read back holds a value of its static type, in the shape and in
\* the range code compiled from that type relies on: the int fast path, the
\* interchange of pointers and the boxes of captured variables included.
Held(t) ==
  CASE t = "Int" -> {t} \X Ints
    [] t = "UInt" -> {t} \X UInts
    [] t = "Number" -> {t} \X Numbers
    [] t = "Boolean" -> {t} \X BOOLEAN
    [] t = "String" -> {t} \X Strings
    [] t = "Null" -> {<<"String", Nil>>}
    [] t = "Any" -> {t} \X Boxes
    [] OTHER -> {ShapeOf(t)} \X ({Nil} \cup {b[2] : b \in ObjectsOf(t)})
ValuesKeepTheirType ==
  stage = "done" /\ ~UncheckedOperand /\ ~MisshapenValue /\ seen # Throw => seen \in Held(code.to)

\* == and === on any two static types agree with each other: both symmetric,
\* strict equality implies loose equality, and each holds between a value and
\* itself, but for NaN and, for ===, the kinds conv.rs gives no identity.
WithoutStrictIdentity == {"Function", "RegExp", "Date", "Socket", "Namespace"}
EqualityAgrees ==
  stage = "done" /\ stmt.op = "===" /\ ~UncheckedOperand =>
    LET holds(op, l, r, vs) == Run([op |-> op, l |-> l, r |-> r, to |-> "auto", cell |-> FALSE], vs)[2]
        swapped == <<vals[2], vals[1]>>
    IN  /\ \A op \in {"==", "==="} : holds(op, stmt.l, stmt.r, vals) = holds(op, stmt.r, stmt.l, swapped)
        /\ holds("===", stmt.l, stmt.r, vals) => holds("==", stmt.l, stmt.r, vals)
        /\ vals[1] = vals[2] /\ vals[1] # Boxed("Number", NaN) =>
             /\ holds("==", stmt.l, stmt.r, vals)
             /\ vals[1][1] \in WithoutStrictIdentity \/ holds("===", stmt.l, stmt.r, vals)

\* "is", "as" and the implicit conversion from "*" decide alike which values
\* belong to a type, and a value other than null belongs to its static type;
\* "is Function" never holds.
TypeTestsAgree ==
  stage = "done" /\ stmt.op = "is" /\ ~UncheckedOperand /\ vals[1] \notin {Null, Undefined} =>
    LET to(op, l, t) == [op |-> op, l |-> l, r |-> t, to |-> IF op = "=" THEN t ELSE "auto", cell |-> FALSE]
        as  == box_value(Emit(assign(to("as", stmt.l, stmt.r)), <<"Any", vals[1]>>, <<"String", Nil>>))
    IN  /\ seen[2] <=> as # Null
        /\ stmt.r \in PointerTypes \ {"String", "Function", "Namespace"} =>
             (seen[2] <=> Run(to("=", "Any", stmt.r), vals) # Throw)
        /\ conversion(stmt.l, stmt.r) = None /\ stmt.r # "Function" => seen[2]

\* A cast of any operand to a core type is one of the conversions of ES3
\* section 9, which are total (the comment of cast_call, expr_class.rs).
CastsConvert == stage = "stored" /\ stmt.op = "cast" /\ stmt.l # "Void" => slot # Panic
=============================================================================
