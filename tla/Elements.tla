------------------------------ MODULE Elements ------------------------------
(***************************************************************************)
(* The values that arrays, vectors and dynamic objects hold, and their     *)
(* conversion to the element type of a Vector (seq.rs, conv.rs).  A value  *)
(* is a pair of a tag and a payload.  Every number is an integer, NaN or   *)
(* positive infinity; no text reads as a number.                           *)
(***************************************************************************)
EXTENDS Integers, Sequences, FiniteSets

CONSTANT Modulus    \* the number of ints, 2^32 in the code

ASSUME ModulusAssumption == Modulus \in Nat \ {0} /\ Modulus % 2 = 0

N(i)      == <<"num", i>>
Text(i)   == <<"text", i>>
Object(i) == <<"object", i>>     \* an instance of the class C
NaN       == <<"nan", 0>>
Infinity  == <<"inf", 0>>
Undefined == <<"undefined", 0>>
Null      == <<"null", 0>>

Values == ({"num", "text", "object"} \X Int) \cup {NaN, Infinity, Undefined, Null}

IsNumber(v) == v[1] = "num"

(* Vector.<Number>, Vector.<int>, Vector.<uint>, Vector.<C>, Array, and an  *)
(* instance of a dynamic class with its expandos.                          *)
NumericVectors == {"Number", "int", "uint"}
Vectors        == NumericVectors \cup {"C"}
Kinds          == Vectors \cup {"Array", "Object"}

any_to_number(v) ==
  CASE v[1] \in {"num", "nan", "inf"} -> v
    [] v[1] = "null"                  -> N(0)
    [] OTHER                          -> NaN

to_uint32(v) == IF IsNumber(v) THEN N(v[2] % Modulus) ELSE N(0)
to_int32(v)  ==
  IF IsNumber(v) THEN N(((v[2] + Modulus \div 2) % Modulus) - Modulus \div 2) ELSE N(0)

(* A value as an element of the storage kind. *)
Stored(kind, v) ==
  CASE kind = "Number" -> any_to_number(v)
    [] kind = "int"    -> to_int32(any_to_number(v))
    [] kind = "uint"   -> to_uint32(any_to_number(v))
    [] OTHER           -> v

(* The value of the kind's zero slots. *)
Zero(kind) == IF kind \in NumericVectors THEN N(0) ELSE Undefined

TypeError      == <<"error", "TypeError">>
RangeError     == <<"error", "RangeError">>
ReferenceError == <<"error", "ReferenceError">>

(* An element read with the static type of the receiver. *)
Unboxed(kind, v) ==
  CASE kind \in NumericVectors                        -> Stored(kind, v)
    [] kind = "C" /\ v[1] \in {"undefined", "null"}   -> Null
    [] kind = "C" /\ v[1] \notin {"undefined", "null", "object"} -> TypeError
    [] OTHER                                          -> v

(* any_strict_equals on these values. *)
StrictlyEqual(v, w) == v = w /\ v # NaN

(* Answers that are not values. *)
Sequence(s)     == <<"sequence", s>>
Bool(b)     == <<"boolean", b>>
Nothing     == <<"nothing", 0>>
Abort       == <<"crash", "abort">>
Unreachable == <<"crash", "undefined behaviour">>

(* The order of the comparators that programs pass to sort, and of the     *)
(* texts of the values, which sort without a comparator follows.           *)
Rank(v) ==
  CASE IsNumber(v) -> v[2]
    [] v[1] = "inf"       -> 50
    [] v[1] = "nan"       -> 60
    [] v[1] = "object"    -> 70
    [] v[1] = "null"      -> 80
    [] v[1] = "text"      -> 90 + v[2]
    [] v[1] = "undefined" -> 99
Comparators == {"ascending", "equal", "less", "none"}
Order(cmp, v, w) ==
  CASE cmp \in {"ascending", "none"} -> Rank(v) - Rank(w)
    [] cmp = "equal"     -> 0
    [] cmp = "less"      -> -1
IsOrder(cmp, s) == cmp # "less" \/ Len(s) < 2
=============================================================================
