---------------------------- MODULE SequenceSpec ----------------------------
(***************************************************************************)
(* What Array, Vector.<T> and dynamic objects promise a program: a finite  *)
(* sequence of elements, or of <<key, value>> pairs, and the effect and    *)
(* answer of each call on it, defined over positions as ECMA-262 section   *)
(* 15.4.4 and SPECS sections 3.2 and 4.3 do, with no storage in sight.     *)
(***************************************************************************)
EXTENDS Elements

VARIABLES kind, items, call, answer

Size     == Len(items)
IsVector == kind \in Vectors

Least(a, b) == IF a < b THEN a ELSE b

(* The position a relative start or end argument denotes. *)
Position(v) ==
  CASE IsNumber(v) /\ v[2] >= 0 -> Least(v[2], Size)
    [] IsNumber(v) /\ v[2] < 0  -> IF Size + v[2] < 0 THEN 0 ELSE Size + v[2]
    [] v = Infinity             -> Size
    [] OTHER                    -> 0

(* Elements from position a up to, not including, position b. *)
Between(a, b) == IF a < b THEN SubSeq(items, a + 1, b) ELSE <<>>

Taken(vs) == [i \in DOMAIN vs |-> Stored(kind, vs[i])]
IsIndex(v)   == IsNumber(v) /\ v[2] >= 0
Seen(c, v)   == IF c.path = "typed" THEN Unboxed(kind, v) ELSE v

Keep(a) == items' = items /\ answer' = a

Push(c)    == items' = items \o Taken(c.args) /\ answer' = N(Len(items'))
Unshift(c) == items' = Taken(c.args) \o items /\ answer' = N(Len(items'))
Pop(c) ==
  IF Size = 0 THEN Keep(Seen(c, Undefined))
  ELSE items' = Between(0, Size - 1) /\ answer' = Seen(c, items[Size])
Shift(c) ==
  IF Size = 0 THEN Keep(Seen(c, Undefined))
  ELSE items' = Between(1, Size) /\ answer' = Seen(c, items[1])
Slice(c)   == Keep(Sequence(Between(Position(c.args[1]), Position(c.args[2]))))
Splice(c)  ==
  LET from  == Position(c.args[1])
      count == any_to_number(c.args[2])
      upto  == CASE count = Infinity                  -> Size
                 [] IsNumber(count) /\ count[2] > 0   -> Least(from + count[2], Size)
                 [] OTHER                             -> from
  IN  items' = Between(0, from) \o SubSeq(c.args, 3, Len(c.args)) \o Between(upto, Size)
      /\ answer' = Sequence(Between(from, upto))
IndexOf(c) ==
  LET found == {i \in Position(c.args[2]) .. Size - 1 :
                  StrictlyEqual(items[i + 1], Stored(kind, c.args[1]))}
  IN  Keep(IF found = {} THEN N(-1) ELSE N(CHOOSE i \in found : \A j \in found : i <= j))
Concat(c)  == Keep(Sequence(items \o c.args \o items))     \* x.concat(args, x)
Reverse(c) == items' = [i \in 1 .. Size |-> items[Size + 1 - i]] /\ answer' = Nothing

(* The same elements, ordered, equal ones in the order they had. *)
Sort(c) ==
  /\ answer' = Nothing
  /\ Len(items') = Size
  /\ \E from \in [1 .. Size -> 1 .. Size] :
       /\ \A i, j \in 1 .. Size : i # j => from[i] # from[j]
       /\ \A i \in 1 .. Size : items'[i] = items[from[i]]
       /\ \A i, j \in 1 .. Size : i < j =>
            \/ Order(c.args[1][2], items'[i], items'[j]) < 0
            \/ Order(c.args[1][2], items'[i], items'[j]) = 0 /\ from[i] < from[j]

Length(c)    == Keep(N(Size))
SetLength(c) ==
  IF c.path = "boxed" THEN Keep(ReferenceError)
  ELSE /\ items' = [i \in 1 .. c.args[1][2] |-> IF i <= Size THEN items[i] ELSE Zero(kind)]
       /\ answer' = Nothing

At(c, k) == IF IsIndex(k) /\ k[2] < Size THEN Seen(c, items[k[2] + 1])
            ELSE IF IsVector THEN RangeError ELSE Undefined
Get(c) == Keep(At(c, any_to_number(c.args[1])))

Put(seq, k, v) ==    \* seq with v at position k, extended with holes
  [i \in 1 .. (IF k < Len(seq) THEN Len(seq) ELSE k + 1) |->
     IF i = k + 1 THEN Stored(kind, v) ELSE IF i <= Len(seq) THEN seq[i] ELSE Undefined]
Store(seq, k, v) ==
  IF kind = "C" /\ v[1] \notin {"object", "null", "undefined"} THEN items' = seq /\ answer' = TypeError
  ELSE IF IsVector /\ ~(IsIndex(k) /\ k[2] <= Len(seq)) THEN items' = seq /\ answer' = RangeError
  ELSE /\ items' = IF IsIndex(k) THEN Put(seq, k[2], v) ELSE seq
       /\ answer' = Nothing
Set(c) == Store(items, any_to_number(c.args[1]), c.args[2])

(* x[x.length] = x.pop(), the index being evaluated before the value. *)
MoveLast(c) ==
  IF Size = 0 THEN Store(items, N(0), Unboxed(kind, Undefined))
  ELSE IF Unboxed(kind, items[Size]) = TypeError
       THEN items' = Between(0, Size - 1) /\ answer' = TypeError
       ELSE Store(Between(0, Size - 1), N(Size), items[Size])

Has(c)    == Keep(Bool(LET k == any_to_number(c.args[1]) IN IsIndex(k) /\ k[2] < Size))
Delete(c) == Keep(Bool(FALSE))

(* Dynamic objects: one value per key, keys in the order they were added.  *)
Keys == {items[i][1] : i \in 1 .. Size}
ValueOf(k) == (CHOOSE p \in {items[i] : i \in 1 .. Size} : p[1] = k)[2]
GetProperty(c) == Keep(IF c.args[1] \in Keys THEN ValueOf(c.args[1]) ELSE Undefined)
SetProperty(c) ==
  /\ items' = IF c.args[1] \notin Keys THEN Append(items, c.args)
              ELSE [i \in 1 .. Size |-> IF items[i][1] = c.args[1] THEN c.args ELSE items[i]]
  /\ answer' = Nothing
HasProperty(c)    == Keep(Bool(c.args[1] \in Keys))
DeleteProperty(c) ==
  /\ items' = IF c.args[1] \notin Keys THEN items
              ELSE LET at == CHOOSE i \in 1 .. Size : items[i][1] = c.args[1]
                   IN  Between(0, at - 1) \o Between(at, Size)
  /\ answer' = Bool(c.args[1] \in Keys)

(* Loops and iterations read the sequence; see Collections for what they   *)
(* make of it.                                                             *)
Iterations == {"none", "join", "forEach", "map", "filter", "some", "every"}

Answered(c) ==
  IF kind = "Object" THEN
    \/ c.name = "get"    /\ GetProperty(c)
    \/ c.name = "set"    /\ SetProperty(c)
    \/ c.name = "has"    /\ HasProperty(c)
    \/ c.name = "delete" /\ DeleteProperty(c)
  ELSE
    \/ c.name = "push"      /\ Push(c)
    \/ c.name = "unshift"   /\ Unshift(c)
    \/ c.name = "pop"       /\ Pop(c)
    \/ c.name = "shift"     /\ Shift(c)
    \/ c.name = "slice"     /\ Slice(c)
    \/ c.name = "splice"    /\ Splice(c)
    \/ c.name = "indexOf"   /\ IndexOf(c)
    \/ c.name = "concat"    /\ Concat(c)
    \/ c.name = "reverse"   /\ Reverse(c)
    \/ c.name = "sort"      /\ Sort(c)
    \/ c.name = "length"    /\ Length(c)
    \/ c.name = "setLength" /\ SetLength(c)
    \/ c.name = "get"       /\ Get(c)
    \/ c.name = "set"       /\ Set(c)
    \/ c.name = "moveLast"  /\ MoveLast(c)
    \/ c.name = "has"       /\ Has(c)
    \/ c.name = "delete"    /\ Delete(c)

Next == /\ kind' = kind
        /\ \/ Answered(call')
           \/ call'.name \in Iterations /\ items' = items
Spec == [][Next]_<<kind, items, call, answer>>
=============================================================================
