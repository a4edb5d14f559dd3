---------------------------- MODULE Collections ----------------------------
(***************************************************************************)
(* Arrays, Vector.<T> and dynamic objects as the runtime keeps them        *)
(* (seq.rs, object.rs) and as compiled code reaches them: by a statically  *)
(* typed receiver, whose numeric elements are read and written in line     *)
(* (llvm.rs), and by a receiver of type "*", through the boxed entry       *)
(* points (ffi.rs).  One receiver is used by one program, which may also   *)
(* be inside a for..in loop over it or inside an iteration (join, forEach, *)
(* map, filter, some, every) that calls back into the program.             *)
(*                                                                         *)
(* Positions are integers, NaN or infinity; fractions, which every path    *)
(* truncates, are left out, and so are the values' own conversions         *)
(* (Typing) and the lifetime of buffers (GcHeap).                          *)
(***************************************************************************)
EXTENDS Elements, FiniteSetsExt, SequencesExt

CONSTANTS Receivers,    \* kinds of receiver the program uses
          Literals(_),  \* the elements of a new receiver of a kind
          Calls(_),     \* the calls made on a receiver of a kind
          Inside(_),    \* those made inside a loop or a callback
          MinCapacity,  \* least capacity of a grown buffer, 4 in the code
          UsizeMax,     \* greatest machine-word index
          MaxLength     \* bound: no call makes the receiver longer

ASSUME CollectionsAssumption ==
  /\ Receivers \subseteq Kinds
  /\ MinCapacity \in Nat \ {0}
  /\ UsizeMax \in Nat /\ MaxLength \in Nat /\ MaxLength < UsizeMax

Make(name, path, args) == [name |-> name, path |-> path, args |-> args]

(* The calls the grammar and the checker let a program make: each with its  *)
(* arguments, by a typed receiver, or by one of type "*", which has element *)
(* access, in, delete and length.                                           *)
Unary == {"get", "has", "delete"}
TypedCalls == {"push", "unshift", "pop", "shift", "slice", "splice", "indexOf", "concat", "reverse",
               "sort", "length", "setLength", "get", "set", "moveLast"}
BoxedCalls(kind) ==
  Unary \cup {"set"} \cup (IF kind = "Object" THEN {} ELSE {"length", "setLength"})
Arguments(name) ==
  CASE name \in {"push", "unshift", "concat"} -> Seq(Values)
    [] name = "splice"                        -> {a \in Seq(Values) : Len(a) >= 2}
    [] name \in {"slice", "indexOf", "set"}   -> {a \in Seq(Values) : Len(a) = 2}
    [] name \in Unary                         -> {a \in Seq(Values) : Len(a) = 1}
    [] name = "setLength"                     -> {a \in Seq({"num"} \X Nat) : Len(a) = 1}
    [] name = "sort"                          -> {a \in Seq({"cmp"} \X Comparators) : Len(a) = 1}
    [] OTHER                                  -> {<<>>}
IsCall(kind, c) ==
  /\ c = Make(c.name, c.path, c.args)
  /\ c.args \in Arguments(c.name)
  /\ \/ c.path = "boxed" /\ c.name \in BoxedCalls(kind)
     \/ c.path = "typed" /\ c.name \in TypedCalls
IsLiteral(kind, xs) ==
  /\ xs \in Seq(IF kind = "Object" THEN Values \X Values ELSE Values)
  /\ Len(xs) <= MaxLength
  /\ kind = "Object" => \A i, j \in DOMAIN xs : xs[i][1] = xs[j][1] => i = j

ASSUME ProgramAssumption ==
  \A kind \in Receivers :
    /\ \A c \in Calls(kind) \cup Inside(kind) : IsCall(kind, c)
    /\ \A xs \in Literals(kind) : IsLiteral(kind, xs)

VARIABLES store,    \* [kind, cells, len]: the buffer, cells up to the capacity
          call,     \* the last call made on the receiver
          answer,   \* and what it answered
          loop,     \* the for..in loop the program is in
          frame     \* the iteration the program is called back from

vars == <<store, call, answer, loop, frame>>

Garbage  == <<"garbage", 0>>
Contents == SubSeq(store.cells, 1, store.len)

(* What a runtime function leaves and answers. *)
Result(s, a) == [store |-> s, answer |-> a]

(* `v as usize`: saturating, NaN to 0. *)
usize(v) ==
  CASE v = Infinity -> UsizeMax
    [] IsNumber(v)  -> IF v[2] < 0 THEN 0 ELSE Min({v[2], UsizeMax})
    [] OTHER        -> 0
IsNegative(v) == IsNumber(v) /\ v[2] < 0

norm_index(v, len) ==
  IF IsNegative(v) THEN Max({len + v[2], 0}) ELSE Min({usize(v), len})

-----------------------------------------------------------------------------
(* The Vector object. *)

get_any(v, i)    == IF i < Len(v.cells) THEN v.cells[i + 1] ELSE Garbage    \* a raw read
set_any(v, i, x) == [v EXCEPT !.cells[i + 1] = Stored(v.kind, x)]

reserve(v, need) ==
  LET cap     == Len(v.cells)
      new_cap == Max({need, 2 * cap, MinCapacity})
  IN  IF need <= cap THEN v
      ELSE [v EXCEPT !.cells = @ \o [i \in 1 .. new_cap - cap |-> Garbage]]

push_any(v, x) == set_any([reserve(v, v.len + 1) EXCEPT !.len = v.len + 1], v.len, x)
push_all(v, xs) ==
  LET after[i \in 0 .. Len(xs)] == IF i = 0 THEN v ELSE push_any(after[i - 1], xs[i])
  IN  after[Len(xs)]

to_boxed(v) == SubSeq(v.cells, 1, v.len)

refill(v, xs) == push_all(reserve([v EXCEPT !.len = 0], Len(xs)), xs)

(* A faulty variant: growing after a truncation finds the old elements. *)
resizeKeeping(v, n) == [reserve(v, n) EXCEPT !.len = n]

resize(v, n) ==
  IF n <= v.len THEN [v EXCEPT !.len = n]
  ELSE LET r == reserve(v, n)
       IN  [r EXCEPT !.len = n,
                     !.cells = [i \in DOMAIN @ |-> IF i \in v.len + 1 .. n THEN Zero(v.kind) ELSE @[i]]]

new_vector(kind, xs) == refill([kind |-> kind, cells |-> <<>>, len |-> 0], xs)
new_array(xs)        == [kind |-> "Array", cells |-> xs, len |-> Len(xs)]

vs_vec_get(v, k) ==
  IF IsNegative(k) \/ usize(k) >= v.len THEN RangeError ELSE get_any(v, usize(k))
vs_vec_set(v, k, x) ==
  IF IsNegative(k) \/ usize(k) > v.len THEN Result(v, RangeError)
  ELSE Result(IF usize(k) = v.len THEN push_any(v, x) ELSE set_any(v, usize(k), x), Nothing)

vs_vec_pop(v) ==
  IF v.len = 0 THEN Result(v, Undefined)
  ELSE Result([v EXCEPT !.len = v.len - 1], get_any(v, v.len - 1))
vs_vec_shift(v) ==
  IF v.len = 0 THEN Result(v, Undefined)
  ELSE Result(refill(v, Tail(to_boxed(v))), get_any(v, 0))
vs_vec_unshift(v, xs) == refill(v, xs \o to_boxed(v))
vs_vec_slice(v, a, b) ==
  LET s == norm_index(a, v.len)  e == norm_index(b, v.len)
  IN  to_boxed(new_vector(v.kind, [i \in 1 .. Max({e - s, 0}) |-> get_any(v, s + i - 1)]))
FirstOf(found)     == IF found = {} THEN N(-1) ELSE N(Min(found))
vs_vec_index_of(v, needle, from) ==
  FirstOf({i \in norm_index(from, v.len) .. v.len - 1 : StrictlyEqual(get_any(v, i), needle)})
vs_vec_reverse(v)  == refill(v, Reverse(to_boxed(v)))

-----------------------------------------------------------------------------
(* The Array object; its elements are a Rust Vec. *)

ArraySet(data, a) == Result(new_array(data), a)
ArrayResize(data, n) == [i \in 1 .. n |-> IF i <= Len(data) THEN data[i] ELSE Undefined]

vs_arr_get(data, k) ==
  IF ~IsNegative(k) /\ k # NaN /\ usize(k) < Len(data) THEN data[usize(k) + 1] ELSE Undefined
vs_arr_set(data, k, x) ==
  LET i    == usize(k)
      wide == IF i < Len(data) THEN data ELSE ArrayResize(data, (i + 1) % (UsizeMax + 1))
  IN  IF IsNegative(k) THEN ArraySet(data, Nothing)
      ELSE IF i >= Len(wide) THEN ArraySet(wide, Abort)
      ELSE ArraySet([wide EXCEPT ![i + 1] = x], Nothing)
vs_arr_pop(data) ==
  IF data = <<>> THEN ArraySet(data, Undefined) ELSE ArraySet(Front(data), Last(data))
vs_arr_shift(data) ==
  IF data = <<>> THEN ArraySet(data, Undefined) ELSE ArraySet(Tail(data), Head(data))
vs_arr_unshift(data, xs) ==    \* one insertion per argument, each after the last
  LET after[i \in 0 .. Len(xs)] == IF i = 0 THEN data ELSE InsertAt(after[i - 1], i, xs[i])
  IN  after[Len(xs)]
vs_arr_slice(data, a, b) == SubSeq(data, norm_index(a, Len(data)) + 1, norm_index(b, Len(data)))

vs_arr_splice(data, start, count, xs) ==
  LET s == norm_index(start, Len(data))
      e == Min({(s + usize(count)) % (UsizeMax + 1), Len(data)})   \* the sum may wrap
  IN  IF e < s THEN ArraySet(data, Abort)
      ELSE ArraySet(SubSeq(data, 1, s) \o xs \o SubSeq(data, e + 1, Len(data)),
                    Sequence(SubSeq(data, s + 1, e)))
vs_arr_index_of(data, needle, from) ==
  FirstOf({i \in norm_index(from, Len(data)) .. Len(data) - 1 : StrictlyEqual(data[i + 1], needle)})

(* The standard library's sort, with the borrow held: stable when the      *)
(* comparator is an order, and otherwise any permutation, or a panic.      *)
Permuted(data) == {[i \in DOMAIN data |-> data[p[i]]] :
                     p \in {q \in [DOMAIN data -> DOMAIN data] : IsInjective(q)}}
Inserted(cmp, sorted, x) ==
  LET at == Max({0} \cup {i \in DOMAIN sorted : Order(cmp, sorted[i], x) <= 0})
  IN  SubSeq(sorted, 1, at) \o <<x>> \o SubSeq(sorted, at + 1, Len(sorted))
Sorted(cmp, data) ==
  LET after[i \in 0 .. Len(data)] == IF i = 0 THEN <<>> ELSE Inserted(cmp, after[i - 1], data[i])
  IN  after[Len(data)]
vs_arr_sort_with(data, cmp) ==
  IF IsOrder(cmp, data)
  THEN {ArraySet(Sorted(cmp, data), Nothing)}
  ELSE {ArraySet(d, Nothing) : d \in Permuted(data)} \cup {ArraySet(data, Abort)}

-----------------------------------------------------------------------------
(* Expandos of a dynamic object: <<key, value>> pairs in insertion order.  *)

ObjectSet(s, pairs, a) == Result([s EXCEPT !.cells = pairs, !.len = Len(pairs)], a)
get_prop(s, k) ==
  LET at == {i \in DOMAIN s.cells : s.cells[i][1] = k}
  IN  IF at = {} THEN Undefined ELSE s.cells[Min(at)][2]
has_prop(s, k) == \E i \in DOMAIN s.cells : s.cells[i][1] = k

(* A faulty variant: writing a property moves it to the end. *)
set_propAtEnd(s, k, x) ==
  ObjectSet(s, Append(SelectSeq(s.cells, LAMBDA p : p[1] # k), <<k, x>>), Nothing)

set_prop(s, k, x) ==
  ObjectSet(s, IF has_prop(s, k) THEN [i \in DOMAIN s.cells |->
                                        IF s.cells[i][1] = k THEN <<k, x>> ELSE s.cells[i]]
               ELSE Append(s.cells, <<k, x>>), Nothing)
retain(pairs, k) ==
  LET kept[i \in 0 .. Len(pairs)] ==
        IF i = 0 THEN <<>>
        ELSE IF pairs[i][1] # k THEN Append(kept[i - 1], pairs[i]) ELSE kept[i - 1]
  IN  kept[Len(pairs)]
delete_prop(s, k) ==
  LET kept == retain(s.cells, k)
  IN  ObjectSet(s, kept, Bool(Len(kept) # Len(s.cells)))
prop_key_at(s, i) == IF i < s.len THEN s.cells[i + 1][1] ELSE Undefined

-----------------------------------------------------------------------------
(* Receivers of type "*". *)

vs_any_index_get(s, k) ==
  LET i == any_to_number(k)
      in_range == ~IsNegative(i) /\ i # NaN /\ usize(i) < s.len
  IN  CASE s.kind = "Array"  -> IF in_range THEN s.cells[usize(i) + 1] ELSE Undefined
        [] s.kind = "Object" -> get_prop(s, k)
        [] OTHER             -> IF in_range THEN get_any(s, usize(i)) ELSE RangeError
vs_any_index_set(s, k, x) ==
  CASE s.kind = "Array"  -> vs_arr_set(s.cells, any_to_number(k), x)
    [] s.kind = "Object" -> set_prop(s, k, x)
    [] OTHER             -> vs_vec_set(s, any_to_number(k), x)
vs_any_has_prop(k, s) ==
  LET n == any_to_number(k)
  IN  IF s.kind = "Object" THEN has_prop(s, k) ELSE ~IsNegative(n) /\ n # NaN /\ usize(n) < s.len
vs_any_delete_prop(s, k) ==
  IF s.kind = "Object" THEN delete_prop(s, k) ELSE Result(s, Bool(FALSE))
vs_any_get_prop(s, name) == IF name = "length" THEN N(s.len) ELSE ReferenceError

-----------------------------------------------------------------------------
(* Typed receivers: the code the backend emits. *)

(* A faulty variant: the element one past the last is read in line. *)
idx_in_boundsInclusive(k, len) == IsNumber(k) /\ 0 <= k[2] /\ k[2] <= len

idx_in_bounds(k, len) == IsNumber(k) /\ 0 <= k[2] /\ k[2] < len

SeqGet(s, k) ==
  CASE s.kind \in NumericVectors ->
         IF idx_in_bounds(k, s.len) THEN get_any(s, k[2])
         ELSE IF vs_vec_get(s, k) = RangeError THEN RangeError
         ELSE Unreachable                       \* the call was not to return
    [] s.kind = "C"     -> LET v == vs_vec_get(s, k)
                           IN  IF v = RangeError THEN v ELSE Unboxed("C", v)
    [] s.kind = "Array" -> vs_arr_get(s.cells, k)
SeqSet(s, k, x) ==
  CASE s.kind \in NumericVectors ->
         IF idx_in_bounds(k, s.len) THEN Result(set_any(s, k[2], x), Nothing) ELSE vs_vec_set(s, k, x)
    [] s.kind = "C"     -> vs_vec_set(s, k, x)
    [] s.kind = "Array" -> vs_arr_set(s.cells, k, x)

Typed(s, r) == Result(r.store, Unboxed(s.kind, r.answer))
Pop(s)      == Typed(s, IF s.kind = "Array" THEN vs_arr_pop(s.cells) ELSE vs_vec_pop(s))

(* x[x.length] = x.pop(): in line, the value is evaluated before the       *)
(* receiver and the index; through the runtime, after them.                *)
MoveLast(s) ==
  LET popped == Pop(s)
  IN  IF popped.answer = TypeError THEN popped
      ELSE SeqSet(popped.store, N(IF s.kind \in NumericVectors THEN popped.store.len ELSE s.len),
                  popped.answer)

call_arr(s, c) ==
  LET data == s.cells  a == c.args
  IN  CASE c.name = "push"    -> {ArraySet(data \o a, N(Len(data) + Len(a)))}
        [] c.name = "unshift" -> {ArraySet(vs_arr_unshift(data, a), N(Len(data) + Len(a)))}
        [] c.name = "pop"     -> {Pop(s)}
        [] c.name = "shift"   -> {vs_arr_shift(data)}
        [] c.name = "slice"   -> {Result(s, Sequence(vs_arr_slice(data, a[1], a[2])))}
        [] c.name = "splice"  -> {vs_arr_splice(data, a[1], a[2], SubSeq(a, 3, Len(a)))}
        [] c.name = "indexOf" -> {Result(s, vs_arr_index_of(data, a[1], a[2]))}
        [] c.name = "concat"  -> {Result(s, Sequence(data \o a \o data))}
        [] c.name = "reverse" -> {ArraySet(Reverse(data), Nothing)}
        [] c.name = "sort"    -> vs_arr_sort_with(data, a[1][2])
        [] c.name = "setLength" -> {ArraySet(ArrayResize(data, a[1][2]), Nothing)}
        [] OTHER -> {}
call_vec(s, c) ==
  LET a == c.args
      Grown(v) == {Result(v, N(v.len))}
  IN  CASE c.name = "push"    -> Grown(push_all(s, a))
        [] c.name = "unshift" -> Grown(vs_vec_unshift(s, a))
        [] c.name = "pop"     -> {Pop(s)}
        [] c.name = "shift"   -> {Typed(s, vs_vec_shift(s))}
        [] c.name = "slice"   -> {Result(s, Sequence(vs_vec_slice(s, a[1], a[2])))}
        [] c.name = "indexOf" -> {Result(s, vs_vec_index_of(s, Stored(s.kind, a[1]), a[2]))}
        [] c.name = "reverse" -> {Result(vs_vec_reverse(s), Nothing)}
        [] c.name = "setLength" -> {Result(resize(s, a[1][2]), Nothing)}
        [] OTHER -> {}

(* What the static types let a program write: numbers and elements are     *)
(* converted by the checker; null reaches a Vector.<C> by push, unshift    *)
(* and indexOf only; splice, concat and sort are Array's.                  *)
Checked(kind, c) ==
  CASE c.name = "get" -> [c EXCEPT !.args = <<any_to_number(@[1])>>]
    [] c.name = "set" -> [c EXCEPT !.args = <<any_to_number(@[1]), Stored(kind, @[2])>>]
    [] OTHER -> c
IsElement(kind, name, v) ==
  kind = "C" => \/ v[1] = "object"
                \/ v = Null /\ name # "set"
Accepts(kind, c) ==
  /\ kind # "Object"
  /\ c.name \in {"splice", "concat", "sort"} => kind = "Array"
  /\ c.name \in {"push", "unshift"} => \A i \in DOMAIN c.args : IsElement(kind, c.name, c.args[i])
  /\ c.name = "indexOf" => IsElement(kind, c.name, c.args[1])
  /\ c.name = "set"     => IsElement(kind, c.name, c.args[2])

Outcomes(s, c) ==
  IF c.path = "boxed" THEN
    CASE c.name = "get"    -> {Result(s, vs_any_index_get(s, c.args[1]))}
      [] c.name = "set"    -> {vs_any_index_set(s, c.args[1], c.args[2])}
      [] c.name = "has"    -> {Result(s, Bool(vs_any_has_prop(c.args[1], s)))}
      [] c.name = "delete" -> {vs_any_delete_prop(s, c.args[1])}
      [] c.name = "length" -> {Result(s, vs_any_get_prop(s, "length"))}
      [] OTHER             -> {Result(s, ReferenceError)}
  ELSE IF ~Accepts(s.kind, c) THEN {}
  ELSE LET a == Checked(s.kind, c).args
       IN  CASE c.name = "get"      -> {Result(s, SeqGet(s, a[1]))}
             [] c.name = "set"      -> {SeqSet(s, a[1], a[2])}
             [] c.name = "length"   -> {Result(s, N(s.len))}
             [] c.name = "moveLast" -> {MoveLast(s)}
             [] OTHER               -> IF s.kind = "Array" THEN call_arr(s, c) ELSE call_vec(s, c)

-----------------------------------------------------------------------------
(* The program. *)

NoLoop  == [at |-> "none", idx |-> 0, seen |-> <<>>, moved |-> FALSE]
NoFrame == [mode |-> "none", items |-> <<>>, pos |-> 0, out |-> <<>>,
            start |-> <<>>, replies |-> <<>>]

Rest == Make("none", "typed", <<>>)
Running == answer[1] # "crash"

Init ==
  /\ \E kind \in Receivers : \E xs \in Literals(kind) :
       store = CASE kind = "Array"  -> new_array(xs)
                 [] kind = "Object" -> [kind |-> kind, cells |-> xs, len |-> Len(xs)]
                 [] OTHER           -> new_vector(kind, xs)
  /\ call = Rest /\ answer = Nothing
  /\ loop = NoLoop /\ frame = NoFrame

(* Code of the program runs: the main program, the body of the loop, or a  *)
(* callback: the function of an iteration, or the toString of an object.   *)
Joining   == frame.mode = "join"

(* A faulty variant: the elements are read as the iteration reaches them. *)
CurrentLive == IF frame.pos < store.len THEN Contents[frame.pos + 1] ELSE Undefined

Current   == IF Joining /\ store.kind = "Array" THEN Contents[frame.pos + 1] ELSE frame.items[frame.pos + 1]
InProgram ==
  /\ call = Rest /\ loop.at \in {"none", "body"}
  /\ frame.mode # "none" => frame.pos < Len(frame.items) /\ (Joining => Current[1] = "object")

(* A join holds its Array borrowed, and a call that needs it mutable then  *)
(* panics.                                                                 *)
Mutators == {"push", "unshift", "pop", "shift", "splice", "reverse", "sort", "setLength", "set", "moveLast"}
Borrowed(c) ==
  /\ Joining /\ store.kind = "Array" /\ c.name \in Mutators
  /\ IF c.name = "set" THEN ~IsNegative(any_to_number(c.args[1])) ELSE c.path = "typed"

(* Calls that take elements away or move them. *)
Removers == {"unshift", "pop", "shift", "splice", "reverse", "sort", "setLength", "moveLast", "delete"}

AfterCall ==    \* the answer is used
  /\ Running /\ call # Rest
  /\ call' = Rest /\ answer' = Nothing
  /\ UNCHANGED <<store, loop, frame>>

Call ==
  /\ InProgram
  /\ \E c \in IF loop.at = "none" /\ frame.mode = "none" THEN Calls(store.kind) ELSE Inside(store.kind) :
       /\ \E r \in Outcomes(store, c) :
            /\ r.store.len <= MaxLength
            /\ IF Borrowed(c) THEN store' = store /\ answer' = Abort
               ELSE store' = r.store /\ answer' = r.answer
       /\ call' = c
       /\ loop' = IF loop.at = "body" /\ c.name \in Removers
                  THEN [loop EXCEPT !.moved = TRUE, !.seen = <<>>] ELSE loop
  /\ UNCHANGED frame

(* for (k in x): lowered to a loop over the positions whose condition asks *)
(* for the length again before each element.                               *)
vs_enum_len2(s)    == s.len
vs_enum_key2(s, i) == IF s.kind = "Object" THEN prop_key_at(s, i) ELSE N(i)
LoopStep == call = Rest /\ frame.mode = "none" /\ UNCHANGED <<store, call, answer, frame>>

ForInBegin == /\ LoopStep /\ loop.at = "none"
              /\ loop' = [NoLoop EXCEPT !.at = "test"]

HasNext(s, i) == i < vs_enum_len2(s)

ForInTest ==
  /\ LoopStep /\ loop.at = "test"
  /\ loop' = IF HasNext(store, loop.idx)
             THEN [loop EXCEPT !.at = "body",
                               !.seen = IF loop.moved THEN @ ELSE Append(@, vs_enum_key2(store, loop.idx))]
             ELSE [loop EXCEPT !.at = "done"]

(* A faulty variant: continue repeats the loop without its update. *)
AfterBodyStuck(l) == [l EXCEPT !.at = "test"]

AfterBody(l) == [l EXCEPT !.at = "test", !.idx = @ + 1]

ForInContinue == LoopStep /\ loop.at = "body" /\ loop' = AfterBody(loop)
ForInBreak    == LoopStep /\ loop.at = "body" /\ loop' = NoLoop
ForInExit     == LoopStep /\ loop.at = "done" /\ loop' = NoLoop

(* join and the iterations with a callback.  A Vector is boxed and an      *)
(* Array cloned beforehand; a join of an Array reads it under a borrow.    *)
Callbacks == {"forEach", "map", "filter", "some", "every"}

FrameStep == call = Rest /\ loop.at = "none" /\ UNCHANGED <<store, loop>>

IterationBegin ==
  /\ FrameStep /\ frame.mode = "none" /\ store.kind # "Object"
  /\ \E mode \in {"join"} \cup (IF store.kind = "Array" THEN Callbacks ELSE {}) :
       frame' = [NoFrame EXCEPT !.mode = mode, !.items = Contents, !.start = Contents]
  /\ UNCHANGED <<call, answer>>

JoinText(v) == IF v \in {Null, Undefined} THEN Nothing ELSE v

IterationStep ==
  /\ FrameStep /\ frame.mode # "none" /\ frame.pos < Len(frame.items)
  /\ \E reply \in BOOLEAN :
       /\ Joining => reply = TRUE
       /\ frame' = [frame EXCEPT
            !.pos = IF <<frame.mode, reply>> \in {<<"some", TRUE>>, <<"every", FALSE>>}
                    THEN Len(frame.items) ELSE @ + 1,
            !.replies = Append(@, reply),
            !.out = CASE Joining -> Append(@, JoinText(Current))
                      [] frame.mode = "map" -> Append(@, Bool(reply))
                      [] frame.mode = "filter" /\ reply -> Append(@, Current)
                      [] frame.mode = "some" /\ reply -> <<Bool(TRUE)>>
                      [] frame.mode = "every" /\ ~reply -> <<Bool(FALSE)>>
                      [] OTHER -> @]
  /\ UNCHANGED <<call, answer>>

IterationEnd ==
  /\ FrameStep /\ frame.mode # "none" /\ frame.pos >= Len(frame.items)
  /\ call' = Make(frame.mode, "typed", <<>>)
  /\ answer' = CASE frame.mode \in {"join", "map", "filter"} -> Sequence(frame.out)
                 [] frame.mode = "some"  -> IF frame.out = <<>> THEN Bool(FALSE) ELSE frame.out[1]
                 [] frame.mode = "every" -> IF frame.out = <<>> THEN Bool(TRUE) ELSE frame.out[1]
                 [] OTHER -> Undefined
  /\ frame' = NoFrame

Next ==
  \/ Call \/ AfterCall
  \/ ForInBegin \/ ForInTest \/ ForInContinue \/ ForInBreak \/ ForInExit
  \/ IterationBegin \/ IterationStep \/ IterationEnd

(* Calls return, and a loop goes on: its body ends, and the next element   *)
(* is asked for.                                                           *)
Spec == Init /\ [][Next]_vars /\ WF_vars(AfterCall) /\ SF_vars(ForInContinue) /\ WF_vars(ForInTest \/ ForInExit)

-----------------------------------------------------------------------------
(* Known departures from the promise, one conjunct each. *)

Promise == INSTANCE SequenceSpec WITH kind <- store.kind, items <- Contents

KeyOf(c) == any_to_number(c.args[1])
Departs(c) ==
  \/ /\ c.name \in {"get", "set"} /\ KeyOf(c) = NaN      \* an index that is no number is 0
     /\ store.kind # "Object" /\ (c.name = "set" \/ c.path = "typed")
  \/ c.name = "set" /\ store.kind = "Array" /\ usize(KeyOf(c)) = UsizeMax \* index + 1 overflows
  \/ /\ c.name = "splice"       \* start + count overflows, as when a count of Infinity is omitted
     /\ norm_index(c.args[1], store.len) + usize(c.args[2]) > UsizeMax
  \/ /\ c.name = "sort" /\ ~IsOrder(c.args[1][2], Contents)
  \/ /\ c.name = "set" /\ store.kind = "C" /\ c.path = "boxed"       \* the class is not checked
     /\ c.args[2][1] \notin {"object", "null"}
  \/ c.name = "moveLast" /\ store.kind \in NumericVectors               \* value before index
  \/ Borrowed(c)

(* Every call on an array, a vector or a dynamic object, by the typed path *)
(* or the boxed one, whatever calls came before it (growth, truncation and *)
(* growth again, refills), has the effect and the answer the promise gives *)
(* it, the named departures excepted: seq.rs and the vs_arr_*, vs_vec_*    *)
(* and vs_any_* functions implement ordinary sequences.                    *)
KeepsPromise == [][Promise!Next \/ Departs(call')]_<<store, call, answer>>

(* The three ways to one element agree: a read in line, a typed read       *)
(* through the runtime and a boxed read give the same element or error,    *)
(* and so do the writes, unless the index is not a number.                 *)
PathsAgree ==
  Running /\ store.kind # "Object" =>
    \A k \in {N(i) : i \in -1 .. MaxLength + 1} \cup {Infinity} :
      LET boxed == vs_any_index_get(store, k)
      IN  /\ SeqGet(store, k) = IF boxed = RangeError THEN boxed ELSE Unboxed(store.kind, boxed)
          /\ \A i \in 1 .. store.len :
               LET x == store.cells[i]
               IN  SeqSet(store, k, x) = vs_any_index_set(store, k, x)

(* A loop whose body adds and overwrites but takes nothing away visits     *)
(* every key once, in order, the added ones too; it ends having visited    *)
(* them all, unless a call of the body ends the program: an abort may       *)
(* leave an Array cut.  (lower_for_in; deleting a property makes the loop   *)
(* skip one.)                                                              *)
EnumeratedKeys == [i \in 1 .. store.len |-> vs_enum_key2(store, i - 1)]
LoopVisitsKeys ==
  Running /\ ~loop.moved =>
    CASE loop.at = "body" -> loop.seen = SubSeq(EnumeratedKeys, 1, loop.idx + 1)
      [] loop.at = "test" -> loop.seen = SubSeq(EnumeratedKeys, 1, loop.idx)
      [] loop.at = "done" -> loop.seen = EnumeratedKeys
      [] OTHER            -> TRUE

(* An iteration is of the elements there were when it began, whatever its  *)
(* callbacks do to the receiver: join, map and filter have made of them    *)
(* what the elements passed so far say, and some and every what the        *)
(* replies say.                                                            *)
IterationIsOfSnapshot ==
  Running /\ frame.mode # "none" =>
    LET done == Len(frame.replies)
        Passed == {i \in 1 .. done : frame.replies[i]}
    IN  /\ frame.pos < Len(frame.items) => done = frame.pos
        /\ frame.pos >= Len(frame.items) /\ frame.mode \notin {"some", "every"} =>
             done = Len(frame.start)
        /\ CASE Joining -> frame.out = [i \in 1 .. done |-> JoinText(frame.start[i])]
             [] frame.mode = "map"    -> frame.out = [i \in 1 .. done |-> Bool(frame.replies[i])]
             [] frame.mode = "filter" -> /\ Len(frame.out) = Cardinality(Passed)
                                         /\ \A i \in Passed :
                                              frame.out[Cardinality({j \in Passed : j <= i})] = frame.start[i]
             [] frame.mode = "some"   -> (frame.out # <<>>) = (Passed # {})
             [] frame.mode = "every"  -> (frame.out # <<>>) = (Passed # 1 .. done)
             [] OTHER -> frame.out = <<>>

(* "splice - returns removed elements; inserts args" (ffi.rs): a splice     *)
(* answers with a sequence, whatever its arguments.  Does not hold.        *)
SpliceAnswers == call.name = "splice" => answer[1] = "sequence"

(* A loop whose body stops growing the receiver ends, or the program does: *)
(* the condition is asked again each time, so a body that keeps adding     *)
(* never ends.                                                             *)
LoopEnds ==
  <>[][store'.len <= store.len]_vars => []<>(loop.at = "none" \/ ~Running)
=============================================================================
