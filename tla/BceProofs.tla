------------------------------ MODULE BceProofs -------------------------------
(***************************************************************************)
(* That a versioned loop does what the loop did (Bce), for all functions   *)
(* in which the three conditions hold, all memories and all lengths of a   *)
(* run.  The inductive invariant says of every unchecked copy that runs,   *)
(* however many loops and branches deep the run is in it, that its guard   *)
(* still holds and that its index is in range of its vectors.              *)
(***************************************************************************)
EXTENDS Bce, SeqLemmas

-----------------------------------------------------------------------------
(* ---- sums ------------------------------------------------------------------ *)

(* A run of the function: its memory, what it has done and what is left.   *)
Items == [at : {"stmt", "cond", "update"}, id : DOMAIN program.code, fast : SUBSET DOMAIN program.code]

Runs == [env : [Locals -> Int], ref : [Vectors -> Objects], len : [Objects -> Nat],
         static : Int, out : {"running", "RangeError"},
         log : Seq({"get", "set"} \X Objects \X Int), todo : Seq(Items)]

(* An atom has a number for its value.                                     *)
LEMMA AtomTyped ==
  ASSUME NEW m \in Runs, NEW a \in Atoms
  PROVE  AtomValue(a, m) \in Int
<1>1. m.env \in [Locals -> Int] /\ m.ref \in [Vectors -> Objects] /\ m.len \in [Objects -> Nat]
      /\ m.static \in Int
  BY DEF Runs
<1>2. CASE a \in [e : {"lit"}, k : Int] BY <1>2 DEF AtomValue
<1>3. CASE a \in [e : {"local"}, x : Locals] BY <1>1, <1>3 DEF AtomValue
<1>4. CASE a \in [e : {"static"}] BY <1>1, <1>4 DEF AtomValue
<1>5. CASE a \in [e : {"length"}, x : Vectors]
  <2>1. AtomValue(a, m) = m.len[m.ref[a.x]] /\ a.x \in Vectors BY <1>5 DEF AtomValue
  <2> QED BY <2>1, <1>1
<1> QED BY <1>2, <1>3, <1>4, <1>5 DEF Atoms

(* The sum is taken atom by atom.                                          *)
LEMMA SumIs ==
  ASSUME NEW m \in Runs, NEW e \in Exprs
  PROVE  \E h \in [0 .. Len(e) -> Int] :
             /\ h[0] = 0 /\ Value(e, m) = h[Len(e)]
             /\ \A k \in 1 .. Len(e) : h[k] = h[k - 1] + AtomValue(e[k], m)
<1> DEFINE n == Len(e)
           val(k) == AtomValue(e[k], m)
           step == [x \in Int \X (1 .. n) |-> x[1] + val(x[2])]
           Is(g) == g = [k \in 0 .. n |-> IF k = 0 THEN 0 ELSE g[k - 1] + val(k)]
<1>1. n \in Nat BY DEF Exprs
<1>2. \A k \in 1 .. n : val(k) \in Int
  <2> SUFFICES ASSUME NEW k \in 1 .. n PROVE val(k) \in Int OBVIOUS
  <2>1. e[k] \in Atoms BY DEF Exprs
  <2> QED BY <2>1, AtomTyped
<1> HIDE DEF n, val
<1>3. step \in [Int \X (1 .. n) -> Int]
  <2>1. \A s \in Int, i \in 1 .. n : s + val(i) \in Int BY <1>2
  <2> QED BY <2>1
<1>4. PICK g : IsRun(g, n, Int, 0, step)
  <2>1. 0 \in Int OBVIOUS
  <2> HIDE DEF step
  <2> QED BY <1>1, <1>3, <2>1, Recursion, Zenon
<1>5. Is(g)
  <2>1. g \in [0 .. n -> Int] /\ g[0] = 0 /\ \A i \in 1 .. n : g[i] = step[<<g[i - 1], i>>]
    BY <1>4 DEF IsRun
  <2>2. \A i \in 1 .. n : i - 1 \in 0 .. n BY <1>1
  <2>3. \A i \in 1 .. n : g[i] = g[i - 1] + val(i) BY <2>1, <2>2
  <2> HIDE DEF step
  <2>4. \A i \in 0 .. n : i = 0 \/ i \in 1 .. n BY <1>1
  <2>5. \A i \in 0 .. n : g[i] = IF i = 0 THEN 0 ELSE g[i - 1] + val(i) BY <2>1, <2>3, <2>4
  <2>6. g = [i \in 0 .. n |-> g[i]] BY <2>1
  <2> QED BY <2>5, <2>6
<1> DEFINE h == CHOOSE h : Is(h)
<1>6. Is(h) BY <1>5
<1>7. Value(e, m) = h[n] BY DEF Value, val, n
<1>8. h[0] = 0 /\ \A i \in 1 .. n : h[i] = h[i - 1] + val(i)
  <2>1. 0 \in 0 .. n /\ \A i \in 1 .. n : i \in 0 .. n /\ i # 0 BY <1>1
  <2> HIDE DEF h
  <2> QED BY <1>6, <2>1
<1>9. h = [i \in 0 .. n |-> h[i]]
  <2>1. DOMAIN h = 0 .. n
    <3> HIDE DEF h
    <3> QED BY <1>6
  <2> HIDE DEF h
  <2> QED BY <1>6, <2>1
<1> HIDE DEF h
<1> DEFINE S == {i \in 0 .. n : h[i] \in Int}
<1>10. 0 .. n \subseteq S
  <2>1. 0 \in S BY <1>1, <1>8
  <2>2. ASSUME NEW i \in 0 .. n - 1, i \in S PROVE i + 1 \in S
    <3>1. i + 1 \in 1 .. n /\ i + 1 \in 0 .. n /\ (i + 1) - 1 = i BY <1>1
    <3>2. h[i + 1] = h[i] + val(i + 1) BY <3>1, <1>8
    <3> QED BY <3>1, <3>2, <1>2, <2>2
  <2> HIDE DEF S
  <2> QED BY <1>1, <2>1, <2>2, Induction
<1>11. h \in [0 .. n -> Int] BY <1>9, <1>10
<1> QED BY <1>7, <1>8, <1>11 DEF n, val

(* A sum is a number, and grows with its atoms.                            *)
LEMMA ValueTyped ==
  ASSUME NEW m \in Runs, NEW e \in Exprs
  PROVE  Value(e, m) \in Int
<1>1. Len(e) \in 0 .. Len(e) BY DEF Exprs
<1> QED BY <1>1, SumIs

(* A sum grows with its atoms.                                              *)
LEMMA ValueLe ==
  ASSUME NEW m \in Runs, NEW n \in Runs, NEW e \in Exprs,
         \A a \in Range(e) : AtomValue(a, m) <= AtomValue(a, n)
  PROVE  Value(e, m) <= Value(e, n)
<1>1. PICK g \in [0 .. Len(e) -> Int] :
         /\ g[0] = 0 /\ Value(e, m) = g[Len(e)]
         /\ \A k \in 1 .. Len(e) : g[k] = g[k - 1] + AtomValue(e[k], m)
  BY SumIs
<1>2. PICK h \in [0 .. Len(e) -> Int] :
         /\ h[0] = 0 /\ Value(e, n) = h[Len(e)]
         /\ \A k \in 1 .. Len(e) : h[k] = h[k - 1] + AtomValue(e[k], n)
  BY SumIs
<1> DEFINE S == {k \in 0 .. Len(e) : g[k] <= h[k]}
<1>3. Len(e) \in Nat BY DEF Exprs
<1>4. 0 \in S BY <1>1, <1>2, <1>3
<1>5. ASSUME NEW k \in 0 .. Len(e) - 1, k \in S PROVE k + 1 \in S
  <2>1. k + 1 \in 1 .. Len(e) /\ (k + 1) - 1 = k /\ k \in 0 .. Len(e) /\ k + 1 \in 0 .. Len(e) BY <1>3
  <2>2. e[k + 1] \in Atoms /\ e[k + 1] \in Range(e) BY <2>1 DEF Exprs, Range
  <2> DEFINE a == AtomValue(e[k + 1], m)
             b == AtomValue(e[k + 1], n)
  <2>3. a \in Int /\ b \in Int /\ a <= b BY <2>2, AtomTyped
  <2>4. g[k + 1] = g[k] + a /\ h[k + 1] = h[k] + b BY <1>1, <1>2, <2>1
  <2>5. g[k] \in Int /\ h[k] \in Int /\ g[k] <= h[k] BY <1>5, <2>1
  <2> HIDE DEF a, b
  <2> QED BY <2>1, <2>3, <2>4, <2>5
<1> HIDE DEF S
<1>6. 0 .. Len(e) \subseteq S BY <1>3, <1>4, <1>5, Induction
<1>7. Len(e) \in S BY <1>3, <1>6
<1> QED BY <1>1, <1>2, <1>7 DEF S

(* A sum of one atom.                                                      *)
LEMMA ValueOne ==
  ASSUME NEW m \in Runs, NEW a \in Atoms
  PROVE  <<a>> \in Exprs /\ Value(<<a>>, m) = AtomValue(a, m)
<1>1. <<a>> \in Exprs BY DEF Exprs
<1>2. PICK h \in [0 .. Len(<<a>>) -> Int] :
         /\ h[0] = 0 /\ Value(<<a>>, m) = h[Len(<<a>>)]
         /\ \A k \in 1 .. Len(<<a>>) : h[k] = h[k - 1] + AtomValue(<<a>>[k], m)
  BY <1>1, SumIs
<1>3. Len(<<a>>) = 1 /\ <<a>>[1] = a OBVIOUS
<1>4. h[1] = h[0] + AtomValue(a, m) BY <1>2, <1>3
<1> QED BY <1>1, <1>2, <1>3, <1>4, AtomTyped

-----------------------------------------------------------------------------
(* ---- what is looked at ------------------------------------------------------ *)

(* The places of a function's statements.                                  *)
Places == DOMAIN program.code

(* What a statement of each kind is made of.                               *)
LEMMA StatementTyped ==
  ASSUME NEW places, NEW st \in Statements(places)
  PROVE  /\ st.s \in {"get", "set"} => st.x \in Vectors /\ st.i \in Exprs
         /\ st.s \in {"push", "pop", "renew"} => st.x \in Vectors
         /\ st.s = "assign" => st.x \in Locals /\ st.val \in Exprs
         /\ st.s = "static" => st.val \in Exprs
         /\ st.s = "if" => st.c \in Seq(Conds) /\ st.a \in Seq(places) /\ st.b \in Seq(places)
         /\ st.s = "switch" => st.test \in places /\ st.body \in Seq(places)
         /\ st.s = "call" => st.body \in Seq(places)
         /\ st.s = "for" => /\ st.iv \in Locals /\ st.init \in Int /\ st.op \in {"<", "<=", "!="}
                            /\ st.bound \in Exprs /\ st.step \in Int /\ st.body \in Seq(places)
         /\ st.s \in {"get", "set", "push", "pop", "renew", "assign", "static", "if", "switch",
                      "call", "break", "continue", "for"}
<1>1. CASE st \in [s : {"get", "set"}, x : Vectors, i : Exprs] BY <1>1
<1>2. CASE st \in [s : {"push", "pop", "renew"}, x : Vectors] BY <1>2
<1>3. CASE st \in [s : {"assign"}, x : Locals, val : Exprs] BY <1>3
<1>4. CASE st \in [s : {"static"}, val : Exprs] BY <1>4
<1>5. CASE st \in [s : {"if"}, c : Seq(Conds), a : Seq(places), b : Seq(places)] BY <1>5
<1>6. CASE st \in [s : {"switch"}, test : places, body : Seq(places)] BY <1>6
<1>7. CASE st \in [s : {"call"}, body : Seq(places)] BY <1>7
<1>8. CASE st \in [s : {"break", "continue"}] BY <1>8
<1>9. CASE st \in [s : {"for"}, iv : Locals, init : Int, op : {"<", "<=", "!="}, bound : Exprs,
                   step : Int, body : Seq(places)]
  BY <1>9
<1> QED BY <1>1, <1>2, <1>3, <1>4, <1>5, <1>6, <1>7, <1>8, <1>9 DEF Statements

(* A function's table is of its statements.                                *)
LEMMA CodeTyped ==
  ASSUME program \in Programs, NEW k \in Places
  PROVE  program.code[k] \in Statements(Places)
<1>1. program.code \in Seq(Statements(DOMAIN program.code)) BY ProgramAssumption DEF IsProgram
<1>2. \A S, T : \A s \in Seq(S) : k \in DOMAIN s => s[k] \in S OBVIOUS
<1> QED BY <1>1, <1>2 DEF Places

(* The walk over the body of a loop meets the statements of the body, and  *)
(* what it enters of a statement it meets.                                 *)
LEMMA WalkIs ==
  ASSUME NEW k \in Places
  PROVE  /\ Walk(program, k) \subseteq Places
         /\ Range(program.code[k].body) \subseteq Places => Range(program.code[k].body) \subseteq Walk(program, k)
         /\ \A j \in Walk(program, k) :
               Entered(program.code[j]) \subseteq Places => Entered(program.code[j]) \subseteq Walk(program, k)
<1> DEFINE closed == {C \in SUBSET DOMAIN program.code :
                         /\ Range(program.code[k].body) \subseteq C
                         /\ \A c \in C : Entered(program.code[c]) \subseteq C}
<1>1. Walk(program, k) = {j \in DOMAIN program.code : \A C \in closed : j \in C} BY DEF Walk
<1>2. \A C \in closed : /\ Range(program.code[k].body) \subseteq C
                        /\ \A c \in C : Entered(program.code[c]) \subseteq C
  OBVIOUS
<1> HIDE DEF closed
<1> QED BY <1>1, <1>2 DEF Places

(* The blocks of a statement are in the table.                             *)
LEMMA EnteredTyped ==
  ASSUME program \in Programs, NEW k \in Places
  PROVE  /\ Entered(program.code[k]) \subseteq Places
         /\ program.code[k].s = "for" => Range(program.code[k].body) \subseteq Places
<1> DEFINE st == program.code[k]
<1>1. st \in Statements(Places) BY CodeTyped
<1>2. \A s \in Seq(Places) : Range(s) \subseteq Places BY DEF Range
<1> HIDE DEF st
<1>3. /\ st.s = "if" => st.a \in Seq(Places) /\ st.b \in Seq(Places)
      /\ st.s \in {"switch", "for"} => st.body \in Seq(Places)
  BY <1>1, StatementTyped
<1>4. st.s = "if" => Entered(st) = Range(st.a) \cup Range(st.b) BY DEF Entered
<1>5. st.s \in {"switch", "for"} => Entered(st) = Range(st.body) BY DEF Entered
<1>6. st.s \notin {"if", "switch", "for"} => Entered(st) = {} BY DEF Entered
<1> QED BY <1>2, <1>3, <1>4, <1>5, <1>6 DEF st

(* A loop that is versioned counts up by one from 0 or more, and nothing    *)
(* in its body assigns its index, a vector it is versioned for or a local   *)
(* of its bound, or changes the length of a vector it is versioned for      *)
(* other than by storing at its end.                                        *)
LEMMA VersionedIs ==
  ASSUME NEW k \in Places, NEW x \in try_version(program, k)
  PROVE  LET loop == program.code[k]
         IN  /\ loop.s = "for" /\ loop.init >= 0 /\ loop.step = 1 /\ loop.op \in {"<", "<="}
             /\ x \in Vectors
             /\ \A j \in Walk(program, k) :
                   LET st == program.code[j]
                   IN  /\ st.s \in {"assign", "renew"} =>
                              /\ st.x # loop.iv /\ st.x # x
                              /\ Local(st.x) \notin Range(loop.bound)
                              /\ Length(st.x) \notin Range(loop.bound)
                       /\ st.s = "for" => st.iv # loop.iv /\ Local(st.iv) \notin Range(loop.bound)
                       /\ st.s \in {"push", "pop"} => st.x # x
<1> DEFINE loop == program.code[k]
           w == Writes(program, k)
           r == Reads(program, k)
<1>1. loop.s = "for" /\ counted(loop) /\ loop.iv \notin w /\ invariant(loop.bound, w) /\ x \in safe(r, w)
  BY DEF try_version
<1>2. x \in Vectors /\ x \notin w /\ <<x, "other">> \notin r BY <1>1 DEF safe
<1>3. \A y \in w : Local(y) \notin Range(loop.bound) /\ Length(y) \notin Range(loop.bound)
  <2> HIDE DEF w, loop
  <2>1. \A a \in Range(loop.bound) : a.e \in {"local", "length"} => a.x \notin w BY <1>1 DEF invariant
  <2>2. \A y : Local(y).e = "local" /\ Local(y).x = y BY DEF Local
  <2>3. \A y : Length(y).e = "length" /\ Length(y).x = y BY DEF Length
  <2> QED BY <2>1, <2>2, <2>3
<1>4. \A j \in Walk(program, k) : /\ program.code[j].s \in {"assign", "renew"} => program.code[j].x \in w
                                  /\ program.code[j].s = "for" => program.code[j].iv \in w
  BY DEF Writes
<1>5. \A j \in Walk(program, k) : program.code[j].s \in {"push", "pop"} => <<program.code[j].x, "other">> \in r
  <2> SUFFICES ASSUME NEW j \in Walk(program, k), program.code[j].s \in {"push", "pop"}
               PROVE  <<program.code[j].x, "other">> \in r
    OBVIOUS
  <2>1. ReadsOf(program.code[j], loop.iv) \subseteq r BY DEF Reads
  <2>2. \A st, iv : st.s \in {"push", "pop"} => ReadsOf(st, iv) = {<<st.x, "other">>} BY DEF ReadsOf
  <2> HIDE DEF r, loop
  <2> QED BY <2>1, <2>2
<1> HIDE DEF w, r
<1>6. loop.init >= 0 /\ loop.step = 1 /\ loop.op \in {"<", "<="} BY <1>1 DEF counted
<1>7. ASSUME NEW j \in Walk(program, k)
      PROVE  LET st == program.code[j]
             IN  /\ st.s \in {"assign", "renew"} =>
                        /\ st.x # loop.iv /\ st.x # x
                        /\ Local(st.x) \notin Range(loop.bound)
                        /\ Length(st.x) \notin Range(loop.bound)
                 /\ st.s = "for" => st.iv # loop.iv /\ Local(st.iv) \notin Range(loop.bound)
                 /\ st.s \in {"push", "pop"} => st.x # x
  BY <1>1, <1>2, <1>3, <1>4, <1>5
<1> QED BY <1>1, <1>2, <1>6, <1>7 DEF loop

(* Under the third condition, a loop's body changes its bound at most by    *)
(* storing at the end of the vector whose length the bound is.              *)
LEMMA BoundIs ==
  ASSUME BoundsHold, NEW k \in Places, program.code[k].s = "for"
  PROVE  LET loop == program.code[k]
         IN  /\ Local(loop.iv) \notin Range(loop.bound)
             /\ \A j \in Walk(program, k) :
                   LET st == program.code[j]
                   IN  /\ st.s = "static" => Static \notin Range(loop.bound)
                       /\ st.s = "push" => Length(st.x) \notin Range(loop.bound)
                       /\ st.s = "set" => \/ Length(st.x) \notin Range(loop.bound)
                                          \/ /\ st.i = <<Local(loop.iv)>>
                                             /\ loop.op = "<" /\ loop.bound = <<Length(st.x)>>
<1> DEFINE loop == program.code[k]
<1>1. /\ Local(loop.iv) \notin Range(loop.bound)
      /\ Static \in Range(loop.bound) => ~Mutates(program, k)
      /\ \A x \in Lengthen(program, k) : Length(x) \notin Range(loop.bound)
  BY DEF BoundsHold, Places
<1>2. ASSUME NEW j \in Walk(program, k)
      PROVE  LET st == program.code[j]
             IN  /\ st.s = "static" => Static \notin Range(loop.bound)
                 /\ st.s = "push" => Length(st.x) \notin Range(loop.bound)
                 /\ st.s = "set" => \/ Length(st.x) \notin Range(loop.bound)
                                    \/ /\ st.i = <<Local(loop.iv)>>
                                       /\ loop.op = "<" /\ loop.bound = <<Length(st.x)>>
  <2> DEFINE st == program.code[j]
  <2>1. st.s = "static" => Mutates(program, k) BY DEF Mutates
  <2>2. st.s = "push" => st.x \in Lengthen(program, k) BY DEF Lengthen
  <2>3. st.s = "set" /\ ~(/\ st.i = <<Local(loop.iv)>>
                          /\ loop.op = "<" /\ loop.bound = <<Length(st.x)>>) => st.x \in Lengthen(program, k)
    BY DEF Lengthen
  <2> HIDE DEF st, loop
  <2>4. /\ st.s = "static" => Static \notin Range(loop.bound)
        /\ st.s = "push" => Length(st.x) \notin Range(loop.bound)
        /\ st.s = "set" => \/ Length(st.x) \notin Range(loop.bound)
                           \/ /\ st.i = <<Local(loop.iv)>>
                              /\ loop.op = "<" /\ loop.bound = <<Length(st.x)>>
    BY <1>1, <2>1, <2>2, <2>3
  <2> QED BY <2>4 DEF st
<1> QED BY <1>1, <1>2

(* What runs where the walk does not look only reads.                       *)
LEMMA HiddenIs ==
  ASSUME program \in Programs, NothingHidden, NEW k \in Places
  PROVE  /\ program.code[k].s = "call" => \A j \in Range(program.code[k].body) : program.code[j].s = "get"
         /\ program.code[k].s = "switch" => program.code[program.code[k].test].s = "get"
<1> DEFINE Of(c) == CASE program.code[c].s = "call"   -> Range(program.code[c].body)
                      [] program.code[c].s = "switch" -> {program.code[c].test}
                      [] OTHER                        -> {}
<1>1. Of(k) \subseteq Hidden(program) BY DEF Hidden, Places
<1>2. /\ program.code[k].s = "call" => Of(k) = Range(program.code[k].body)
      /\ program.code[k].s = "switch" => Of(k) = {program.code[k].test}
  OBVIOUS
<1> HIDE DEF Of
<1> QED BY <1>1, <1>2 DEF NothingHidden

-----------------------------------------------------------------------------
(* ---- the memory an unchecked copy runs in ------------------------------------ *)

(* A loop that is running and of which the run is in the unchecked copy.    *)
Active(it) == it.at \in {"cond", "update"} /\ it.id \in it.fast

(* The guard still holds and, in the body, the index is in range.           *)
Sound(m, it) ==
    LET loop == program.code[it.id]
    IN  /\ m.env[loop.iv] >= 0
        /\ \A x \in try_version(program, it.id) :
              /\ Holds(guard_term(loop, x), m)
              /\ it.at = "update" => m.env[loop.iv] < m.len[m.ref[x]]

(* What the parts of a run are.                                             *)
LEMMA RunTyped ==
  ASSUME NEW m \in Runs
  PROVE  /\ m.env \in [Locals -> Int] /\ m.ref \in [Vectors -> Objects] /\ m.len \in [Objects -> Nat]
         /\ m.static \in Int /\ m.out \in {"running", "RangeError"}
         /\ m.log \in Seq({"get", "set"} \X Objects \X Int) /\ m.todo \in Seq(Items)
BY DEF Runs

(* The length of the Vector a local refers to is a number.                  *)
LEMMA LenTyped ==
  ASSUME NEW m \in Runs, NEW x \in Vectors
  PROVE  m.ref[x] \in Objects /\ m.len[m.ref[x]] \in Nat
BY RunTyped

(* The values of the atoms.                                                 *)
LEMMA AtomIs ==
  ASSUME NEW m
  PROVE  /\ \A x : AtomValue(Local(x), m) = m.env[x]
         /\ \A x : AtomValue(Length(x), m) = m.len[m.ref[x]]
         /\ AtomValue(Static, m) = m.static
<1>1. \A x : AtomValue(Local(x), m) = m.env[x] BY DEF AtomValue, Local
<1>2. \A x : AtomValue(Length(x), m) = m.len[m.ref[x]] BY DEF AtomValue, Length
<1>3. AtomValue(Static, m) = m.static BY DEF AtomValue, Static
<1> QED BY <1>1, <1>2, <1>3

(* An atom is one of the four forms.                                        *)
LEMMA AtomForm ==
  ASSUME NEW a \in Atoms
  PROVE  \/ a.e = "lit"
         \/ a.e = "static" /\ a = Static
         \/ a.e = "local" /\ a.x \in Locals /\ a = Local(a.x)
         \/ a.e = "length" /\ a.x \in Vectors /\ a = Length(a.x)
<1>2. CASE a \in [e : {"lit"}, k : Int] BY <1>2
<1>3. CASE a \in [e : {"local"}, x : Locals] BY <1>3 DEF Local
<1>4. CASE a \in [e : {"static"}] BY <1>4 DEF Static
<1>5. CASE a \in [e : {"length"}, x : Vectors] BY <1>5 DEF Length
<1> QED BY <1>2, <1>3, <1>4, <1>5 DEF Atoms

(* A literal has the same value in every run.                               *)
LEMMA LitSame ==
  ASSUME NEW a, a.e = "lit", NEW m, NEW n
  PROVE  AtomValue(a, m) = AtomValue(a, n)
BY DEF AtomValue

(* What the guard tests.                                                    *)
LEMMA GuardIs ==
  ASSUME NEW m \in Runs, NEW loop, loop.op \in {"<", "<="}, NEW x \in Vectors
  PROVE  Holds(guard_term(loop, x), m) <=>
            IF loop.op = "<=" THEN Value(loop.bound, m) < m.len[m.ref[x]]
                              ELSE Value(loop.bound, m) <= m.len[m.ref[x]]
<1>1. Length(x) \in Atoms BY DEF Length, Atoms
<1>2. Value(<<Length(x)>>, m) = m.len[m.ref[x]] BY <1>1, ValueOne, AtomIs
<1>3. guard_term(loop, x) = Cmp(IF loop.op = "<=" THEN "<" ELSE "<=", loop.bound, <<Length(x)>>)
  BY DEF guard_term
<1>4. \A a, b : /\ Holds(Cmp("<", a, b), m) <=> Value(a, m) < Value(b, m)
                /\ Holds(Cmp("<=", a, b), m) <=> Value(a, m) <= Value(b, m)
  BY DEF Holds, Cmp
<1> QED BY <1>2, <1>3, <1>4

(* A loop's bound.                                                          *)
LEMMA LoopTyped ==
  ASSUME program \in Programs, NEW k \in Places, program.code[k].s = "for"
  PROVE  LET loop == program.code[k]
         IN  /\ loop.iv \in Locals /\ loop.init \in Int /\ loop.step \in Int
             /\ loop.op \in {"<", "<=", "!="}
             /\ loop.bound \in Exprs /\ loop.body \in Seq(Places)
BY CodeTyped, StatementTyped

(* While the index stays, the bound does not grow and the versioned vectors *)
(* do not shrink, the unchecked copy may run on.                            *)
LEMMA Kept ==
  ASSUME program \in Programs, NEW m \in Runs, NEW n \in Runs, NEW it \in Items, program.code[it.id].s = "for",
         Sound(m, it),
         n.env[program.code[it.id].iv] = m.env[program.code[it.id].iv],
         \A x \in try_version(program, it.id) :
            /\ Value(program.code[it.id].bound, n) <= Value(program.code[it.id].bound, m)
            /\ m.len[m.ref[x]] <= n.len[n.ref[x]]
  PROVE  Sound(n, it)
<1> DEFINE loop == program.code[it.id]
<1>1. it.id \in Places BY DEF Items, Places
<1>2. loop.iv \in Locals /\ loop.bound \in Exprs BY <1>1, LoopTyped
<1>3. m.env[loop.iv] \in Int /\ Value(loop.bound, m) \in Int /\ Value(loop.bound, n) \in Int
  BY <1>2, ValueTyped, RunTyped
<1>4. m.env[loop.iv] >= 0 /\ n.env[loop.iv] = m.env[loop.iv] BY DEF Sound
<1>5. ASSUME NEW x \in try_version(program, it.id)
      PROVE  /\ Holds(guard_term(loop, x), n)
             /\ it.at = "update" => n.env[loop.iv] < n.len[n.ref[x]]
  <2>1. x \in Vectors /\ loop.op \in {"<", "<="} BY <1>1, VersionedIs
  <2>2. m.len[m.ref[x]] \in Nat /\ n.len[n.ref[x]] \in Nat BY <2>1, LenTyped
  <2>3. Holds(guard_term(loop, x), m) /\ (it.at = "update" => m.env[loop.iv] < m.len[m.ref[x]]) BY DEF Sound
  <2>4. Value(loop.bound, n) <= Value(loop.bound, m) /\ m.len[m.ref[x]] <= n.len[n.ref[x]] OBVIOUS
  <2> HIDE DEF loop
  <2>5. IF loop.op = "<=" THEN Value(loop.bound, m) < m.len[m.ref[x]]
                          ELSE Value(loop.bound, m) <= m.len[m.ref[x]]
    BY <2>1, <2>3, GuardIs
  <2>6. IF loop.op = "<=" THEN Value(loop.bound, n) < n.len[n.ref[x]]
                          ELSE Value(loop.bound, n) <= n.len[n.ref[x]]
    BY <2>2, <2>4, <2>5, <1>3
  <2>7. Holds(guard_term(loop, x), n) BY <2>1, <2>6, GuardIs
  <2>8. it.at = "update" => n.env[loop.iv] < n.len[n.ref[x]] BY <2>2, <2>3, <2>4, <1>3, <1>4
  <2> QED BY <2>7, <2>8
<1> QED BY <1>4, <1>5 DEF Sound

(* A bound whose atoms keep their values, or become less, does not grow.    *)
LEMMA SumLe ==
  ASSUME NEW m \in Runs, NEW n \in Runs, NEW e \in Exprs,
         \A x \in Locals : Local(x) \in Range(e) => n.env[x] = m.env[x],
         \A x \in Vectors : Length(x) \in Range(e) => n.len[n.ref[x]] <= m.len[m.ref[x]],
         Static \in Range(e) => n.static = m.static
  PROVE  Value(e, n) <= Value(e, m)
<1>1. ASSUME NEW a \in Range(e) PROVE AtomValue(a, n) <= AtomValue(a, m)
  <2>1. a \in Atoms BY DEF Range, Exprs
  <2>2. AtomValue(a, n) \in Int /\ AtomValue(a, m) \in Int BY <2>1, AtomTyped
  <2>3. CASE a.e = "lit" BY <2>2, <2>3, LitSame
  <2>4. CASE a.e = "static" /\ a = Static BY <2>2, <2>4, AtomIs
  <2>5. CASE a.e = "local" /\ a.x \in Locals /\ a = Local(a.x)
    <3>1. AtomValue(a, n) = n.env[a.x] /\ AtomValue(a, m) = m.env[a.x] BY <2>5, AtomIs
    <3> QED BY <3>1, <2>2, <2>5
  <2>6. CASE a.e = "length" /\ a.x \in Vectors /\ a = Length(a.x)
    <3>1. AtomValue(a, n) = n.len[n.ref[a.x]] /\ AtomValue(a, m) = m.len[m.ref[a.x]] BY <2>6, AtomIs
    <3> QED BY <3>1, <2>6
  <2> QED BY <2>1, <2>3, <2>4, <2>5, <2>6, AtomForm
<1> QED BY <1>1, ValueLe

(* Runs with the same memory agree on every sum and every condition.        *)
Same(m, n) == n.env = m.env /\ n.ref = m.ref /\ n.len = m.len /\ n.static = m.static

(* A sum has the same value in the same memory.                             *)
LEMMA SumSame ==
  ASSUME NEW m \in Runs, NEW n \in Runs, Same(m, n), NEW e \in Exprs
  PROVE  Value(e, n) = Value(e, m)
<1>1. \A x \in Vectors : n.len[n.ref[x]] <= m.len[m.ref[x]] /\ m.len[m.ref[x]] <= n.len[n.ref[x]]
  BY LenTyped DEF Same
<1>2. Value(e, n) <= Value(e, m) BY <1>1, SumLe DEF Same
<1>3. Value(e, m) <= Value(e, n) BY <1>1, SumLe DEF Same
<1> QED BY <1>2, <1>3, ValueTyped

(* A condition holds in both or in neither.                                 *)
LEMMA HoldsSame ==
  ASSUME NEW m \in Runs, NEW n \in Runs, Same(m, n), NEW c, c.a \in Exprs, c.b \in Exprs
  PROVE  Holds(c, n) <=> Holds(c, m)
<1>1. Value(c.a, n) = Value(c.a, m) /\ Value(c.b, n) = Value(c.b, m) BY SumSame
<1> QED BY <1>1 DEF Holds

(* Distinct locals refer to distinct Vectors.                               *)
Apart(m) ==
    /\ \A x, y \in Vectors : m.ref[x] = m.ref[y] => x = y
    /\ \A x \in Vectors : m.ref[x] = <<"new", x>> \/ m.ref[x] \in {"old"} \X Vectors

(* ---- each change of the memory in the body of a loop leaves its unchecked copy sound *)

(* A step that leaves the memory as it is.                                  *)
LEMMA KeptSame ==
  ASSUME program \in Programs, NEW m \in Runs, NEW n \in Runs, NEW it \in Items,
         program.code[it.id].s = "for", Sound(m, it), Same(m, n)
  PROVE  Sound(n, it)
<1>1. it.id \in Places BY DEF Items, Places
<1>2. program.code[it.id].bound \in Exprs BY <1>1, LoopTyped
<1>3. Value(program.code[it.id].bound, n) = Value(program.code[it.id].bound, m) BY <1>2, SumSame
<1>4. Value(program.code[it.id].bound, m) \in Int BY <1>2, ValueTyped
<1>5. ASSUME NEW x \in try_version(program, it.id)
      PROVE  /\ Value(program.code[it.id].bound, n) <= Value(program.code[it.id].bound, m)
             /\ m.len[m.ref[x]] <= n.len[n.ref[x]]
  <2>1. x \in Vectors BY <1>1, VersionedIs
  <2> QED BY <1>3, <1>4, <2>1, LenTyped DEF Same
<1>6. n.env[program.code[it.id].iv] = m.env[program.code[it.id].iv] BY DEF Same
<1> QED BY <1>5, <1>6, Kept

(* An assignment to a local that is not the index and not in the bound.     *)
LEMMA KeptAssign ==
  ASSUME program \in Programs, NEW m \in Runs, NEW n \in Runs, NEW it \in Items,
         program.code[it.id].s = "for", Sound(m, it),
         NEW y \in Locals, \A x \in Locals : x # y => n.env[x] = m.env[x],
         n.ref = m.ref, n.len = m.len, n.static = m.static,
         y # program.code[it.id].iv, Local(y) \notin Range(program.code[it.id].bound)
  PROVE  Sound(n, it)
<1> DEFINE loop == program.code[it.id]
<1>1. it.id \in Places BY DEF Items, Places
<1>2. loop.iv \in Locals /\ loop.bound \in Exprs BY <1>1, LoopTyped
<1>4. \A x \in Locals : x # y => n.env[x] = m.env[x] OBVIOUS
<1>5. \A x \in Vectors : n.len[n.ref[x]] <= m.len[m.ref[x]] /\ m.len[m.ref[x]] <= n.len[n.ref[x]] BY LenTyped
<1>6. Value(loop.bound, n) <= Value(loop.bound, m)
  <2>1. \A x \in Locals : Local(x) \in Range(loop.bound) => x # y OBVIOUS
  <2> HIDE DEF loop
  <2> QED BY <1>2, <1>4, <1>5, <2>1, SumLe
<1>7. \A x \in try_version(program, it.id) : x \in Vectors BY <1>1, VersionedIs
<1>8. n.env[loop.iv] = m.env[loop.iv] BY <1>2, <1>4
<1> QED BY <1>5, <1>6, <1>7, <1>8, Kept

(* A change of the static, when the bound does not mention it.              *)
LEMMA KeptStatic ==
  ASSUME program \in Programs, NEW m \in Runs, NEW n \in Runs, NEW it \in Items,
         program.code[it.id].s = "for", Sound(m, it),
         n.env = m.env, n.ref = m.ref, n.len = m.len, Static \notin Range(program.code[it.id].bound)
  PROVE  Sound(n, it)
<1> DEFINE loop == program.code[it.id]
<1>1. it.id \in Places BY DEF Items, Places
<1>2. loop.iv \in Locals /\ loop.bound \in Exprs BY <1>1, LoopTyped
<1>5. \A x \in Vectors : n.len[n.ref[x]] <= m.len[m.ref[x]] /\ m.len[m.ref[x]] <= n.len[n.ref[x]] BY LenTyped
<1>6. Value(loop.bound, n) <= Value(loop.bound, m) BY <1>2, <1>5, SumLe
<1>7. \A x \in try_version(program, it.id) : x \in Vectors BY <1>1, VersionedIs
<1> QED BY <1>5, <1>6, <1>7, Kept

(* A change of the length of the Vector y refers to, or of the Vector y      *)
(* refers to, that leaves the versioned vectors as long as they were and    *)
(* does not lengthen what the bound mentions.                               *)
LEMMA KeptLength ==
  ASSUME program \in Programs, NEW m \in Runs, NEW n \in Runs, NEW it \in Items,
         program.code[it.id].s = "for", Sound(m, it), NEW y \in Vectors,
         n.env = m.env, n.static = m.static,
         \A x \in Vectors : x # y => n.len[n.ref[x]] = m.len[m.ref[x]],
         y \in try_version(program, it.id) => m.len[m.ref[y]] <= n.len[n.ref[y]],
         Length(y) \in Range(program.code[it.id].bound) => n.len[n.ref[y]] <= m.len[m.ref[y]]
  PROVE  Sound(n, it)
<1> DEFINE loop == program.code[it.id]
<1>1. it.id \in Places BY DEF Items, Places
<1>2. loop.iv \in Locals /\ loop.bound \in Exprs BY <1>1, LoopTyped
<1>3. \A x \in Vectors : x # y => n.len[n.ref[x]] <= m.len[m.ref[x]] /\ m.len[m.ref[x]] <= n.len[n.ref[x]]
  BY LenTyped
<1>4. \A x \in Vectors : Length(x) \in Range(loop.bound) => n.len[n.ref[x]] <= m.len[m.ref[x]] BY <1>3
<1>5. Value(loop.bound, n) <= Value(loop.bound, m)
  <2> HIDE DEF loop
  <2> QED BY <1>2, <1>4, SumLe
<1>6. \A x \in try_version(program, it.id) : x \in Vectors BY <1>1, VersionedIs
<1>7. \A x \in try_version(program, it.id) : m.len[m.ref[x]] <= n.len[n.ref[x]] BY <1>3, <1>6
<1> QED BY <1>5, <1>7, Kept

(* A store at the end of v, by v[i] = e in a loop up to v.length: its bound  *)
(* is then i + 1, in range of what i is in range of.                        *)
LEMMA KeptStore ==
  ASSUME program \in Programs, NEW m \in Runs, NEW n \in Runs, NEW it \in Items, it.at = "update",
         program.code[it.id].s = "for", Sound(m, it), NEW y \in Vectors,
         n.env = m.env, n.ref = m.ref, n.static = m.static,
         \A x \in Vectors : x # y => n.len[n.ref[x]] = m.len[m.ref[x]],
         m.len[m.ref[y]] = m.env[program.code[it.id].iv],
         n.len[n.ref[y]] = m.env[program.code[it.id].iv] + 1,
         program.code[it.id].op = "<", program.code[it.id].bound = <<Length(y)>>
  PROVE  Sound(n, it)
<1> DEFINE loop == program.code[it.id]
<1>1. it.id \in Places BY DEF Items, Places
<1>2. loop.iv \in Locals /\ m.env[loop.iv] \in Int BY <1>1, LoopTyped, RunTyped
<1>3. Value(loop.bound, n) = m.env[loop.iv] + 1
  <2>1. Length(y) \in Atoms BY DEF Length, Atoms
  <2>2. Value(<<Length(y)>>, n) = AtomValue(Length(y), n) BY <2>1, ValueOne
  <2>3. AtomValue(Length(y), n) = n.len[n.ref[y]] BY AtomIs
  <2> QED BY <2>2, <2>3
<1>4. m.env[loop.iv] >= 0 BY DEF Sound
<1>5. ASSUME NEW x \in try_version(program, it.id)
      PROVE  Holds(guard_term(loop, x), n) /\ n.env[loop.iv] < n.len[n.ref[x]]
  <2>1. x \in Vectors BY <1>1, VersionedIs
  <2>2. m.len[m.ref[x]] \in Nat /\ n.len[n.ref[x]] \in Nat BY <2>1, LenTyped
  <2>3. m.env[loop.iv] < m.len[m.ref[x]] BY DEF Sound
  <2>4. x # y BY <2>3, <1>2
  <2>5. n.len[n.ref[x]] = m.len[m.ref[x]] BY <2>1, <2>4
  <2>6. Value(loop.bound, n) <= n.len[n.ref[x]]
    <3>1. \A e, k \in Int : e < k => e + 1 <= k OBVIOUS
    <3>2. m.env[loop.iv] + 1 <= n.len[n.ref[x]] BY <1>2, <2>2, <2>3, <2>5, <3>1
    <3> QED BY <1>3, <3>2
  <2>7. Holds(guard_term(loop, x), n)
    <3>1. loop.op = "<" OBVIOUS
    <3> HIDE DEF loop
    <3> QED BY <2>1, <2>6, <3>1, GuardIs
  <2> QED BY <2>3, <2>5, <2>7
<1> QED BY <1>4, <1>5 DEF Sound

-----------------------------------------------------------------------------
(* ---- what is left to do -------------------------------------------------------- *)

(* A statement that may run in the body of loop k.                          *)
Inside(j, k) == j \in Walk(program, k) \/ program.code[j].s = "get"

(* What of the loops around it an item runs in the unchecked copy of is     *)
(* below it; what is above a loop's block is in that loop.                  *)
Nest(t) ==
    /\ \A p \in DOMAIN t : \A k \in t[p].fast :
          \E q \in DOMAIN t : p <= q /\ Active(t[q]) /\ t[q].id = k
    /\ \A p, q \in DOMAIN t : p < q /\ Active(t[q]) => Inside(t[p].id, t[q].id)
    /\ \A p \in DOMAIN t : t[p].at # "stmt" => program.code[t[p].id].s = "for"
    /\ \A p \in DOMAIN t : Active(t[p]) => try_version(program, t[p].id) # {}

(* Only what is first to do can be a condition.                             *)
Waiting(t) == \A p \in DOMAIN t : t[p].at # "cond"

AllSound(m, t) == \A p \in DOMAIN t : Active(t[p]) => Sound(m, t[p])

(* Taking the first items off.                                              *)
LEMMA NestDrop ==
  ASSUME NEW t \in Seq(Items), Nest(t), NEW d \in 1 .. Len(t) + 1
  PROVE  /\ SubSeq(t, d, Len(t)) \in Seq(Items) /\ Nest(SubSeq(t, d, Len(t)))
         /\ Waiting(t) => Waiting(SubSeq(t, d, Len(t)))
         /\ \A m : AllSound(m, t) => AllSound(m, SubSeq(t, d, Len(t)))
<1> DEFINE u == SubSeq(t, d, Len(t))
<1>1. u \in Seq(Items) /\ Len(u) = Len(t) - d + 1 /\ DOMAIN u = 1 .. Len(u) OBVIOUS
<1>2. \A p \in DOMAIN u : p + d - 1 \in DOMAIN t /\ u[p] = t[p + d - 1] OBVIOUS
<1>3. \A q \in DOMAIN t : q >= d => q - d + 1 \in DOMAIN u /\ u[q - d + 1] = t[q] OBVIOUS
<1>4. DOMAIN t = 1 .. Len(t) /\ Len(t) \in Nat OBVIOUS
<1> HIDE DEF u
<1>5. ASSUME NEW p \in DOMAIN u, NEW k \in u[p].fast
      PROVE  \E q \in DOMAIN u : p <= q /\ Active(u[q]) /\ u[q].id = k
  <2>1. p + d - 1 \in DOMAIN t /\ k \in t[p + d - 1].fast BY <1>2
  <2>2. PICK q \in DOMAIN t : p + d - 1 <= q /\ Active(t[q]) /\ t[q].id = k BY <2>1 DEF Nest
  <2>3. q \in Nat /\ p \in Nat /\ p >= 1 BY <1>1, <1>4
  <2>4. q >= d /\ p <= q - d + 1 BY <2>2, <2>3
  <2> QED BY <2>2, <2>4, <1>3
<1>6. ASSUME NEW p \in DOMAIN u, NEW q \in DOMAIN u, p < q, Active(u[q])
      PROVE  Inside(u[p].id, u[q].id)
  <2>1. p + d - 1 < q + d - 1 BY <1>1, <1>6
  <2> QED BY <1>2, <1>6, <2>1 DEF Nest
<1>7. \A p \in DOMAIN u : u[p].at # "stmt" => program.code[u[p].id].s = "for" BY <1>2 DEF Nest
<1>8. \A p \in DOMAIN u : Active(u[p]) => try_version(program, u[p].id) # {} BY <1>2 DEF Nest
<1>9. Nest(u) BY <1>5, <1>6, <1>7, <1>8 DEF Nest
<1>10. Waiting(t) => Waiting(u) BY <1>2 DEF Waiting
<1>11. \A m : AllSound(m, t) => AllSound(m, u) BY <1>2 DEF AllSound
<1> QED BY <1>1, <1>9, <1>10, <1>11 DEF u

(* Taking the first item off; what is known of it.                          *)
LEMMA NestTail ==
  ASSUME NEW t \in Seq(Items), t # <<>>, Nest(t)
  PROVE  /\ Head(t) \in Items /\ Tail(t) \in Seq(Items) /\ Nest(Tail(t))
         /\ \A m : AllSound(m, t) => AllSound(m, Tail(t)) /\ (Active(Head(t)) => Sound(m, Head(t)))
         /\ \A q \in DOMAIN Tail(t) : Active(Tail(t)[q]) => Inside(Head(t).id, Tail(t)[q].id)
         /\ \A k \in Head(t).fast : \/ Active(Head(t)) /\ Head(t).id = k
                                    \/ \E q \in DOMAIN Tail(t) : Active(Tail(t)[q]) /\ Tail(t)[q].id = k
         /\ Head(t).at # "stmt" => program.code[Head(t).id].s = "for"
         /\ Active(Head(t)) => try_version(program, Head(t).id) # {}
<1>1. Head(t) = t[1] /\ 1 \in DOMAIN t /\ Head(t) \in Items /\ Len(t) >= 1 OBVIOUS
<1>2. Tail(t) = SubSeq(t, 2, Len(t)) /\ 2 \in 1 .. Len(t) + 1 OBVIOUS
<1>3. Tail(t) \in Seq(Items) /\ Nest(Tail(t)) /\ \A m : AllSound(m, t) => AllSound(m, Tail(t))
  BY <1>2, NestDrop
<1>4. \A q \in DOMAIN Tail(t) : q + 1 \in DOMAIN t /\ Tail(t)[q] = t[q + 1] /\ 1 < q + 1 OBVIOUS
<1>5. \A q \in DOMAIN t : q = 1 \/ (q - 1 \in DOMAIN Tail(t) /\ Tail(t)[q - 1] = t[q]) OBVIOUS
<1>6. \A q \in DOMAIN Tail(t) : Active(Tail(t)[q]) => Inside(Head(t).id, Tail(t)[q].id)
  BY <1>1, <1>4 DEF Nest
<1>7. ASSUME NEW k \in Head(t).fast
      PROVE  \/ Active(Head(t)) /\ Head(t).id = k
             \/ \E q \in DOMAIN Tail(t) : Active(Tail(t)[q]) /\ Tail(t)[q].id = k
  <2>1. PICK q \in DOMAIN t : Active(t[q]) /\ t[q].id = k BY <1>1 DEF Nest
  <2> QED BY <2>1, <1>1, <1>5
<1>8. \A m : AllSound(m, t) => (Active(Head(t)) => Sound(m, Head(t))) BY <1>1 DEF AllSound
<1>9. /\ Head(t).at # "stmt" => program.code[Head(t).id].s = "for"
      /\ Active(Head(t)) => try_version(program, Head(t).id) # {}
  BY <1>1 DEF Nest
<1> QED BY <1>1, <1>3, <1>6, <1>7, <1>8, <1>9

(* Putting items in front.                                                  *)
LEMMA ConcatAt ==
  ASSUME NEW S, NEW s \in Seq(S), NEW t \in Seq(S)
  PROVE  /\ s \o t \in Seq(S)
         /\ \A p \in DOMAIN (s \o t) : \/ p \in DOMAIN s /\ (s \o t)[p] = s[p]
                                       \/ /\ p > Len(s) /\ p - Len(s) \in DOMAIN t
                                          /\ (s \o t)[p] = t[p - Len(s)]
         /\ \A p \in DOMAIN s : p \in DOMAIN (s \o t) /\ (s \o t)[p] = s[p]
         /\ \A q \in DOMAIN t : q + Len(s) \in DOMAIN (s \o t) /\ (s \o t)[q + Len(s)] = t[q]
         /\ DOMAIN s \subseteq 1 .. Len(s) /\ DOMAIN t \subseteq Nat \ {0} /\ Len(s) \in Nat
OBVIOUS

(* Statements in front: those of a block.                                   *)
LEMMA NestBlock ==
  ASSUME NEW t \in Seq(Items), Nest(t), NEW s \in Seq(Items),
         \A p \in DOMAIN s : /\ s[p].at = "stmt"
                             /\ \A k \in s[p].fast : \E q \in DOMAIN t : Active(t[q]) /\ t[q].id = k
                             /\ \A q \in DOMAIN t : Active(t[q]) => Inside(s[p].id, t[q].id)
  PROVE  /\ s \o t \in Seq(Items) /\ Nest(s \o t) /\ (Waiting(t) => Waiting(s \o t))
         /\ \A m : AllSound(m, t) => AllSound(m, s \o t)
<1> DEFINE u == s \o t
           n == Len(s)
<1>1. /\ u \in Seq(Items) /\ n \in Nat
      /\ \A p \in DOMAIN u : \/ p \in DOMAIN s /\ u[p] = s[p]
                             \/ p > n /\ p - n \in DOMAIN t /\ u[p] = t[p - n]
      /\ \A q \in DOMAIN t : q + n \in DOMAIN u /\ u[q + n] = t[q]
      /\ DOMAIN s \subseteq 1 .. n /\ DOMAIN t \subseteq Nat \ {0}
  BY ConcatAt
<1> HIDE DEF u, n
<1>2. \A p \in DOMAIN u : p \in Nat BY <1>1
<1>3. \A p \in DOMAIN s : ~Active(s[p]) BY DEF Active
<1>4. \A q \in DOMAIN u : Active(u[q]) => q > n /\ q - n \in DOMAIN t /\ u[q] = t[q - n] BY <1>1, <1>3
<1>5. ASSUME NEW p \in DOMAIN u, NEW k \in u[p].fast
      PROVE  \E q \in DOMAIN u : p <= q /\ Active(u[q]) /\ u[q].id = k
  <2>1. CASE p \in DOMAIN s /\ u[p] = s[p]
    <3>1. PICK q \in DOMAIN t : Active(t[q]) /\ t[q].id = k BY <2>1
    <3>2. q + n \in DOMAIN u /\ u[q + n] = t[q] /\ p <= q + n BY <1>1, <2>1
    <3> QED BY <3>1, <3>2
  <2>2. CASE p > n /\ p - n \in DOMAIN t /\ u[p] = t[p - n]
    <3>1. PICK q \in DOMAIN t : p - n <= q /\ Active(t[q]) /\ t[q].id = k BY <2>2 DEF Nest
    <3>2. q + n \in DOMAIN u /\ u[q + n] = t[q] /\ p <= q + n BY <1>1, <1>2, <2>2, <3>1
    <3> QED BY <3>1, <3>2
  <2> QED BY <2>1, <2>2, <1>1
<1>6. ASSUME NEW p \in DOMAIN u, NEW q \in DOMAIN u, p < q, Active(u[q])
      PROVE  Inside(u[p].id, u[q].id)
  <2>1. q - n \in DOMAIN t /\ u[q] = t[q - n] /\ Active(t[q - n]) BY <1>4, <1>6
  <2>2. CASE p \in DOMAIN s /\ u[p] = s[p] BY <2>1, <2>2
  <2>3. CASE p > n /\ p - n \in DOMAIN t /\ u[p] = t[p - n]
    <3>1. p - n < q - n BY <1>1, <1>2, <1>6
    <3> QED BY <2>1, <2>3, <3>1 DEF Nest
  <2> QED BY <2>2, <2>3, <1>1
<1>7. ASSUME NEW p \in DOMAIN u
      PROVE  u[p].at # "cond" \/ ~Waiting(t)
  <2>1. CASE p \in DOMAIN s /\ u[p] = s[p] BY <2>1
  <2>2. CASE p > n /\ p - n \in DOMAIN t /\ u[p] = t[p - n] BY <2>2 DEF Waiting
  <2> QED BY <2>1, <2>2, <1>1
<1>12. ASSUME NEW p \in DOMAIN u
       PROVE  u[p].at # "stmt" => program.code[u[p].id].s = "for"
  <2>1. CASE p \in DOMAIN s /\ u[p] = s[p] BY <2>1
  <2>2. CASE p > n /\ p - n \in DOMAIN t /\ u[p] = t[p - n] BY <2>2 DEF Nest
  <2> QED BY <2>1, <2>2, <1>1
<1>8. \A p \in DOMAIN u : Active(u[p]) => try_version(program, u[p].id) # {} BY <1>4 DEF Nest
<1>9. Nest(u) BY <1>5, <1>6, <1>12, <1>8 DEF Nest
<1>10. Waiting(t) => Waiting(u) BY <1>7 DEF Waiting
<1>11. \A m : AllSound(m, t) => AllSound(m, u) BY <1>4 DEF AllSound
<1> QED BY <1>1, <1>9, <1>10, <1>11 DEF u

(* A loop in front.                                                         *)
LEMMA NestLoop ==
  ASSUME NEW t \in Seq(Items), Nest(t), Waiting(t), NEW it \in Items, it.at # "stmt",
         program.code[it.id].s = "for", Active(it) => try_version(program, it.id) # {},
         \A k \in it.fast : k = it.id \/ \E q \in DOMAIN t : Active(t[q]) /\ t[q].id = k,
         \A q \in DOMAIN t : Active(t[q]) => Inside(it.id, t[q].id)
  PROVE  /\ <<it>> \o t \in Seq(Items) /\ Nest(<<it>> \o t) /\ Tail(<<it>> \o t) = t
         /\ it.at # "cond" => Waiting(<<it>> \o t)
         /\ \A m : AllSound(m, t) /\ (Active(it) => Sound(m, it)) => AllSound(m, <<it>> \o t)
<1> DEFINE u == <<it>> \o t
<1>1. /\ u \in Seq(Items) /\ Tail(u) = t /\ 1 \in DOMAIN u /\ u[1] = it
      /\ DOMAIN u \subseteq Nat \ {0} /\ DOMAIN t \subseteq Nat \ {0}
  OBVIOUS
<1>2. \A p \in DOMAIN u : p = 1 \/ (p > 1 /\ p - 1 \in DOMAIN t /\ u[p] = t[p - 1]) OBVIOUS
<1>3. \A q \in DOMAIN t : q + 1 \in DOMAIN u /\ u[q + 1] = t[q] OBVIOUS
<1> HIDE DEF u
<1>4. it.id \in it.fast => Active(it)
  <2>1. it.at \in {"cond", "update"} BY DEF Items
  <2> QED BY <2>1 DEF Active
<1>5. ASSUME NEW p \in DOMAIN u, NEW k \in u[p].fast
      PROVE  \E q \in DOMAIN u : p <= q /\ Active(u[q]) /\ u[q].id = k
  <2>1. CASE p = 1 /\ k = it.id BY <2>1, <1>1, <1>4
  <2>2. CASE p = 1 /\ k # it.id
    <3>1. PICK q \in DOMAIN t : Active(t[q]) /\ t[q].id = k BY <1>1, <2>2
    <3>2. q + 1 \in DOMAIN u /\ u[q + 1] = t[q] /\ p <= q + 1 BY <1>1, <1>3, <2>2
    <3> QED BY <3>1, <3>2
  <2>3. CASE p > 1 /\ p - 1 \in DOMAIN t /\ u[p] = t[p - 1]
    <3>1. PICK q \in DOMAIN t : p - 1 <= q /\ Active(t[q]) /\ t[q].id = k BY <2>3 DEF Nest
    <3>2. p \in Nat /\ q \in Nat BY <1>1
    <3>3. p <= q + 1 BY <3>1, <3>2
    <3> QED BY <3>1, <3>3, <1>3
  <2> QED BY <2>1, <2>2, <2>3, <1>2
<1>6. ASSUME NEW p \in DOMAIN u, NEW q \in DOMAIN u, p < q, Active(u[q])
      PROVE  Inside(u[p].id, u[q].id)
  <2>1. q - 1 \in DOMAIN t /\ u[q] = t[q - 1] /\ p >= 1 BY <1>1, <1>2, <1>6
  <2>2. CASE p = 1 BY <2>1, <2>2, <1>1, <1>6
  <2>3. CASE p > 1 /\ p - 1 \in DOMAIN t /\ u[p] = t[p - 1]
    <3>1. p - 1 < q - 1 BY <1>1, <1>6
    <3> QED BY <2>1, <2>3, <3>1, <1>6 DEF Nest
  <2> QED BY <2>2, <2>3, <1>2
<1>7. ASSUME NEW p \in DOMAIN u
      PROVE  /\ u[p].at # "stmt" => program.code[u[p].id].s = "for"
             /\ Active(u[p]) => try_version(program, u[p].id) # {}
  <2>1. CASE p = 1 BY <2>1, <1>1
  <2>2. CASE p - 1 \in DOMAIN t /\ u[p] = t[p - 1] BY <2>2 DEF Nest
  <2> QED BY <2>1, <2>2, <1>2
<1>9. Nest(u) BY <1>5, <1>6, <1>7 DEF Nest
<1>10. ASSUME it.at # "cond", NEW p \in DOMAIN u
       PROVE  u[p].at # "cond"
  <2>1. CASE p = 1 BY <2>1, <1>1, <1>10
  <2>2. CASE p - 1 \in DOMAIN t /\ u[p] = t[p - 1] BY <2>2 DEF Waiting
  <2> QED BY <2>1, <2>2, <1>2
<1>11. \A m : AllSound(m, t) /\ (Active(it) => Sound(m, it)) => AllSound(m, u) BY <1>1, <1>2 DEF AllSound
<1> QED BY <1>1, <1>9, <1>10, <1>11 DEF u, Waiting

-----------------------------------------------------------------------------
(* ---- what each step does --------------------------------------------------------- *)

Run(e, r, l, c, o, g, t) ==
    [env |-> e, ref |-> r, len |-> l, static |-> c, out |-> o, log |-> g, todo |-> t]

(* A run is its parts.                                                      *)
LEMMA RunParts ==
  ASSUME NEW e, NEW r, NEW l, NEW c, NEW o, NEW g, NEW t
  PROVE  LET m == Run(e, r, l, c, o, g, t)
         IN  m.env = e /\ m.ref = r /\ m.len = l /\ m.static = c /\ m.out = o /\ m.log = g /\ m.todo = t
BY DEF Run

(* Every run is made of its parts.                                          *)
LEMMA RunIs ==
  ASSUME NEW m \in Runs
  PROVE  m = Run(m.env, m.ref, m.len, m.static, m.out, m.log, m.todo)
BY DEF Run, Runs

(* Parts of the right types make a run.                                     *)
LEMMA RunMade ==
  ASSUME NEW e \in [Locals -> Int], NEW r \in [Vectors -> Objects], NEW l \in [Objects -> Nat], NEW c \in Int,
         NEW o \in {"running", "RangeError"}, NEW g \in Seq({"get", "set"} \X Objects \X Int),
         NEW t \in Seq(Items)
  PROVE  Run(e, r, l, c, o, g, t) \in Runs
BY DEF Run, Runs

(* A function with another value of x.                                      *)
Put(f, x, k) == [f EXCEPT ![x] = k]

(* A run with something else left to do, or another value of a local.       *)
LEMMA DoingIs ==
  ASSUME NEW e, NEW r, NEW l, NEW c, NEW o, NEW g, NEW t, NEW u
  PROVE  Doing(Run(e, r, l, c, o, g, t), u) = Run(e, r, l, c, o, g, u)
BY DEF Run, Doing

(* A run with another value of a local.                                     *)
LEMMA AssignedIs ==
  ASSUME NEW e, NEW r, NEW l, NEW c, NEW o, NEW g, NEW t, NEW y, NEW a
  PROVE  Assigned(Run(e, r, l, c, o, g, t), y, a) = Run(Put(e, y, a), r, l, c, o, g, t)
BY DEF Run, Assigned, Put

(* A run that ends has nothing left to do.                                  *)
LEMMA StopIs ==
  ASSUME NEW e, NEW r, NEW l, NEW c, NEW o, NEW g, NEW t, NEW how
  PROVE  Stop(Run(e, r, l, c, o, g, t), how) = Run(e, r, l, c, how, g, <<>>)
<1>1. [Run(e, r, l, c, o, g, t) EXCEPT !.out = how] = Run(e, r, l, c, how, g, t) BY DEF Run
<1> QED BY <1>1, DoingIs DEF Stop

(* The run that has the first item no longer to do.                         *)
Rest(m) == Doing(m, Tail(m.todo))

(* With something else left to do, a run keeps its memory.                  *)
LEMMA DoingTyped ==
  ASSUME NEW m \in Runs, NEW t \in Seq(Items)
  PROVE  /\ Doing(m, t) = Run(m.env, m.ref, m.len, m.static, m.out, m.log, t)
         /\ Doing(m, t) \in Runs /\ Same(m, Doing(m, t)) /\ Doing(m, t).todo = t
         /\ Doing(m, t).out = m.out /\ Doing(m, t).log = m.log
<1>1. Doing(m, t) = Run(m.env, m.ref, m.len, m.static, m.out, m.log, t) BY RunIs, DoingIs
<1>2. Doing(m, t) \in Runs
  <2>1. /\ m.env \in [Locals -> Int] /\ m.ref \in [Vectors -> Objects] /\ m.len \in [Objects -> Nat]
        /\ m.static \in Int /\ m.out \in {"running", "RangeError"}
        /\ m.log \in Seq({"get", "set"} \X Objects \X Int)
    BY RunTyped
  <2>2. Run(m.env, m.ref, m.len, m.static, m.out, m.log, t) \in Runs BY <2>1, RunMade
  <2> QED BY <1>1, <2>2
<1> QED BY <1>1, <1>2, RunParts DEF Same

(* So does the run without its first item.                                  *)
LEMMA RestTyped ==
  ASSUME NEW m \in Runs, m.todo # <<>>
  PROVE  /\ Rest(m) = Run(m.env, m.ref, m.len, m.static, m.out, m.log, Tail(m.todo))
         /\ Rest(m) \in Runs /\ Same(m, Rest(m))
         /\ Head(m.todo) \in Items /\ Head(m.todo).id \in Places /\ Tail(m.todo) \in Seq(Items)
         /\ Rest(m).out = m.out /\ Rest(m).log = m.log /\ Rest(m).todo = Tail(m.todo)
<1>1. Tail(m.todo) \in Seq(Items) /\ Head(m.todo) \in Items BY RunTyped
<1> QED BY <1>1, DoingTyped DEF Rest, Items, Places

(* A run with nothing left to do stays as it is.                             *)
LEMMA StepOver ==
  ASSUME NEW m, NEW v, m.todo = <<>>
  PROVE  Step(program, v, m) = m
BY DEF Step

(* The kinds of step: a statement,                                          *)
LEMMA StepStatement ==
  ASSUME NEW m, NEW v, m.todo # <<>>, Head(m.todo).at = "stmt"
  PROVE  Step(program, v, m) = Exec(program, v, program.code[Head(m.todo).id], Head(m.todo), Rest(m))
BY DEF Step, Rest

(* the test of a loop                                                       *)
LEMMA StepCond ==
  ASSUME NEW m, NEW v, m.todo # <<>>, Head(m.todo).at = "cond"
  PROVE  LET it == Head(m.todo)
             st == program.code[it.id]
         IN  Step(program, v, m) =
                Doing(m, IF Holds(Cmp(st.op, <<Local(st.iv)>>, st.bound), m)
                         THEN Block(st.body, it.fast) \o (<<Item("update", it.id, it.fast)>> \o Tail(m.todo))
                         ELSE Tail(m.todo))
BY DEF Step

(* and the update of its index.                                             *)
LEMMA StepUpdate ==
  ASSUME NEW m, NEW v, m.todo # <<>>, Head(m.todo).at = "update"
  PROVE  LET it == Head(m.todo)
             st == program.code[it.id]
         IN  Step(program, v, m) =
                Doing(Assigned(m, st.iv, m.env[st.iv] + st.step),
                      <<Item("cond", it.id, it.fast)>> \o Tail(m.todo))
BY DEF Step

(* The statements that change the memory.                                   *)
LEMMA PushIs ==
  ASSUME NEW e, NEW r, NEW l, NEW c, NEW o, NEW g, NEW t, NEW st, NEW it, NEW v, NEW p,
         st.s = "push"
  PROVE  Exec(p, v, st, it, Run(e, r, l, c, o, g, t))
            = Run(e, r, Put(l, r[st.x], l[r[st.x]] + 1), c, o, g, t)
<1> DEFINE m == Run(e, r, l, c, o, g, t)
<1>1. Exec(p, v, st, it, m) = [m EXCEPT !.len[m.ref[st.x]] = @ + 1] BY DEF Exec
<1>2. [m EXCEPT !.len[m.ref[st.x]] = @ + 1] = Run(e, r, Put(l, r[st.x], l[r[st.x]] + 1), c, o, g, t)
  BY DEF Run, Put
<1> HIDE DEF m
<1>3. Exec(p, v, st, it, m) = Run(e, r, Put(l, r[st.x], l[r[st.x]] + 1), c, o, g, t) BY <1>1, <1>2
<1> QED BY <1>3 DEF m

(* A pop of an empty Vector leaves it empty.                                *)
LEMMA PopIs ==
  ASSUME NEW e, NEW r, NEW l, NEW c, NEW o, NEW g, NEW t, NEW st, NEW it, NEW v, NEW p,
         st.s = "pop"
  PROVE  Exec(p, v, st, it, Run(e, r, l, c, o, g, t))
            = Run(e, r, Put(l, r[st.x], IF l[r[st.x]] = 0 THEN 0 ELSE l[r[st.x]] - 1), c, o, g, t)
<1> DEFINE m == Run(e, r, l, c, o, g, t)
<1>1. Exec(p, v, st, it, m) = [m EXCEPT !.len[m.ref[st.x]] = IF @ = 0 THEN 0 ELSE @ - 1] BY DEF Exec
<1>2. [m EXCEPT !.len[m.ref[st.x]] = IF @ = 0 THEN 0 ELSE @ - 1]
         = Run(e, r, Put(l, r[st.x], IF l[r[st.x]] = 0 THEN 0 ELSE l[r[st.x]] - 1), c, o, g, t)
  BY DEF Run, Put
<1> HIDE DEF m
<1>3. Exec(p, v, st, it, m)
         = Run(e, r, Put(l, r[st.x], IF l[r[st.x]] = 0 THEN 0 ELSE l[r[st.x]] - 1), c, o, g, t)
  BY <1>1, <1>2
<1> QED BY <1>3 DEF m

(* A new Vector has one element.                                            *)
LEMMA RenewIs ==
  ASSUME NEW e, NEW r, NEW l, NEW c, NEW o, NEW g, NEW t, NEW st, NEW it, NEW v, NEW p,
         st.s = "renew"
  PROVE  Exec(p, v, st, it, Run(e, r, l, c, o, g, t))
            = Run(e, Put(r, st.x, <<"new", st.x>>), Put(l, <<"new", st.x>>, 1), c, o, g, t)
<1> DEFINE m == Run(e, r, l, c, o, g, t)
<1>1. Exec(p, v, st, it, m) = [m EXCEPT !.ref[st.x] = <<"new", st.x>>, !.len[<<"new", st.x>>] = 1] BY DEF Exec
<1>2. [m EXCEPT !.ref[st.x] = <<"new", st.x>>, !.len[<<"new", st.x>>] = 1]
         = Run(e, Put(r, st.x, <<"new", st.x>>), Put(l, <<"new", st.x>>, 1), c, o, g, t)
  <2> DEFINE x == st.x
             w == <<"new", x>>
             n == Run(e, Put(r, x, w), l, c, o, g, t)
  <2>1. [m EXCEPT !.ref[x] = w] = n BY DEF Run, Put
  <2>2. [n EXCEPT !.len[w] = 1] = Run(e, Put(r, x, w), Put(l, w, 1), c, o, g, t) BY DEF Run, Put
  <2> HIDE DEF m, n, w, x
  <2>3. [m EXCEPT !.ref[x] = w, !.len[w] = 1] = [[m EXCEPT !.ref[x] = w] EXCEPT !.len[w] = 1] OBVIOUS
  <2>4. [m EXCEPT !.ref[x] = w, !.len[w] = 1] = Run(e, Put(r, x, w), Put(l, w, 1), c, o, g, t)
    BY <2>1, <2>2, <2>3
  <2> QED BY <2>4 DEF w, x
<1> HIDE DEF m
<1>3. Exec(p, v, st, it, m) = Run(e, Put(r, st.x, <<"new", st.x>>), Put(l, <<"new", st.x>>, 1), c, o, g, t)
  BY <1>1, <1>2
<1> QED BY <1>3 DEF m

(* An assignment to a local.                                                *)
LEMMA AssignIs ==
  ASSUME NEW e, NEW r, NEW l, NEW c, NEW o, NEW g, NEW t, NEW st, NEW it, NEW v, NEW p,
         st.s = "assign"
  PROVE  Exec(p, v, st, it, Run(e, r, l, c, o, g, t))
            = Run(Put(e, st.x, Value(st.val, Run(e, r, l, c, o, g, t))), r, l, c, o, g, t)
<1> DEFINE m == Run(e, r, l, c, o, g, t)
<1>1. Exec(p, v, st, it, m) = Assigned(m, st.x, Value(st.val, m)) BY DEF Exec
<1>2. Assigned(m, st.x, Value(st.val, m)) = Run(Put(e, st.x, Value(st.val, m)), r, l, c, o, g, t)
  BY AssignedIs
<1> HIDE DEF m
<1>3. Exec(p, v, st, it, m) = Run(Put(e, st.x, Value(st.val, m)), r, l, c, o, g, t) BY <1>1, <1>2
<1> QED BY <1>3 DEF m

(* An assignment to the static.                                             *)
LEMMA StaticIs ==
  ASSUME NEW e, NEW r, NEW l, NEW c, NEW o, NEW g, NEW t, NEW st, NEW it, NEW v, NEW p,
         st.s = "static"
  PROVE  Exec(p, v, st, it, Run(e, r, l, c, o, g, t))
            = Run(e, r, l, Value(st.val, Run(e, r, l, c, o, g, t)), o, g, t)
<1> DEFINE m == Run(e, r, l, c, o, g, t)
<1>1. Exec(p, v, st, it, m) = [m EXCEPT !.static = Value(st.val, m)] BY DEF Exec
<1>2. [m EXCEPT !.static = Value(st.val, m)] = Run(e, r, l, Value(st.val, m), o, g, t)
  BY DEF Run, Put
<1> HIDE DEF m
<1>3. Exec(p, v, st, it, m) = Run(e, r, l, Value(st.val, m), o, g, t) BY <1>1, <1>2
<1> QED BY <1>3 DEF m

-----------------------------------------------------------------------------
(* ---- the two runs ------------------------------------------------------------------ *)

(* What is left to do, without what is unchecked.                           *)
Bare(t) == [p \in DOMAIN t |-> Item(t[p].at, t[p].id, {})]

(* The run without the pass has the same memory and has done the same.      *)
Twins(b, a) ==
    /\ b \in Runs /\ Same(a, b)
    /\ b.out = a.out /\ b.log = a.log /\ b.todo = Bare(a.todo)

Good(b, a) ==
    /\ a \in Runs /\ Twins(b, a) /\ Apart(a)
    /\ Nest(a.todo) /\ AllSound(a, a.todo)
    /\ a.todo # <<>> => Waiting(Tail(a.todo))

(* An item is made of its parts.                                            *)
LEMMA ItemTyped ==
  ASSUME NEW at \in {"stmt", "cond", "update"}, NEW k \in Places, NEW fast \in SUBSET Places
  PROVE  /\ Item(at, k, fast) \in Items
         /\ Item(at, k, fast).at = at /\ Item(at, k, fast).id = k /\ Item(at, k, fast).fast = fast
BY DEF Item, Items, Places

(* The parts of an item.                                                    *)
LEMMA ItemIs ==
  ASSUME NEW it \in Items
  PROVE  it.at \in {"stmt", "cond", "update"} /\ it.id \in Places /\ it.fast \in SUBSET Places
BY DEF Items, Places

(* The block of a list of statements.                                       *)
LEMMA BlockIs ==
  ASSUME NEW ids \in Seq(Places), NEW fast \in SUBSET Places
  PROVE  /\ Block(ids, fast) \in Seq(Items) /\ DOMAIN Block(ids, fast) = DOMAIN ids
         /\ \A p \in DOMAIN ids : /\ Block(ids, fast)[p] = Item("stmt", ids[p], fast)
                                  /\ ids[p] \in Range(ids) /\ ids[p] \in Places
<1>1. \A p \in DOMAIN ids : Item("stmt", ids[p], fast) \in Items
  <2> SUFFICES ASSUME NEW p \in DOMAIN ids PROVE Item("stmt", ids[p], fast) \in Items OBVIOUS
  <2>1. ids[p] \in Places OBVIOUS
  <2> QED BY <2>1, ItemTyped
<1>2. \A p \in DOMAIN ids : ids[p] \in Range(ids) /\ ids[p] \in Places BY DEF Range
<1>3. DOMAIN ids = 1 .. Len(ids) /\ Len(ids) \in Nat OBVIOUS
<1>4. Block(ids, fast) = [p \in 1 .. Len(ids) |-> Item("stmt", ids[p], fast)] BY <1>3 DEF Block
<1>5. Block(ids, fast) \in Seq(Items)
  <2> DEFINE f == [p \in 1 .. Len(ids) |-> Item("stmt", ids[p], fast)]
  <2>1. f \in [1 .. Len(ids) -> Items] BY <1>1, <1>3
  <2> HIDE DEF f
  <2>2. f \in Seq(Items) BY <1>3, <2>1
  <2> QED BY <1>4, <2>2 DEF f
<1> QED BY <1>2, <1>3, <1>4, <1>5

(* Without what is unchecked, the items are the same ones.                  *)
LEMMA BareIs ==
  ASSUME NEW t \in Seq(Items)
  PROVE  /\ Bare(t) \in Seq(Items) /\ Len(Bare(t)) = Len(t) /\ DOMAIN Bare(t) = 1 .. Len(t)
         /\ \A p \in 1 .. Len(t) : Bare(t)[p] = Item(t[p].at, t[p].id, {})
<1>1. DOMAIN t = 1 .. Len(t) /\ Len(t) \in Nat OBVIOUS
<1>2. \A p \in 1 .. Len(t) : Item(t[p].at, t[p].id, {}) \in Items
  <2> SUFFICES ASSUME NEW p \in 1 .. Len(t) PROVE Item(t[p].at, t[p].id, {}) \in Items OBVIOUS
  <2>1. t[p] \in Items OBVIOUS
  <2>2. t[p].at \in {"stmt", "cond", "update"} /\ t[p].id \in Places BY <2>1, ItemIs
  <2> QED BY <2>2, ItemTyped
<1> DEFINE f == [p \in 1 .. Len(t) |-> Item(t[p].at, t[p].id, {})]
<1>3. Bare(t) = f BY <1>1 DEF Bare
<1>4. f \in [1 .. Len(t) -> Items] BY <1>2
<1>5. \A p \in 1 .. Len(t) : f[p] = Item(t[p].at, t[p].id, {}) OBVIOUS
<1> HIDE DEF f
<1>6. f \in Seq(Items) /\ Len(f) = Len(t) /\ DOMAIN f = 1 .. Len(t) BY <1>1, <1>4
<1> QED BY <1>3, <1>5, <1>6

(* The bare list of two lists in a row.                                     *)
LEMMA BareConcat ==
  ASSUME NEW s \in Seq(Items), NEW t \in Seq(Items)
  PROVE  Bare(s \o t) = Bare(s) \o Bare(t)
<1>1. s \o t \in Seq(Items) /\ Len(s \o t) = Len(s) + Len(t) /\ Len(s) \in Nat /\ Len(t) \in Nat OBVIOUS
<1>2. /\ Bare(s) \in Seq(Items) /\ Len(Bare(s)) = Len(s)
      /\ Bare(t) \in Seq(Items) /\ Len(Bare(t)) = Len(t)
      /\ Bare(s \o t) \in Seq(Items) /\ Len(Bare(s \o t)) = Len(s) + Len(t)
  BY <1>1, BareIs
<1>3. ASSUME NEW p \in 1 .. Len(s) + Len(t) PROVE Bare(s \o t)[p] = (Bare(s) \o Bare(t))[p]
  <2>1. Bare(s \o t)[p] = Item((s \o t)[p].at, (s \o t)[p].id, {}) BY <1>1, BareIs
  <2>2. CASE p <= Len(s)
    <3>1. (s \o t)[p] = s[p] /\ p \in 1 .. Len(s) BY <2>2, <1>1
    <3>2. (Bare(s) \o Bare(t))[p] = Bare(s)[p] BY <3>1, <1>2
    <3>3. Bare(s)[p] = Item(s[p].at, s[p].id, {}) BY <3>1, BareIs
    <3> QED BY <2>1, <3>1, <3>2, <3>3
  <2>3. CASE p > Len(s)
    <3>1. (s \o t)[p] = t[p - Len(s)] /\ p - Len(s) \in 1 .. Len(t) BY <2>3, <1>1
    <3>2. (Bare(s) \o Bare(t))[p] = Bare(t)[p - Len(s)] BY <2>3, <3>1, <1>1, <1>2
    <3>3. Bare(t)[p - Len(s)] = Item(t[p - Len(s)].at, t[p - Len(s)].id, {}) BY <3>1, BareIs
    <3> QED BY <2>1, <3>1, <3>2, <3>3
  <2>4. p <= Len(s) \/ p > Len(s) BY <1>1
  <2> QED BY <2>2, <2>3, <2>4
<1> DEFINE a == Bare(s)
           b == Bare(t)
           c == Bare(s \o t)
<1>4. a \in Seq(Items) /\ b \in Seq(Items) /\ Len(a) = Len(s) /\ Len(b) = Len(t) BY <1>2
<1> HIDE DEF a, b, c
<1>5. a \o b \in Seq(Items) /\ Len(a \o b) = Len(s) + Len(t) BY <1>4
<1>6. c \in Seq(Items) /\ Len(c) = Len(s) + Len(t) BY <1>2 DEF c
<1>7. \A p \in 1 .. Len(s) + Len(t) : c[p] = (a \o b)[p] BY <1>3 DEF a, b, c
<1>8. c = a \o b BY <1>5, <1>6, <1>7
<1> QED BY <1>8 DEF a, b, c

(* The bare list of a block.                                                *)
LEMMA BareBlock ==
  ASSUME NEW ids \in Seq(Places), NEW fast \in SUBSET Places
  PROVE  Bare(Block(ids, fast)) = Block(ids, {})
<1>1. \A p \in DOMAIN ids : Item(Block(ids, fast)[p].at, Block(ids, fast)[p].id, {}) = Item("stmt", ids[p], {})
  <2> SUFFICES ASSUME NEW p \in DOMAIN ids
               PROVE  Item(Block(ids, fast)[p].at, Block(ids, fast)[p].id, {}) = Item("stmt", ids[p], {})
    OBVIOUS
  <2>1. Block(ids, fast)[p] = Item("stmt", ids[p], fast) /\ ids[p] \in Places BY BlockIs
  <2> QED BY <2>1, ItemTyped
<1>2. DOMAIN Block(ids, fast) = DOMAIN ids BY BlockIs
<1>3. Bare(Block(ids, fast)) = [p \in DOMAIN ids |-> Item(Block(ids, fast)[p].at, Block(ids, fast)[p].id, {})]
  BY <1>2 DEF Bare
<1>4. Block(ids, {}) = [p \in DOMAIN ids |-> Item("stmt", ids[p], {})] BY DEF Block
<1> QED BY <1>1, <1>3, <1>4

(* The bare list of one item.                                               *)
LEMMA BareOne ==
  ASSUME NEW at \in {"stmt", "cond", "update"}, NEW k \in Places, NEW fast \in SUBSET Places
  PROVE  <<Item(at, k, fast)>> \in Seq(Items) /\ Bare(<<Item(at, k, fast)>>) = <<Item(at, k, {})>>
<1>1. Item(at, k, fast) \in Items /\ Item(at, k, fast).at = at /\ Item(at, k, fast).id = k BY ItemTyped
<1> DEFINE s == <<Item(at, k, fast)>>
<1>2. s \in Seq(Items) /\ Len(s) = 1 /\ s[1] = Item(at, k, fast) BY <1>1
<1> HIDE DEF s
<1>3. Bare(s) \in Seq(Items) /\ Len(Bare(s)) = 1 /\ Bare(s)[1] = Item(s[1].at, s[1].id, {}) BY <1>2, BareIs
<1>4. Bare(s)[1] = Item(at, k, {}) BY <1>1, <1>2, <1>3
<1>5. Bare(s) = <<Item(at, k, {})>> BY <1>3, <1>4
<1> QED BY <1>2, <1>5 DEF s

(* The bare list without its first items.                                   *)
LEMMA BareDrop ==
  ASSUME NEW t \in Seq(Items), NEW d \in 1 .. Len(t) + 1
  PROVE  Bare(SubSeq(t, d, Len(t))) = SubSeq(Bare(t), d, Len(t))
<1> DEFINE u == SubSeq(t, d, Len(t))
           w == SubSeq(Bare(t), d, Len(t))
           n == Len(t) - d + 1
<1>1. u \in Seq(Items) /\ Len(u) = n /\ \A p \in 1 .. n : u[p] = t[p + d - 1] /\ p + d - 1 \in 1 .. Len(t) OBVIOUS
<1>2. Bare(t) \in Seq(Items) /\ Len(Bare(t)) = Len(t) BY BareIs
<1>3. w \in Seq(Items) /\ Len(w) = n /\ \A p \in 1 .. n : w[p] = Bare(t)[p + d - 1] BY <1>2
<1> HIDE DEF u, w, n
<1>4. Bare(u) \in Seq(Items) /\ Len(Bare(u)) = n /\ \A p \in 1 .. n : Bare(u)[p] = Item(u[p].at, u[p].id, {})
  BY <1>1, BareIs
<1>5. \A p \in 1 .. n : Bare(u)[p] = w[p]
  <2> SUFFICES ASSUME NEW p \in 1 .. n PROVE Bare(u)[p] = w[p] OBVIOUS
  <2>1. u[p] = t[p + d - 1] /\ p + d - 1 \in 1 .. Len(t) /\ w[p] = Bare(t)[p + d - 1] BY <1>1, <1>3
  <2>2. Bare(t)[p + d - 1] = Item(t[p + d - 1].at, t[p + d - 1].id, {}) BY <2>1, BareIs
  <2> QED BY <2>1, <2>2, <1>4
<1>6. Bare(u) = w BY <1>3, <1>4, <1>5
<1> QED BY <1>6 DEF u, w

(* The first of a bare list, and the others.                                *)
LEMMA BareHead ==
  ASSUME NEW t \in Seq(Items), t # <<>>
  PROVE  /\ Bare(t) # <<>> /\ Head(Bare(t)) = Item(Head(t).at, Head(t).id, {})
         /\ Tail(Bare(t)) = Bare(Tail(t))
<1>1. Len(t) \in Nat \ {0} /\ Head(t) = t[1] /\ Tail(t) = SubSeq(t, 2, Len(t)) /\ 2 \in 1 .. Len(t) + 1 OBVIOUS
<1>2. Bare(t) \in Seq(Items) /\ Len(Bare(t)) = Len(t) /\ Bare(t)[1] = Item(t[1].at, t[1].id, {}) BY <1>1, BareIs
<1>3. Bare(t) # <<>> /\ Head(Bare(t)) = Bare(t)[1] /\ Tail(Bare(t)) = SubSeq(Bare(t), 2, Len(t)) BY <1>1, <1>2
<1> QED BY <1>1, <1>2, <1>3, BareDrop

(* The innermost loop is below the statement, and the same in both runs.    *)
LEMMA InnermostIs ==
  ASSUME NEW t \in Seq(Items)
  PROVE  Innermost(t) \in 1 .. Len(t) + 1 /\ Innermost(Bare(t)) = Innermost(t)
<1> DEFINE S(u) == {k \in DOMAIN u : u[k].at = "update"} \cup {Len(u) + 1}
           T == 0 .. Len(t) + 1
           R == {k \in T : \A j \in S(t) : k <= j}
<1>1. DOMAIN t = 1 .. Len(t) /\ Len(t) \in Nat OBVIOUS
<1>2. DOMAIN Bare(t) = DOMAIN t /\ Len(Bare(t)) = Len(t) BY <1>1, BareIs
<1>3. \A k \in DOMAIN t : Bare(t)[k].at = t[k].at
  <2> SUFFICES ASSUME NEW k \in DOMAIN t PROVE Bare(t)[k].at = t[k].at OBVIOUS
  <2>1. Bare(t)[k] = Item(t[k].at, t[k].id, {}) BY <1>1, BareIs
  <2> QED BY <2>1 DEF Item
<1>4. S(Bare(t)) = S(t) BY <1>2, <1>3
<1>5. \A u : Innermost(u) = Min(S(u)) BY DEF Innermost
<1>6. S(t) \subseteq 1 .. Len(t) + 1 /\ Len(t) + 1 \in S(t) BY <1>1
<1> HIDE DEF S
<1>7. \E k \in S(t) : \A j \in S(t) : k <= j
  <2> SUFFICES ASSUME \A k \in S(t) : \E j \in S(t) : ~(k <= j) PROVE FALSE OBVIOUS
  <2>1. 0 \in R BY <1>1, <1>6
  <2>2. ASSUME NEW k \in 0 .. Len(t), k \in R PROVE k + 1 \in R
    <3>1. k \notin S(t) BY <2>2
    <3>2. \A j \in S(t) : k <= j /\ k # j /\ j \in Int BY <2>2, <3>1, <1>6
    <3>3. \A j \in S(t) : k + 1 <= j BY <3>2
    <3> QED BY <3>3, <1>1
  <2> HIDE DEF R
  <2>3. 0 .. Len(t) + 1 \subseteq R
    <3>1. Len(t) + 1 \in Nat /\ (Len(t) + 1) - 1 = Len(t) BY <1>1
    <3> QED BY <3>1, <2>1, <2>2, Induction
  <2>4. Len(t) + 1 \in R BY <2>3, <1>1
  <2> QED BY <2>4, <1>1, <1>6 DEF R
<1>8. Min(S(t)) \in S(t) BY <1>7 DEF Min
<1> QED BY <1>4, <1>5, <1>6, <1>8

-----------------------------------------------------------------------------
(* ---- each step keeps the two runs together ------------------------------------------- *)

(* The two runs after a step that leaves both with memory e, r, l, c.       *)
LEMMA GoodMade ==
  ASSUME NEW e \in [Locals -> Int], NEW r \in [Vectors -> Objects], NEW l \in [Objects -> Nat], NEW c \in Int,
         NEW o \in {"running", "RangeError"}, NEW g \in Seq({"get", "set"} \X Objects \X Int),
         NEW t \in Seq(Items), Nest(t), t # <<>> => Waiting(Tail(t)),
         Apart(Run(e, r, l, c, o, g, t)), AllSound(Run(e, r, l, c, o, g, t), t)
  PROVE  Good(Run(e, r, l, c, o, g, Bare(t)), Run(e, r, l, c, o, g, t))
<1>1. Bare(t) \in Seq(Items) BY BareIs
<1>2. Run(e, r, l, c, o, g, t) \in Runs BY RunMade
<1>3. Run(e, r, l, c, o, g, Bare(t)) \in Runs BY <1>1, RunMade
<1>4. Run(e, r, l, c, o, g, t).todo = t BY RunParts
<1>5. Twins(Run(e, r, l, c, o, g, Bare(t)), Run(e, r, l, c, o, g, t))
  BY <1>3, RunParts DEF Twins, Same
<1> QED BY <1>2, <1>4, <1>5 DEF Good

(* The parts of the two runs before a step.                                 *)
LEMMA StepFrom ==
  ASSUME NEW a, NEW b, Good(b, a), a.todo # <<>>
  PROVE  LET it == Head(a.todo)
             t  == Tail(a.todo)
         IN  /\ it \in Items /\ it.id \in Places /\ it.fast \in SUBSET Places
             /\ t \in Seq(Items) /\ Nest(t) /\ Waiting(t) /\ AllSound(a, t)
             /\ Active(it) => Sound(a, it) /\ try_version(program, it.id) # {}
             /\ it.at # "stmt" => program.code[it.id].s = "for"
             /\ \A q \in DOMAIN t : Active(t[q]) => Inside(it.id, t[q].id)
             /\ \A k \in it.fast : \/ Active(it) /\ it.id = k
                                   \/ \E q \in DOMAIN t : Active(t[q]) /\ t[q].id = k
             /\ a \in Runs /\ b \in Runs /\ Same(a, b) /\ Apart(a)
             /\ b.todo # <<>> /\ Head(b.todo) = Item(it.at, it.id, {}) /\ Tail(b.todo) = Bare(t)
             /\ Rest(a) = Run(a.env, a.ref, a.len, a.static, a.out, a.log, t)
             /\ Rest(b) = Run(a.env, a.ref, a.len, a.static, a.out, a.log, Bare(t))
             /\ Rest(a) \in Runs /\ Rest(b) \in Runs /\ Same(a, Rest(a)) /\ Same(a, Rest(b))
<1> DEFINE it == Head(a.todo)
           t  == Tail(a.todo)
<1>1. a \in Runs /\ b \in Runs /\ Same(a, b) /\ Apart(a) /\ b.out = a.out /\ b.log = a.log
      /\ b.todo = Bare(a.todo) /\ Nest(a.todo) /\ AllSound(a, a.todo) /\ Waiting(t)
  BY DEF Good, Twins
<1>2. a.todo \in Seq(Items) BY <1>1, RunTyped
<1>3. /\ it \in Items /\ t \in Seq(Items) /\ Nest(t)
      /\ AllSound(a, t) /\ (Active(it) => Sound(a, it))
      /\ \A q \in DOMAIN t : Active(t[q]) => Inside(it.id, t[q].id)
      /\ \A k \in it.fast : \/ Active(it) /\ it.id = k
                            \/ \E q \in DOMAIN t : Active(t[q]) /\ t[q].id = k
      /\ it.at # "stmt" => program.code[it.id].s = "for"
      /\ Active(it) => try_version(program, it.id) # {}
  BY <1>1, <1>2, NestTail
<1>4. it.id \in Places /\ it.fast \in SUBSET Places BY <1>3, ItemIs
<1>5. b.todo # <<>> /\ Head(b.todo) = Item(it.at, it.id, {}) /\ Tail(b.todo) = Bare(t)
  BY <1>1, <1>2, BareHead
<1>6. /\ Rest(a) = Run(a.env, a.ref, a.len, a.static, a.out, a.log, t)
      /\ Rest(a) \in Runs /\ Same(a, Rest(a))
  BY <1>1, RestTyped
<1>7. /\ Rest(b) = Run(b.env, b.ref, b.len, b.static, b.out, b.log, Bare(t))
      /\ Rest(b) \in Runs /\ Same(b, Rest(b))
  BY <1>1, <1>5, RestTyped
<1>8. /\ Rest(b) = Run(a.env, a.ref, a.len, a.static, a.out, a.log, Bare(t))
      /\ Same(a, Rest(b))
  BY <1>1, <1>7 DEF Same
<1> HIDE DEF it, t
<1>9. /\ it \in Items /\ it.id \in Places /\ it.fast \in SUBSET Places
      /\ t \in Seq(Items) /\ Nest(t) /\ Waiting(t) /\ AllSound(a, t)
      /\ Active(it) => Sound(a, it) /\ try_version(program, it.id) # {}
      /\ it.at # "stmt" => program.code[it.id].s = "for"
      /\ \A q \in DOMAIN t : Active(t[q]) => Inside(it.id, t[q].id)
      /\ \A k \in it.fast : \/ Active(it) /\ it.id = k
                            \/ \E q \in DOMAIN t : Active(t[q]) /\ t[q].id = k
  BY <1>1, <1>3, <1>4
<1>10. /\ a \in Runs /\ b \in Runs /\ Same(a, b) /\ Apart(a)
       /\ b.todo # <<>> /\ Head(b.todo) = Item(it.at, it.id, {}) /\ Tail(b.todo) = Bare(t)
       /\ Rest(a) = Run(a.env, a.ref, a.len, a.static, a.out, a.log, t)
       /\ Rest(b) = Run(a.env, a.ref, a.len, a.static, a.out, a.log, Bare(t))
       /\ Rest(a) \in Runs /\ Rest(b) \in Runs /\ Same(a, Rest(a)) /\ Same(a, Rest(b))
  BY <1>1, <1>5, <1>6, <1>7, <1>8
<1> QED BY <1>9, <1>10 DEF it, t

(* A run that goes on with something else.                                  *)
LEMMA RestDoing ==
  ASSUME NEW a, NEW b, Good(b, a), a.todo # <<>>, NEW u
  PROVE  /\ Doing(Rest(a), u) = Run(a.env, a.ref, a.len, a.static, a.out, a.log, u)
         /\ Doing(Rest(b), u) = Run(a.env, a.ref, a.len, a.static, a.out, a.log, u)
         /\ Rest(a).todo = Tail(a.todo) /\ Rest(b).todo = Bare(Tail(a.todo))
<1>1. /\ Rest(a) = Run(a.env, a.ref, a.len, a.static, a.out, a.log, Tail(a.todo))
      /\ Rest(b) = Run(a.env, a.ref, a.len, a.static, a.out, a.log, Bare(Tail(a.todo)))
  BY StepFrom
<1> QED BY <1>1, DoingIs, RunParts

(* The two statements that are run.                                         *)
LEMMA StatementSteps ==
  ASSUME NEW a, NEW b, Good(b, a), a.todo # <<>>, Head(a.todo).at = "stmt", NEW v, NEW w
  PROVE  LET it == Head(a.todo)
             st == program.code[it.id]
         IN  /\ Step(program, v, a) = Exec(program, v, st, it, Rest(a))
             /\ Step(program, w, b) = Exec(program, w, st, Item("stmt", it.id, {}), Rest(b))
<1> DEFINE it == Head(a.todo)
<1>1. b.todo # <<>> /\ Head(b.todo) = Item("stmt", it.id, {}) /\ it.id \in Places BY StepFrom
<1>2. Item("stmt", it.id, {}).at = "stmt" /\ Item("stmt", it.id, {}).id = it.id BY <1>1, ItemTyped
<1>3. Step(program, v, a) = Exec(program, v, program.code[it.id], it, Rest(a)) BY StepStatement
<1>4. Step(program, w, b) = Exec(program, w, program.code[it.id], Item("stmt", it.id, {}), Rest(b))
  BY <1>1, <1>2, StepStatement
<1> QED BY <1>3, <1>4

(* What is known of a loop whose unchecked copy the next statement, which    *)
(* does not only read, is in.                                               *)
LEMMA Around ==
  ASSUME program \in Programs, BoundsHold, NEW m, NEW t \in Seq(Items), Nest(t), Waiting(t), AllSound(m, t),
         NEW q \in DOMAIN t, Active(t[q])
  PROVE  /\ t[q] \in Items /\ t[q].id \in Places /\ t[q].at = "update" /\ Sound(m, t[q])
         /\ program.code[t[q].id].s = "for" /\ try_version(program, t[q].id) # {}
<1>1. t[q] \in Items OBVIOUS
<1>2. t[q].at = "update" BY DEF Waiting, Active
<1>3. program.code[t[q].id].s = "for" /\ try_version(program, t[q].id) # {} BY <1>2 DEF Nest
<1>4. Sound(m, t[q]) BY DEF AllSound
<1> QED BY <1>1, <1>2, <1>3, <1>4, ItemIs

(* Without its first item, a waiting list is waiting.                       *)
LEMMA WaitingTail ==
  ASSUME NEW t \in Seq(Items), Waiting(t), t # <<>>
  PROVE  Waiting(Tail(t))
<1>1. \A p \in DOMAIN Tail(t) : p + 1 \in DOMAIN t /\ Tail(t)[p] = t[p + 1] OBVIOUS
<1> QED BY <1>1 DEF Waiting

(* A step that changes only what is left to do.                             *)
LEMMA ControlGood ==
  ASSUME program \in Programs, NEW a, NEW b, Good(b, a), NEW u \in Seq(Items), Nest(u),
         u # <<>> => Waiting(Tail(u)), AllSound(a, u)
  PROVE  Good(Run(a.env, a.ref, a.len, a.static, a.out, a.log, Bare(u)),
              Run(a.env, a.ref, a.len, a.static, a.out, a.log, u))
<1> DEFINE n == Run(a.env, a.ref, a.len, a.static, a.out, a.log, u)
<1>1. a \in Runs /\ Apart(a) BY DEF Good
<1>2. n \in Runs /\ Same(a, n) BY <1>1, DoingTyped
<1>3. Apart(n) BY <1>1, <1>2 DEF Apart, Same
<1>4. AllSound(n, u)
  <2> SUFFICES ASSUME NEW p \in DOMAIN u, Active(u[p]) PROVE Sound(n, u[p]) BY DEF AllSound
  <2>1. u[p] \in Items OBVIOUS
  <2>2. Sound(a, u[p]) BY DEF AllSound
  <2>3. program.code[u[p].id].s = "for" BY DEF Nest, Active
  <2> HIDE DEF n
  <2> QED BY <2>1, <2>2, <2>3, <1>1, <1>2, KeptSame
<1>5. /\ a.env \in [Locals -> Int] /\ a.ref \in [Vectors -> Objects] /\ a.len \in [Objects -> Nat]
      /\ a.static \in Int /\ a.out \in {"running", "RangeError"}
      /\ a.log \in Seq({"get", "set"} \X Objects \X Int)
  BY <1>1, RunTyped
<1> QED BY <1>3, <1>4, <1>5, GoodMade

(* Running a block: the list of statements comes first.                     *)
LEMMA PushBlock ==
  ASSUME NEW t \in Seq(Items), Nest(t), NEW ids \in Seq(Places), NEW fast \in SUBSET Places,
         \A k \in fast : \E q \in DOMAIN t : Active(t[q]) /\ t[q].id = k,
         \A i \in Range(ids) : \A q \in DOMAIN t : Active(t[q]) => Inside(i, t[q].id)
  PROVE  LET u == Block(ids, fast) \o t
         IN  /\ u \in Seq(Items) /\ Nest(u) /\ (Waiting(t) => Waiting(u))
             /\ \A m : AllSound(m, t) => AllSound(m, u)
             /\ Bare(u) = Block(ids, {}) \o Bare(t)
<1> DEFINE s == Block(ids, fast)
<1>1. /\ s \in Seq(Items) /\ DOMAIN s = DOMAIN ids
      /\ \A p \in DOMAIN ids : s[p] = Item("stmt", ids[p], fast) /\ ids[p] \in Range(ids) /\ ids[p] \in Places
  BY BlockIs
<1>2. Bare(s) = Block(ids, {}) BY BareBlock
<1> HIDE DEF s
<1>3. ASSUME NEW p \in DOMAIN s
      PROVE  /\ s[p].at = "stmt"
             /\ \A k \in s[p].fast : \E q \in DOMAIN t : Active(t[q]) /\ t[q].id = k
             /\ \A q \in DOMAIN t : Active(t[q]) => Inside(s[p].id, t[q].id)
  <2>1. s[p] = Item("stmt", ids[p], fast) /\ ids[p] \in Range(ids) /\ ids[p] \in Places BY <1>1
  <2>2. s[p].at = "stmt" /\ s[p].id = ids[p] /\ s[p].fast = fast BY <2>1, ItemTyped
  <2> QED BY <2>1, <2>2
<1>4. /\ s \o t \in Seq(Items) /\ Nest(s \o t) /\ (Waiting(t) => Waiting(s \o t))
      /\ \A m : AllSound(m, t) => AllSound(m, s \o t)
  BY <1>1, <1>3, NestBlock
<1>5. Bare(s \o t) = Block(ids, {}) \o Bare(t) BY <1>1, <1>2, BareConcat
<1> QED BY <1>4, <1>5 DEF s

(* What a statement of a loop's body enters is in the loop's body.          *)
LEMMA EnteredInside ==
  ASSUME program \in Programs, NEW j \in Places, NEW k \in Places, Inside(j, k), program.code[j].s # "get",
         NEW i \in Entered(program.code[j])
  PROVE  Inside(i, k)
<1>1. Entered(program.code[j]) \subseteq Places BY EnteredTyped
<1>2. j \in Walk(program, k) BY DEF Inside
<1> QED BY <1>1, <1>2, WalkIs DEF Inside

(* What each statement enters.                                              *)
LEMMA EnteredIs ==
  ASSUME NEW st
  PROVE  /\ st.s = "if" => Entered(st) = Range(st.a) \cup Range(st.b)
         /\ st.s \in {"switch", "for"} => Entered(st) = Range(st.body)
<1>1. st.s = "if" => Entered(st) = Range(st.a) \cup Range(st.b) BY DEF Entered
<1>2. st.s \in {"switch", "for"} => Entered(st) = Range(st.body) BY DEF Entered
<1> QED BY <1>1, <1>2

(* Continue and break.                                                      *)
LEMMA LeaveStep ==
  ASSUME program \in Programs, NEW a, NEW b, Good(b, a), a.todo # <<>>, Head(a.todo).at = "stmt",
         program.code[Head(a.todo).id].s \in {"continue", "break"}, NEW v, NEW w
  PROVE  Good(Step(program, w, b), Step(program, v, a))
<1> DEFINE it == Head(a.todo)
           st == program.code[it.id]
           t  == Tail(a.todo)
           do(u) == Run(a.env, a.ref, a.len, a.static, a.out, a.log, u)
           d  == IF st.s = "continue" THEN Innermost(t) ELSE Innermost(t) + 1
<1>1. /\ t \in Seq(Items) /\ Nest(t) /\ Waiting(t) /\ AllSound(a, t)
      /\ Rest(a) = do(t) /\ Rest(b) = do(Bare(t))
  BY StepFrom
<1>2. /\ Step(program, v, a) = Exec(program, v, st, it, Rest(a))
      /\ Step(program, w, b) = Exec(program, w, st, Item("stmt", it.id, {}), Rest(b))
  BY StatementSteps
<1>5. st.s = "continue" \/ (st.s = "break" /\ st.s # "continue") OBVIOUS
<1>20. /\ \A u : Doing(Rest(a), u) = do(u) /\ Doing(Rest(b), u) = do(u)
       /\ Rest(a).todo = t /\ Rest(b).todo = Bare(t)
  BY RestDoing
<1> HIDE DEF it, st, t, do
<1>3. Innermost(t) \in 1 .. Len(t) + 1 /\ Innermost(Bare(t)) = Innermost(t) BY <1>1, InnermostIs
<1>4. Len(Bare(t)) = Len(t) /\ Len(t) \in Nat BY <1>1, BareIs
<1>6. Step(program, v, a) = do(SubSeq(t, d, Len(t)))
  <2>1. Exec(program, v, st, it, Rest(a)) = Doing(Rest(a), SubSeq(Rest(a).todo, d, Len(Rest(a).todo)))
    BY <1>5, <1>20 DEF Exec
  <2> QED BY <2>1, <1>2, <1>20
<1>7. Step(program, w, b) = do(SubSeq(Bare(t), d, Len(t)))
  <2>1. Exec(program, w, st, Item("stmt", it.id, {}), Rest(b))
           = Doing(Rest(b), SubSeq(Rest(b).todo, d, Len(Rest(b).todo)))
    BY <1>3, <1>5, <1>20 DEF Exec
  <2> QED BY <2>1, <1>2, <1>4, <1>20
<1> DEFINE u == SubSeq(t, d, Len(t))
<1>8. u \in Seq(Items) /\ Nest(u) /\ AllSound(a, u) /\ Waiting(u) /\ Bare(u) = SubSeq(Bare(t), d, Len(t))
  <2>1. CASE d \in 1 .. Len(t) + 1 BY <2>1, <1>1, NestDrop, BareDrop
  <2>2. CASE d = Len(t) + 2
    <3>1. SubSeq(t, d, Len(t)) = SubSeq(t, Len(t) + 1, Len(t)) BY <2>2, <1>1, <1>3
    <3>2. SubSeq(Bare(t), d, Len(t)) = SubSeq(Bare(t), Len(t) + 1, Len(t))
      <4>1. Bare(t) \in Seq(Items) BY <1>1, BareIs
      <4> QED BY <4>1, <2>2, <1>3
    <3>3. Len(t) + 1 \in 1 .. Len(t) + 1 BY <1>3
    <3> QED BY <3>1, <3>2, <3>3, <1>1, NestDrop, BareDrop
  <2>3. d \in 1 .. Len(t) + 1 \/ d = Len(t) + 2 BY <1>3
  <2> QED BY <2>1, <2>2, <2>3
<1> HIDE DEF u, d
<1>9. u # <<>> => Waiting(Tail(u)) BY <1>8, WaitingTail
<1>10. Good(do(Bare(u)), do(u)) BY <1>8, <1>9, ControlGood DEF do
<1> QED BY <1>6, <1>7, <1>8, <1>10 DEF u

(* A branch.                                                                *)
LEMMA IfStep ==
  ASSUME program \in Programs, NEW a, NEW b, Good(b, a), a.todo # <<>>, Head(a.todo).at = "stmt",
         program.code[Head(a.todo).id].s = "if", NEW v, NEW w
  PROVE  Good(Step(program, w, b), Step(program, v, a))
<1> DEFINE it == Head(a.todo)
           st == program.code[it.id]
           t  == Tail(a.todo)
           do(u) == Run(a.env, a.ref, a.len, a.static, a.out, a.log, u)
           holds(m) == \A k \in DOMAIN st.c : Holds(st.c[k], m)
           ids == IF holds(Rest(a)) THEN st.a ELSE st.b
<1>1. /\ t \in Seq(Items) /\ Nest(t) /\ Waiting(t) /\ AllSound(a, t)
      /\ it \in Items /\ it.id \in Places /\ it.fast \in SUBSET Places
      /\ \A q \in DOMAIN t : Active(t[q]) => Inside(it.id, t[q].id)
      /\ \A k \in it.fast : \/ Active(it) /\ it.id = k
                            \/ \E q \in DOMAIN t : Active(t[q]) /\ t[q].id = k
      /\ Rest(a) = do(t) /\ Rest(b) = do(Bare(t)) /\ Rest(a) \in Runs /\ Rest(b) \in Runs
      /\ Same(a, Rest(a)) /\ Same(a, Rest(b))
  BY StepFrom
<1>2. /\ Step(program, v, a) = Exec(program, v, st, it, Rest(a))
      /\ Step(program, w, b) = Exec(program, w, st, Item("stmt", it.id, {}), Rest(b))
  BY StatementSteps
<1>3. st.c \in Seq(Conds) /\ st.a \in Seq(Places) /\ st.b \in Seq(Places)
  BY <1>1, CodeTyped, StatementTyped
<1>4. ~Active(it) BY DEF Active
<1>5. Item("stmt", it.id, {}).fast = {} BY <1>1, ItemTyped
<1>6. Entered(st) = Range(st.a) \cup Range(st.b) BY EnteredIs
<1>7. \A i \in Range(st.a) \cup Range(st.b) : \A q \in DOMAIN t : Active(t[q]) => Inside(i, t[q].id)
  <2> SUFFICES ASSUME NEW i \in Entered(st), NEW q \in DOMAIN t, Active(t[q]) PROVE Inside(i, t[q].id)
    BY <1>6
  <2>1. t[q] \in Items BY <1>1
  <2>2. t[q].id \in Places BY <2>1, ItemIs
  <2> QED BY <1>1, <2>2, EnteredInside
<1>8. st.s = "if" OBVIOUS
<1>20. /\ \A u : Doing(Rest(a), u) = do(u) /\ Doing(Rest(b), u) = do(u)
       /\ Rest(a).todo = t /\ Rest(b).todo = Bare(t)
  BY RestDoing
<1> HIDE DEF it, st, t, do
<1>9. holds(Rest(a)) <=> holds(Rest(b))
  <2>1. ASSUME NEW k \in DOMAIN st.c PROVE Holds(st.c[k], Rest(a)) <=> Holds(st.c[k], Rest(b))
    <3>1. st.c[k] \in Conds BY <1>3
    <3>2. st.c[k].a \in Exprs /\ st.c[k].b \in Exprs BY <3>1 DEF Conds
    <3>3. Same(Rest(a), Rest(b)) BY <1>1 DEF Same
    <3> QED BY <3>2, <3>3, <1>1, HoldsSame
  <2> QED BY <2>1
<1>10. Step(program, v, a) = do(Block(ids, it.fast) \o t)
  <2>1. Exec(program, v, st, it, Rest(a)) = Doing(Rest(a), Block(ids, it.fast) \o Rest(a).todo)
    BY <1>8 DEF Exec
  <2> QED BY <2>1, <1>2, <1>20
<1>11. Step(program, w, b) = do(Block(ids, {}) \o Bare(t))
  <2>1. Exec(program, w, st, Item("stmt", it.id, {}), Rest(b))
           = Doing(Rest(b), Block(IF holds(Rest(b)) THEN st.a ELSE st.b, {}) \o Rest(b).todo)
    BY <1>5, <1>8 DEF Exec
  <2>2. (IF holds(Rest(b)) THEN st.a ELSE st.b) = ids BY <1>9
  <2> HIDE DEF ids, holds
  <2> QED BY <2>1, <2>2, <1>2, <1>20
<1>12. ids \in Seq(Places) /\ \A i \in Range(ids) : \A q \in DOMAIN t : Active(t[q]) => Inside(i, t[q].id)
  BY <1>3, <1>7
<1> DEFINE u == Block(ids, it.fast) \o t
<1> HIDE DEF ids
<1>13. \A k \in it.fast : \E q \in DOMAIN t : Active(t[q]) /\ t[q].id = k BY <1>1, <1>4
<1>14. u \in Seq(Items) /\ Nest(u) /\ AllSound(a, u) /\ Waiting(u) /\ Bare(u) = Block(ids, {}) \o Bare(t)
  BY <1>1, <1>12, <1>13, PushBlock
<1> HIDE DEF u
<1>15. u # <<>> => Waiting(Tail(u)) BY <1>14, WaitingTail
<1>16. Good(do(Bare(u)), do(u)) BY <1>14, <1>15, ControlGood DEF do
<1> QED BY <1>10, <1>11, <1>14, <1>16 DEF u

(* A switch runs its test, which only reads, and then its case.             *)
LEMMA SwitchStep ==
  ASSUME program \in Programs, NothingHidden, NEW a, NEW b, Good(b, a), a.todo # <<>>, Head(a.todo).at = "stmt",
         program.code[Head(a.todo).id].s = "switch", NEW v, NEW w
  PROVE  Good(Step(program, w, b), Step(program, v, a))
<1> DEFINE it == Head(a.todo)
           st == program.code[it.id]
           t  == Tail(a.todo)
           do(u) == Run(a.env, a.ref, a.len, a.static, a.out, a.log, u)
<1>1. /\ t \in Seq(Items) /\ Nest(t) /\ Waiting(t) /\ AllSound(a, t)
      /\ it \in Items /\ it.id \in Places /\ it.fast \in SUBSET Places
      /\ \A q \in DOMAIN t : Active(t[q]) => Inside(it.id, t[q].id)
      /\ \A k \in it.fast : \/ Active(it) /\ it.id = k
                            \/ \E q \in DOMAIN t : Active(t[q]) /\ t[q].id = k
  BY StepFrom
<1>2. /\ Step(program, v, a) = Exec(program, v, st, it, Rest(a))
      /\ Step(program, w, b) = Exec(program, w, st, Item("stmt", it.id, {}), Rest(b))
  BY StatementSteps
<1>3. st.test \in Places /\ st.body \in Seq(Places) BY <1>1, CodeTyped, StatementTyped
<1>4. ~Active(it) BY DEF Active
<1>5. Item("stmt", it.id, {}).fast = {} BY <1>1, ItemTyped
<1>6. Entered(st) = Range(st.body) BY EnteredIs
<1>7. \A i \in Range(st.body) : \A q \in DOMAIN t : Active(t[q]) => Inside(i, t[q].id)
  <2> SUFFICES ASSUME NEW i \in Entered(st), NEW q \in DOMAIN t, Active(t[q]) PROVE Inside(i, t[q].id)
    BY <1>6
  <2>1. t[q] \in Items BY <1>1
  <2>2. t[q].id \in Places BY <2>1, ItemIs
  <2> QED BY <1>1, <2>2, EnteredInside
<1>8. st.s = "switch" OBVIOUS
<1>9. /\ \A u : Doing(Rest(a), u) = do(u) /\ Doing(Rest(b), u) = do(u)
      /\ Rest(a).todo = t /\ Rest(b).todo = Bare(t)
  BY RestDoing
<1>10. \A k : Inside(st.test, k) BY <1>1, HiddenIs DEF Inside
<1> HIDE DEF it, st, t, do
<1> DEFINE u1 == Block(st.body, it.fast) \o t
           u2 == Block(<<st.test>>, {}) \o u1
<1>11. Step(program, v, a) = do(u2)
  <2>1. Exec(program, v, st, it, Rest(a))
           = Doing(Rest(a), Block(<<st.test>>, {}) \o (Block(st.body, it.fast) \o Rest(a).todo))
    BY <1>8 DEF Exec
  <2> QED BY <2>1, <1>2, <1>9
<1>12. Step(program, w, b) = do(Block(<<st.test>>, {}) \o (Block(st.body, {}) \o Bare(t)))
  <2>1. Exec(program, w, st, Item("stmt", it.id, {}), Rest(b))
           = Doing(Rest(b), Block(<<st.test>>, {}) \o (Block(st.body, {}) \o Rest(b).todo))
    BY <1>5, <1>8 DEF Exec
  <2> QED BY <2>1, <1>2, <1>9
<1>13. \A k \in it.fast : \E q \in DOMAIN t : Active(t[q]) /\ t[q].id = k BY <1>1, <1>4
<1>14. u1 \in Seq(Items) /\ Nest(u1) /\ AllSound(a, u1) /\ Waiting(u1) /\ Bare(u1) = Block(st.body, {}) \o Bare(t)
  BY <1>1, <1>3, <1>7, <1>13, PushBlock
<1> HIDE DEF u1
<1>15. /\ u2 \in Seq(Items) /\ Nest(u2) /\ AllSound(a, u2) /\ Waiting(u2)
       /\ Bare(u2) = Block(<<st.test>>, {}) \o Bare(u1)
  <2> DEFINE ids == <<st.test>>
             none == {}
  <2>1. ids \in Seq(Places) /\ \A i \in Range(ids) : i = st.test BY <1>3 DEF Range
  <2>2. none \in SUBSET Places /\ \A k \in none : FALSE OBVIOUS
  <2>3. \A i \in Range(ids) : \A q \in DOMAIN u1 : Active(u1[q]) => Inside(i, u1[q].id) BY <2>1, <1>10
  <2> HIDE DEF ids
  <2>4. /\ Block(ids, none) \o u1 \in Seq(Items) /\ Nest(Block(ids, none) \o u1)
        /\ AllSound(a, Block(ids, none) \o u1) /\ Waiting(Block(ids, none) \o u1)
        /\ Bare(Block(ids, none) \o u1) = Block(ids, {}) \o Bare(u1)
    BY <1>14, <2>1, <2>2, <2>3, PushBlock
  <2> QED BY <2>4 DEF ids
<1> HIDE DEF u2
<1>16. u2 # <<>> => Waiting(Tail(u2)) BY <1>15, WaitingTail
<1>17. Good(do(Bare(u2)), do(u2)) BY <1>15, <1>16, ControlGood DEF do
<1>18. Step(program, w, b) = do(Bare(u2)) BY <1>12, <1>14, <1>15
<1> QED BY <1>11, <1>17, <1>18

(* A call runs a body that only reads.                                      *)
LEMMA CallStep ==
  ASSUME program \in Programs, NothingHidden, NEW a, NEW b, Good(b, a), a.todo # <<>>, Head(a.todo).at = "stmt",
         program.code[Head(a.todo).id].s = "call", NEW v, NEW w
  PROVE  Good(Step(program, w, b), Step(program, v, a))
<1> DEFINE it == Head(a.todo)
           st == program.code[it.id]
           t  == Tail(a.todo)
           do(u) == Run(a.env, a.ref, a.len, a.static, a.out, a.log, u)
           none == {}
<1>1. /\ t \in Seq(Items) /\ Nest(t) /\ Waiting(t) /\ AllSound(a, t) /\ it \in Items /\ it.id \in Places
  BY StepFrom
<1>2. /\ Step(program, v, a) = Exec(program, v, st, it, Rest(a))
      /\ Step(program, w, b) = Exec(program, w, st, Item("stmt", it.id, {}), Rest(b))
  BY StatementSteps
<1>3. st.body \in Seq(Places) BY <1>1, CodeTyped, StatementTyped
<1>4. \A i \in Range(st.body) : \A k : Inside(i, k) BY <1>1, HiddenIs DEF Inside
<1>5. /\ \A u : Doing(Rest(a), u) = do(u) /\ Doing(Rest(b), u) = do(u)
      /\ Rest(a).todo = t /\ Rest(b).todo = Bare(t)
  BY RestDoing
<1>6. st.s = "call" OBVIOUS
<1> HIDE DEF it, st, t, do
<1> DEFINE u == Block(st.body, none) \o t
<1>7. Step(program, v, a) = do(u)
  <2>1. Exec(program, v, st, it, Rest(a)) = Doing(Rest(a), Block(st.body, {}) \o Rest(a).todo)
    BY <1>6 DEF Exec
  <2> QED BY <2>1, <1>2, <1>5
<1>8. Step(program, w, b) = do(Block(st.body, {}) \o Bare(t))
  <2>1. Exec(program, w, st, Item("stmt", it.id, {}), Rest(b))
           = Doing(Rest(b), Block(st.body, {}) \o Rest(b).todo)
    BY <1>6 DEF Exec
  <2> QED BY <2>1, <1>2, <1>5
<1>9. none \in SUBSET Places /\ \A k \in none : FALSE OBVIOUS
<1>10. u \in Seq(Items) /\ Nest(u) /\ AllSound(a, u) /\ Waiting(u) /\ Bare(u) = Block(st.body, {}) \o Bare(t)
  <2> HIDE DEF none
  <2> QED BY <1>1, <1>3, <1>4, <1>9, PushBlock
<1> HIDE DEF u
<1>11. u # <<>> => Waiting(Tail(u)) BY <1>10, WaitingTail
<1>12. Good(do(Bare(u)), do(u)) BY <1>10, <1>11, ControlGood DEF do
<1> QED BY <1>7, <1>8, <1>10, <1>12

(* A step that changes the memory and goes on.                              *)
LEMMA MemoryGood ==
  ASSUME program \in Programs, NEW a, NEW b, Good(b, a), a.todo # <<>>,
         NEW e \in [Locals -> Int], NEW r \in [Vectors -> Objects], NEW l \in [Objects -> Nat], NEW c \in Int,
         NEW g \in Seq({"get", "set"} \X Objects \X Int),
         Apart(Run(e, r, l, c, a.out, g, Tail(a.todo))),
         \A q \in DOMAIN Tail(a.todo) :
            Active(Tail(a.todo)[q]) => Sound(Run(e, r, l, c, a.out, g, Tail(a.todo)), Tail(a.todo)[q])
  PROVE  Good(Run(e, r, l, c, a.out, g, Bare(Tail(a.todo))), Run(e, r, l, c, a.out, g, Tail(a.todo)))
<1> DEFINE t == Tail(a.todo)
<1>1. t \in Seq(Items) /\ Nest(t) /\ Waiting(t) BY StepFrom
<1>2. a.out \in {"running", "RangeError"} BY RunTyped DEF Good
<1>3. t # <<>> => Waiting(Tail(t)) BY <1>1, WaitingTail
<1>4. AllSound(Run(e, r, l, c, a.out, g, t), t) BY DEF AllSound
<1> HIDE DEF t
<1>5. Apart(Run(e, r, l, c, a.out, g, t)) BY DEF t
<1>6. Good(Run(e, r, l, c, a.out, g, Bare(t)), Run(e, r, l, c, a.out, g, t))
  BY <1>1, <1>2, <1>3, <1>4, <1>5, GoodMade
<1> QED BY <1>6 DEF t

(* The loops around a statement that changes something.                     *)
LEMMA LoopsAround ==
  ASSUME program \in Programs, BoundsHold, NEW a, NEW b, Good(b, a), a.todo # <<>>,
         program.code[Head(a.todo).id].s # "get",
         NEW q \in DOMAIN Tail(a.todo), Active(Tail(a.todo)[q])
  PROVE  LET u == Tail(a.todo)[q]
         IN  /\ u \in Items /\ u.id \in Places /\ u.at = "update" /\ Sound(a, u)
             /\ program.code[u.id].s = "for" /\ try_version(program, u.id) # {}
             /\ Head(a.todo).id \in Walk(program, u.id)
<1>1. /\ Tail(a.todo) \in Seq(Items) /\ Nest(Tail(a.todo)) /\ Waiting(Tail(a.todo))
      /\ AllSound(a, Tail(a.todo)) /\ Inside(Head(a.todo).id, Tail(a.todo)[q].id)
  BY StepFrom
<1>2. Head(a.todo).id \in Walk(program, Tail(a.todo)[q].id) BY <1>1 DEF Inside
<1> QED BY <1>1, <1>2, Around

(* push makes no vector longer that a bound of an unchecked loop mentions.  *)
LEMMA PushStep ==
  ASSUME program \in Programs, BoundsHold, NEW a, NEW b, Good(b, a), a.todo # <<>>, Head(a.todo).at = "stmt",
         program.code[Head(a.todo).id].s = "push", NEW v, NEW w
  PROVE  Good(Step(program, w, b), Step(program, v, a))
<1> DEFINE it == Head(a.todo)
           st == program.code[it.id]
           t  == Tail(a.todo)
           k  == a.ref[st.x]
           j  == a.len[k] + 1
           l  == Put(a.len, k, j)
           n  == Run(a.env, a.ref, l, a.static, a.out, a.log, t)
<1>1. /\ t \in Seq(Items) /\ it.id \in Places /\ a \in Runs /\ Apart(a)
      /\ Rest(a) = Run(a.env, a.ref, a.len, a.static, a.out, a.log, t)
      /\ Rest(b) = Run(a.env, a.ref, a.len, a.static, a.out, a.log, Bare(t))
  BY StepFrom
<1>2. /\ Step(program, v, a) = Exec(program, v, st, it, Rest(a))
      /\ Step(program, w, b) = Exec(program, w, st, Item("stmt", it.id, {}), Rest(b))
  BY StatementSteps
<1>3. st.x \in Vectors BY <1>1, CodeTyped, StatementTyped
<1>4. st.s = "push" OBVIOUS
<1>5. ASSUME NEW q \in DOMAIN t, Active(t[q])
      PROVE  /\ t[q] \in Items /\ t[q].at = "update" /\ Sound(a, t[q]) /\ program.code[t[q].id].s = "for"
             /\ st.x \notin try_version(program, t[q].id)
             /\ Length(st.x) \notin Range(program.code[t[q].id].bound)
  <2>1. /\ t[q] \in Items /\ t[q].id \in Places /\ t[q].at = "update" /\ Sound(a, t[q])
        /\ program.code[t[q].id].s = "for" /\ it.id \in Walk(program, t[q].id)
    BY <1>4, <1>5, LoopsAround
  <2>2. st.x \notin try_version(program, t[q].id) BY <1>4, <2>1, VersionedIs
  <2>3. Length(st.x) \notin Range(program.code[t[q].id].bound) BY <1>4, <2>1, BoundIs
  <2> QED BY <2>1, <2>2, <2>3
<1>6. /\ a.env \in [Locals -> Int] /\ a.ref \in [Vectors -> Objects] /\ a.len \in [Objects -> Nat]
      /\ a.static \in Int /\ a.out \in {"running", "RangeError"}
      /\ a.log \in Seq({"get", "set"} \X Objects \X Int)
  BY <1>1, RunTyped
<1> HIDE DEF it, st, t
<1>7. k \in Objects /\ j \in Nat BY <1>3, <1>6
<1>8. \A x \in Vectors : x # st.x => a.ref[x] \in Objects /\ a.ref[x] # k BY <1>1, <1>3, <1>6 DEF Apart
<1> HIDE DEF j, k
<1>9. l \in [Objects -> Nat] /\ l[k] = j /\ \A y \in Objects : y # k => l[y] = a.len[y]
  BY <1>6, <1>7 DEF Put
<1>10. \A x \in Vectors : x # st.x => l[a.ref[x]] = a.len[a.ref[x]] BY <1>8, <1>9
<1> HIDE DEF l
<1>11. n \in Runs BY <1>1, <1>6, <1>9, RunMade
<1>12. n.env = a.env /\ n.ref = a.ref /\ n.len = l /\ n.static = a.static BY RunParts
<1> HIDE DEF n
<1>13. ASSUME NEW q \in DOMAIN t, Active(t[q]) PROVE Sound(n, t[q])
  <2>1. /\ t[q] \in Items /\ Sound(a, t[q]) /\ program.code[t[q].id].s = "for"
        /\ st.x \notin try_version(program, t[q].id)
        /\ Length(st.x) \notin Range(program.code[t[q].id].bound)
    BY <1>5, <1>13
  <2>2. \A x \in Vectors : x # st.x => n.len[n.ref[x]] = a.len[a.ref[x]] BY <1>10, <1>12
  <2> QED BY <2>1, <2>2, <1>1, <1>3, <1>11, <1>12, KeptLength
<1>14. Apart(n) BY <1>1, <1>12 DEF Apart
<1>15. Good(Run(a.env, a.ref, l, a.static, a.out, a.log, Bare(t)), n)
  BY <1>6, <1>9, <1>13, <1>14, MemoryGood DEF n, t
<1>16. Step(program, v, a) = n
  <2>1. Exec(program, v, st, it, Run(a.env, a.ref, a.len, a.static, a.out, a.log, t)) = n
    BY <1>4, PushIs DEF j, k, l, n
  <2> QED BY <2>1, <1>1, <1>2
<1>17. Step(program, w, b) = Run(a.env, a.ref, l, a.static, a.out, a.log, Bare(t))
  <2>1. Exec(program, w, st, Item("stmt", it.id, {}), Run(a.env, a.ref, a.len, a.static, a.out, a.log, Bare(t)))
           = Run(a.env, a.ref, l, a.static, a.out, a.log, Bare(t))
    BY <1>4, PushIs DEF j, k, l
  <2> QED BY <2>1, <1>1, <1>2
<1> QED BY <1>15, <1>16, <1>17

(* pop shortens no vector that an unchecked loop is versioned for.          *)
LEMMA PopStep ==
  ASSUME program \in Programs, BoundsHold, NEW a, NEW b, Good(b, a), a.todo # <<>>, Head(a.todo).at = "stmt",
         program.code[Head(a.todo).id].s = "pop", NEW v, NEW w
  PROVE  Good(Step(program, w, b), Step(program, v, a))
<1> DEFINE it == Head(a.todo)
           st == program.code[it.id]
           t  == Tail(a.todo)
           k  == a.ref[st.x]
           j  == IF a.len[k] = 0 THEN 0 ELSE a.len[k] - 1
           l  == Put(a.len, k, j)
           n  == Run(a.env, a.ref, l, a.static, a.out, a.log, t)
<1>1. /\ t \in Seq(Items) /\ it.id \in Places /\ a \in Runs /\ Apart(a)
      /\ Rest(a) = Run(a.env, a.ref, a.len, a.static, a.out, a.log, t)
      /\ Rest(b) = Run(a.env, a.ref, a.len, a.static, a.out, a.log, Bare(t))
  BY StepFrom
<1>2. /\ Step(program, v, a) = Exec(program, v, st, it, Rest(a))
      /\ Step(program, w, b) = Exec(program, w, st, Item("stmt", it.id, {}), Rest(b))
  BY StatementSteps
<1>3. st.x \in Vectors BY <1>1, CodeTyped, StatementTyped
<1>4. st.s = "pop" OBVIOUS
<1>5. ASSUME NEW q \in DOMAIN t, Active(t[q])
      PROVE  /\ t[q] \in Items /\ t[q].at = "update" /\ Sound(a, t[q]) /\ program.code[t[q].id].s = "for"
             /\ st.x \notin try_version(program, t[q].id)
  <2>1. /\ t[q] \in Items /\ t[q].id \in Places /\ t[q].at = "update" /\ Sound(a, t[q])
        /\ program.code[t[q].id].s = "for" /\ it.id \in Walk(program, t[q].id)
    BY <1>4, <1>5, LoopsAround
  <2>2. st.x \notin try_version(program, t[q].id) BY <1>4, <2>1, VersionedIs
  <2> QED BY <2>1, <2>2
<1>6. /\ a.env \in [Locals -> Int] /\ a.ref \in [Vectors -> Objects] /\ a.len \in [Objects -> Nat]
      /\ a.static \in Int /\ a.out \in {"running", "RangeError"}
      /\ a.log \in Seq({"get", "set"} \X Objects \X Int)
  BY <1>1, RunTyped
<1> HIDE DEF it, st, t
<1>7. k \in Objects /\ a.len[k] \in Nat /\ j \in Nat /\ j <= a.len[k]
  <2>1. k \in Objects /\ a.len[k] \in Nat BY <1>3, <1>6
  <2> QED BY <2>1
<1>8. \A x \in Vectors : x # st.x => a.ref[x] \in Objects /\ a.ref[x] # k BY <1>1, <1>3, <1>6 DEF Apart
<1> HIDE DEF j
<1>20. k = a.ref[st.x] OBVIOUS
<1> HIDE DEF k
<1>9. l \in [Objects -> Nat] /\ l[k] = j /\ \A y \in Objects : y # k => l[y] = a.len[y]
  BY <1>6, <1>7 DEF Put
<1>10. /\ \A x \in Vectors : x # st.x => l[a.ref[x]] = a.len[a.ref[x]]
       /\ l[a.ref[st.x]] <= a.len[a.ref[st.x]]
  <2>1. \A x \in Vectors : x # st.x => l[a.ref[x]] = a.len[a.ref[x]] BY <1>8, <1>9
  <2> QED BY <2>1, <1>7, <1>9, <1>20
<1> HIDE DEF l
<1>11. n \in Runs BY <1>1, <1>6, <1>9, RunMade
<1>12. n.env = a.env /\ n.ref = a.ref /\ n.len = l /\ n.static = a.static BY RunParts
<1> HIDE DEF n
<1>13. ASSUME NEW q \in DOMAIN t, Active(t[q]) PROVE Sound(n, t[q])
  <2>1. /\ t[q] \in Items /\ Sound(a, t[q]) /\ program.code[t[q].id].s = "for"
        /\ st.x \notin try_version(program, t[q].id)
    BY <1>5, <1>13
  <2>2. /\ \A x \in Vectors : x # st.x => n.len[n.ref[x]] = a.len[a.ref[x]]
        /\ n.len[n.ref[st.x]] <= a.len[a.ref[st.x]]
    BY <1>10, <1>12
  <2> QED BY <2>1, <2>2, <1>1, <1>3, <1>11, <1>12, KeptLength
<1>14. Apart(n) BY <1>1, <1>12 DEF Apart
<1>15. Good(Run(a.env, a.ref, l, a.static, a.out, a.log, Bare(t)), n)
  BY <1>6, <1>9, <1>13, <1>14, MemoryGood DEF n, t
<1>16. Step(program, v, a) = n
  <2>1. Exec(program, v, st, it, Run(a.env, a.ref, a.len, a.static, a.out, a.log, t)) = n
    BY <1>4, PopIs DEF j, k, l, n
  <2> QED BY <2>1, <1>1, <1>2
<1>17. Step(program, w, b) = Run(a.env, a.ref, l, a.static, a.out, a.log, Bare(t))
  <2>1. Exec(program, w, st, Item("stmt", it.id, {}), Run(a.env, a.ref, a.len, a.static, a.out, a.log, Bare(t)))
           = Run(a.env, a.ref, l, a.static, a.out, a.log, Bare(t))
    BY <1>4, PopIs DEF j, k, l
  <2> QED BY <2>1, <1>1, <1>2
<1> QED BY <1>15, <1>16, <1>17

(* A new Vector for a local that no unchecked loop is versioned for.        *)
LEMMA RenewStep ==
  ASSUME program \in Programs, BoundsHold, NEW a, NEW b, Good(b, a), a.todo # <<>>, Head(a.todo).at = "stmt",
         program.code[Head(a.todo).id].s = "renew", NEW v, NEW w
  PROVE  Good(Step(program, w, b), Step(program, v, a))
<1> DEFINE it == Head(a.todo)
           st == program.code[it.id]
           t  == Tail(a.todo)
           k  == <<"new", st.x>>
           r  == Put(a.ref, st.x, k)
           l  == Put(a.len, k, 1)
           n  == Run(a.env, r, l, a.static, a.out, a.log, t)
<1>1. /\ t \in Seq(Items) /\ it.id \in Places /\ a \in Runs /\ Apart(a)
      /\ Rest(a) = Run(a.env, a.ref, a.len, a.static, a.out, a.log, t)
      /\ Rest(b) = Run(a.env, a.ref, a.len, a.static, a.out, a.log, Bare(t))
  BY StepFrom
<1>2. /\ Step(program, v, a) = Exec(program, v, st, it, Rest(a))
      /\ Step(program, w, b) = Exec(program, w, st, Item("stmt", it.id, {}), Rest(b))
  BY StatementSteps
<1>3. st.x \in Vectors BY <1>1, CodeTyped, StatementTyped
<1>4. st.s = "renew" OBVIOUS
<1>5. ASSUME NEW q \in DOMAIN t, Active(t[q])
      PROVE  /\ t[q] \in Items /\ Sound(a, t[q]) /\ program.code[t[q].id].s = "for"
             /\ st.x \notin try_version(program, t[q].id)
             /\ Length(st.x) \notin Range(program.code[t[q].id].bound)
  <2>1. /\ t[q] \in Items /\ t[q].id \in Places /\ Sound(a, t[q])
        /\ program.code[t[q].id].s = "for" /\ it.id \in Walk(program, t[q].id)
        /\ try_version(program, t[q].id) # {}
    BY <1>4, <1>5, LoopsAround
  <2>2. PICK x \in try_version(program, t[q].id) : TRUE BY <2>1
  <2>3. Length(st.x) \notin Range(program.code[t[q].id].bound) BY <1>4, <2>1, <2>2, VersionedIs
  <2>4. st.x \notin try_version(program, t[q].id) BY <1>4, <2>1, VersionedIs
  <2> QED BY <2>1, <2>3, <2>4
<1>6. /\ a.env \in [Locals -> Int] /\ a.ref \in [Vectors -> Objects] /\ a.len \in [Objects -> Nat]
      /\ a.static \in Int /\ a.out \in {"running", "RangeError"}
      /\ a.log \in Seq({"get", "set"} \X Objects \X Int)
  BY <1>1, RunTyped
<1> HIDE DEF it, st, t
<1>7. k \in Objects BY <1>3 DEF Objects
<1>8. \A x \in Vectors : x # st.x => a.ref[x] \in Objects /\ a.ref[x] # k
  <2> SUFFICES ASSUME NEW x \in Vectors, x # st.x PROVE a.ref[x] \in Objects /\ a.ref[x] # k OBVIOUS
  <2>1. a.ref[x] \in Objects BY <1>6
  <2>2. a.ref[x] = <<"new", x>> \/ a.ref[x] \in {"old"} \X Vectors BY <1>1 DEF Apart
  <2> QED BY <2>1, <2>2
<1>9. \A x, y \in Vectors : a.ref[x] = a.ref[y] => x = y BY <1>1 DEF Apart
<1>10. \A x \in Vectors : a.ref[x] = <<"new", x>> \/ a.ref[x] \in {"old"} \X Vectors BY <1>1 DEF Apart
<1>11. k = <<"new", st.x>> OBVIOUS
<1> HIDE DEF k
<1>12. r \in [Vectors -> Objects] /\ r[st.x] = k /\ \A y \in Vectors : y # st.x => r[y] = a.ref[y]
  BY <1>3, <1>6, <1>7 DEF Put
<1>13. l \in [Objects -> Nat] /\ l[k] = 1 /\ \A y \in Objects : y # k => l[y] = a.len[y]
  BY <1>6, <1>7 DEF Put
<1> HIDE DEF r, l
<1>14. \A x \in Vectors : x # st.x => l[r[x]] = a.len[a.ref[x]] BY <1>8, <1>12, <1>13
<1>15. n \in Runs BY <1>1, <1>6, <1>12, <1>13, RunMade
<1>16. n.env = a.env /\ n.ref = r /\ n.len = l /\ n.static = a.static BY RunParts
<1> HIDE DEF n
<1>17. ASSUME NEW q \in DOMAIN t, Active(t[q]) PROVE Sound(n, t[q])
  <2>1. /\ t[q] \in Items /\ Sound(a, t[q]) /\ program.code[t[q].id].s = "for"
        /\ st.x \notin try_version(program, t[q].id)
        /\ Length(st.x) \notin Range(program.code[t[q].id].bound)
    BY <1>5, <1>17
  <2>2. \A x \in Vectors : x # st.x => n.len[n.ref[x]] = a.len[a.ref[x]] BY <1>14, <1>16
  <2> QED BY <2>1, <2>2, <1>1, <1>3, <1>15, <1>16, KeptLength
<1>18. Apart(n)
  <2>1. \A x \in Vectors : r[x] = <<"new", x>> \/ r[x] \in {"old"} \X Vectors BY <1>10, <1>11, <1>12
  <2>2. ASSUME NEW x \in Vectors, NEW y \in Vectors, r[x] = r[y] PROVE x = y
    <3>1. CASE x = st.x /\ y # st.x BY <3>1, <2>2, <1>8, <1>12
    <3>2. CASE x # st.x /\ y = st.x BY <3>2, <2>2, <1>8, <1>12
    <3>3. CASE x # st.x /\ y # st.x BY <3>3, <2>2, <1>9, <1>12
    <3> QED BY <3>1, <3>2, <3>3
  <2> QED BY <2>1, <2>2, <1>16 DEF Apart
<1>19. Good(Run(a.env, r, l, a.static, a.out, a.log, Bare(t)), n)
  BY <1>6, <1>12, <1>13, <1>17, <1>18, MemoryGood DEF n, t
<1>20. Step(program, v, a) = n
  <2>1. Exec(program, v, st, it, Run(a.env, a.ref, a.len, a.static, a.out, a.log, t)) = n
    BY <1>4, RenewIs DEF k, r, l, n
  <2> QED BY <2>1, <1>1, <1>2
<1>21. Step(program, w, b) = Run(a.env, r, l, a.static, a.out, a.log, Bare(t))
  <2>1. Exec(program, w, st, Item("stmt", it.id, {}), Run(a.env, a.ref, a.len, a.static, a.out, a.log, Bare(t)))
           = Run(a.env, r, l, a.static, a.out, a.log, Bare(t))
    BY <1>4, RenewIs DEF k, r, l
  <2> QED BY <2>1, <1>1, <1>2
<1> QED BY <1>19, <1>20, <1>21

(* The assignment of a local: it is neither the index nor in the bound of   *)
(* an unchecked loop.                                                       *)
LEMMA AssignGood ==
  ASSUME program \in Programs, NEW a, NEW b, Good(b, a), a.todo # <<>>, NEW y \in Locals, NEW c \in Int,
         \A q \in DOMAIN Tail(a.todo) : Active(Tail(a.todo)[q]) =>
            LET u == Tail(a.todo)[q]
            IN  /\ u \in Items /\ Sound(a, u) /\ program.code[u.id].s = "for"
                /\ y # program.code[u.id].iv /\ Local(y) \notin Range(program.code[u.id].bound)
  PROVE  LET do(e, t) == Run(e, a.ref, a.len, a.static, a.out, a.log, t)
         IN  /\ Put(a.env, y, c) \in [Locals -> Int]
             /\ Put(a.env, y, c)[y] = c /\ \A x \in Locals : x # y => Put(a.env, y, c)[x] = a.env[x]
             /\ do(Put(a.env, y, c), Tail(a.todo)) \in Runs
             /\ \A q \in DOMAIN Tail(a.todo) : Active(Tail(a.todo)[q]) =>
                   Sound(do(Put(a.env, y, c), Tail(a.todo)), Tail(a.todo)[q])
             /\ Good(do(Put(a.env, y, c), Bare(Tail(a.todo))), do(Put(a.env, y, c), Tail(a.todo)))
<1> DEFINE t == Tail(a.todo)
           e == Put(a.env, y, c)
           n == Run(e, a.ref, a.len, a.static, a.out, a.log, t)
<1>1. t \in Seq(Items) /\ a \in Runs /\ Apart(a) BY StepFrom
<1>2. /\ a.env \in [Locals -> Int] /\ a.ref \in [Vectors -> Objects] /\ a.len \in [Objects -> Nat]
      /\ a.static \in Int /\ a.out \in {"running", "RangeError"}
      /\ a.log \in Seq({"get", "set"} \X Objects \X Int)
  BY <1>1, RunTyped
<1>3. e \in [Locals -> Int] /\ e[y] = c /\ \A x \in Locals : x # y => e[x] = a.env[x] BY <1>2 DEF Put
<1> HIDE DEF t, e
<1>5. n \in Runs BY <1>1, <1>2, <1>3, RunMade
<1>6. n.env = e /\ n.ref = a.ref /\ n.len = a.len /\ n.static = a.static BY RunParts
<1>7. \A q \in DOMAIN t : Active(t[q]) =>
         /\ t[q] \in Items /\ Sound(a, t[q]) /\ program.code[t[q].id].s = "for"
         /\ y # program.code[t[q].id].iv /\ Local(y) \notin Range(program.code[t[q].id].bound)
  BY DEF t
<1> HIDE DEF n
<1>8. ASSUME NEW q \in DOMAIN t, Active(t[q]) PROVE Sound(n, t[q])
  <2>1. /\ t[q] \in Items /\ Sound(a, t[q]) /\ program.code[t[q].id].s = "for"
        /\ y # program.code[t[q].id].iv /\ Local(y) \notin Range(program.code[t[q].id].bound)
    BY <1>7, <1>8
  <2>2. \A x \in Locals : x # y => n.env[x] = a.env[x] BY <1>3, <1>6
  <2> QED BY <2>1, <2>2, <1>1, <1>5, <1>6, KeptAssign
<1>9. Apart(n) BY <1>1, <1>6 DEF Apart
<1>10. Good(Run(e, a.ref, a.len, a.static, a.out, a.log, Bare(t)), n)
  BY <1>2, <1>3, <1>8, <1>9, MemoryGood DEF n, t
<1> QED BY <1>3, <1>5, <1>8, <1>10 DEF n, t, e

(* Loops around an assignment, or around another loop.                      *)
LEMMA AssignAround ==
  ASSUME program \in Programs, BoundsHold, NEW a, NEW b, Good(b, a), a.todo # <<>>, NEW y,
         \/ program.code[Head(a.todo).id].s = "assign" /\ y = program.code[Head(a.todo).id].x
         \/ program.code[Head(a.todo).id].s = "for" /\ y = program.code[Head(a.todo).id].iv,
         NEW q \in DOMAIN Tail(a.todo), Active(Tail(a.todo)[q])
  PROVE  LET u == Tail(a.todo)[q]
         IN  /\ u \in Items /\ Sound(a, u) /\ program.code[u.id].s = "for"
             /\ y # program.code[u.id].iv /\ Local(y) \notin Range(program.code[u.id].bound)
<1> DEFINE u == Tail(a.todo)[q]
           st == program.code[Head(a.todo).id]
<1>1. /\ u \in Items /\ u.id \in Places /\ Sound(a, u) /\ program.code[u.id].s = "for"
      /\ Head(a.todo).id \in Walk(program, u.id) /\ try_version(program, u.id) # {}
  BY LoopsAround
<1>2. PICK x \in try_version(program, u.id) : TRUE BY <1>1
<1>3. /\ st.s \in {"assign", "renew"} =>
            st.x # program.code[u.id].iv /\ Local(st.x) \notin Range(program.code[u.id].bound)
      /\ st.s = "for" =>
            st.iv # program.code[u.id].iv /\ Local(st.iv) \notin Range(program.code[u.id].bound)
  BY <1>1, <1>2, VersionedIs
<1>4. \/ st.s = "assign" /\ y = st.x
      \/ st.s = "for" /\ y = st.iv
  OBVIOUS
<1> HIDE DEF u, st
<1>5. y # program.code[u.id].iv /\ Local(y) \notin Range(program.code[u.id].bound) BY <1>3, <1>4
<1> QED BY <1>1, <1>5 DEF u

(* The assignment is of the same number in both runs.                       *)
LEMMA AssignStep ==
  ASSUME program \in Programs, BoundsHold, NEW a, NEW b, Good(b, a), a.todo # <<>>, Head(a.todo).at = "stmt",
         program.code[Head(a.todo).id].s = "assign", NEW v, NEW w
  PROVE  Good(Step(program, w, b), Step(program, v, a))
<1> DEFINE it == Head(a.todo)
           st == program.code[it.id]
           t  == Tail(a.todo)
           c  == Value(st.val, a)
           e  == Put(a.env, st.x, c)
           do(f, u) == Run(f, a.ref, a.len, a.static, a.out, a.log, u)
<1>1. /\ it.id \in Places /\ a \in Runs /\ Rest(a) = do(a.env, t) /\ Rest(b) = do(a.env, Bare(t))
      /\ Rest(a) \in Runs /\ Rest(b) \in Runs /\ Same(a, Rest(a)) /\ Same(a, Rest(b))
  BY StepFrom
<1>2. /\ Step(program, v, a) = Exec(program, v, st, it, Rest(a))
      /\ Step(program, w, b) = Exec(program, w, st, Item("stmt", it.id, {}), Rest(b))
  BY StatementSteps
<1>3. st.x \in Locals /\ st.val \in Exprs BY <1>1, CodeTyped, StatementTyped
<1>4. st.s = "assign" OBVIOUS
<1>5. c \in Int /\ Value(st.val, Rest(a)) = c /\ Value(st.val, Rest(b)) = c BY <1>1, <1>3, SumSame, ValueTyped
<1>6. \A q \in DOMAIN t : Active(t[q]) =>
         /\ t[q] \in Items /\ Sound(a, t[q]) /\ program.code[t[q].id].s = "for"
         /\ st.x # program.code[t[q].id].iv /\ Local(st.x) \notin Range(program.code[t[q].id].bound)
  <2> SUFFICES ASSUME NEW q \in DOMAIN t, Active(t[q])
               PROVE  /\ t[q] \in Items /\ Sound(a, t[q]) /\ program.code[t[q].id].s = "for"
                      /\ st.x # program.code[t[q].id].iv /\ Local(st.x) \notin Range(program.code[t[q].id].bound)
    OBVIOUS
  <2>1. \/ program.code[Head(a.todo).id].s = "assign" /\ st.x = program.code[Head(a.todo).id].x
        \/ program.code[Head(a.todo).id].s = "for" /\ st.x = program.code[Head(a.todo).id].iv
    OBVIOUS
  <2> QED BY <2>1, AssignAround
<1> HIDE DEF st, c
<1>7. Good(do(e, Bare(t)), do(e, t)) BY <1>3, <1>5, <1>6, AssignGood
<1> HIDE DEF it, t
<1>8. Step(program, v, a) = do(e, t)
  <2>1. Exec(program, v, st, it, do(a.env, t)) = do(Put(a.env, st.x, Value(st.val, do(a.env, t))), t)
    BY <1>4, AssignIs
  <2>2. Value(st.val, do(a.env, t)) = c BY <1>1, <1>5
  <2> QED BY <2>1, <2>2, <1>1, <1>2
<1>9. Step(program, w, b) = do(e, Bare(t))
  <2>1. Exec(program, w, st, Item("stmt", it.id, {}), do(a.env, Bare(t)))
           = do(Put(a.env, st.x, Value(st.val, do(a.env, Bare(t)))), Bare(t))
    BY <1>4, AssignIs
  <2>2. Value(st.val, do(a.env, Bare(t))) = c BY <1>1, <1>5
  <2> QED BY <2>1, <2>2, <1>1, <1>2
<1> QED BY <1>7, <1>8, <1>9

(* A bound that mentions the static is of a loop whose body leaves it alone. *)
LEMMA StaticStep ==
  ASSUME program \in Programs, BoundsHold, NEW a, NEW b, Good(b, a), a.todo # <<>>, Head(a.todo).at = "stmt",
         program.code[Head(a.todo).id].s = "static", NEW v, NEW w
  PROVE  Good(Step(program, w, b), Step(program, v, a))
<1> DEFINE it == Head(a.todo)
           st == program.code[it.id]
           t  == Tail(a.todo)
           c  == Value(st.val, a)
           do(x, u) == Run(a.env, a.ref, a.len, x, a.out, a.log, u)
           n  == do(c, t)
<1>1. /\ t \in Seq(Items) /\ it.id \in Places /\ a \in Runs /\ Apart(a)
      /\ Rest(a) = do(a.static, t) /\ Rest(b) = do(a.static, Bare(t))
      /\ Rest(a) \in Runs /\ Rest(b) \in Runs /\ Same(a, Rest(a)) /\ Same(a, Rest(b))
  BY StepFrom
<1>2. /\ Step(program, v, a) = Exec(program, v, st, it, Rest(a))
      /\ Step(program, w, b) = Exec(program, w, st, Item("stmt", it.id, {}), Rest(b))
  BY StatementSteps
<1>3. st.val \in Exprs BY <1>1, CodeTyped, StatementTyped
<1>4. st.s = "static" OBVIOUS
<1>5. c \in Int /\ Value(st.val, Rest(a)) = c /\ Value(st.val, Rest(b)) = c BY <1>1, <1>3, SumSame, ValueTyped
<1>6. ASSUME NEW q \in DOMAIN t, Active(t[q])
      PROVE  /\ t[q] \in Items /\ Sound(a, t[q]) /\ program.code[t[q].id].s = "for"
             /\ Static \notin Range(program.code[t[q].id].bound)
  <2>1. /\ t[q] \in Items /\ t[q].id \in Places /\ Sound(a, t[q])
        /\ program.code[t[q].id].s = "for" /\ it.id \in Walk(program, t[q].id)
    BY <1>4, <1>6, LoopsAround
  <2>2. Static \notin Range(program.code[t[q].id].bound) BY <1>4, <2>1, BoundIs
  <2> QED BY <2>1, <2>2
<1>7. /\ a.env \in [Locals -> Int] /\ a.ref \in [Vectors -> Objects] /\ a.len \in [Objects -> Nat]
      /\ a.static \in Int /\ a.out \in {"running", "RangeError"}
      /\ a.log \in Seq({"get", "set"} \X Objects \X Int)
  BY <1>1, RunTyped
<1> HIDE DEF it, st, t, c
<1>8. n \in Runs BY <1>1, <1>5, <1>7, RunMade
<1>9. n.env = a.env /\ n.ref = a.ref /\ n.len = a.len BY RunParts
<1> HIDE DEF n
<1>10. ASSUME NEW q \in DOMAIN t, Active(t[q]) PROVE Sound(n, t[q])
  <2>1. /\ t[q] \in Items /\ Sound(a, t[q]) /\ program.code[t[q].id].s = "for"
        /\ Static \notin Range(program.code[t[q].id].bound)
    BY <1>6, <1>10
  <2> QED BY <2>1, <1>1, <1>8, <1>9, KeptStatic
<1>11. Apart(n) BY <1>1, <1>9 DEF Apart
<1>12. Good(do(c, Bare(t)), n) BY <1>5, <1>7, <1>10, <1>11, MemoryGood DEF n, t
<1>13. Step(program, v, a) = n
  <2>1. Exec(program, v, st, it, do(a.static, t)) = do(Value(st.val, do(a.static, t)), t) BY <1>4, StaticIs
  <2>2. Value(st.val, do(a.static, t)) = c BY <1>1, <1>5
  <2> QED BY <2>1, <2>2, <1>1, <1>2 DEF n
<1>14. Step(program, w, b) = do(c, Bare(t))
  <2>1. Exec(program, w, st, Item("stmt", it.id, {}), do(a.static, Bare(t)))
           = do(Value(st.val, do(a.static, Bare(t))), Bare(t))
    BY <1>4, StaticIs
  <2>2. Value(st.val, do(a.static, Bare(t))) = c BY <1>1, <1>5
  <2> QED BY <2>1, <2>2, <1>1, <1>2
<1> QED BY <1>12, <1>13, <1>14


(* A loop's index is set and its condition is next: the guard holds still,   *)
(* because its bound does not mention the index.                            *)
LEMMA LoopGood ==
  ASSUME program \in Programs, BoundsHold, NEW a, NEW b, Good(b, a), a.todo # <<>>,
         program.code[Head(a.todo).id].s = "for", NEW c \in Int, NEW fast \in SUBSET Places,
         \A k \in fast : \/ k = Head(a.todo).id
                         \/ \E q \in DOMAIN Tail(a.todo) : Active(Tail(a.todo)[q]) /\ Tail(a.todo)[q].id = k,
         Head(a.todo).id \in fast =>
            /\ c >= 0 /\ try_version(program, Head(a.todo).id) # {}
            /\ \A x \in try_version(program, Head(a.todo).id) :
                  Holds(guard_term(program.code[Head(a.todo).id], x), a)
  PROVE  LET id == Head(a.todo).id
             u  == <<Item("cond", id, fast)>> \o Tail(a.todo)
             do(t) == Run(Put(a.env, program.code[id].iv, c), a.ref, a.len, a.static, a.out, a.log, t)
         IN  Good(do(<<Item("cond", id, {})>> \o Bare(Tail(a.todo))), do(u))
<1> DEFINE id == Head(a.todo).id
           loop == program.code[id]
           t  == Tail(a.todo)
           it == Item("cond", id, fast)
           u  == <<it>> \o t
           e  == Put(a.env, loop.iv, c)
           do(s) == Run(e, a.ref, a.len, a.static, a.out, a.log, s)
           n  == do(t)
<1>1. /\ t \in Seq(Items) /\ Nest(t) /\ Waiting(t) /\ id \in Places /\ a \in Runs
      /\ \A q \in DOMAIN t : Active(t[q]) => Inside(id, t[q].id)
  BY StepFrom
<1>2. loop.iv \in Locals /\ loop.bound \in Exprs BY <1>1, LoopTyped
<1>3. \A q \in DOMAIN t : Active(t[q]) =>
         /\ t[q] \in Items /\ Sound(a, t[q]) /\ program.code[t[q].id].s = "for"
         /\ loop.iv # program.code[t[q].id].iv /\ Local(loop.iv) \notin Range(program.code[t[q].id].bound)
  <2> SUFFICES ASSUME NEW q \in DOMAIN t, Active(t[q])
               PROVE  /\ t[q] \in Items /\ Sound(a, t[q]) /\ program.code[t[q].id].s = "for"
                      /\ loop.iv # program.code[t[q].id].iv
                      /\ Local(loop.iv) \notin Range(program.code[t[q].id].bound)
    OBVIOUS
  <2>1. \/ program.code[Head(a.todo).id].s = "assign" /\ loop.iv = program.code[Head(a.todo).id].x
        \/ program.code[Head(a.todo).id].s = "for" /\ loop.iv = program.code[Head(a.todo).id].iv
    OBVIOUS
  <2> QED BY <2>1, AssignAround
<1>4. /\ e[loop.iv] = c /\ \A x \in Locals : x # loop.iv => e[x] = a.env[x]
      /\ n \in Runs
      /\ \A q \in DOMAIN t : Active(t[q]) => Sound(n, t[q])
      /\ Good(do(Bare(t)), n)
  <2> DEFINE y == loop.iv
  <2>1. y \in Locals BY <1>2
  <2>2. \A q \in DOMAIN t : Active(t[q]) =>
           /\ t[q] \in Items /\ Sound(a, t[q]) /\ program.code[t[q].id].s = "for"
           /\ y # program.code[t[q].id].iv /\ Local(y) \notin Range(program.code[t[q].id].bound)
    BY <1>3
  <2>3. e = Put(a.env, y, c) OBVIOUS
  <2> HIDE DEF loop, y, e
  <2>4. e[y] = c /\ \A x \in Locals : x # y => e[x] = a.env[x] BY <2>1, <2>2, <2>3, AssignGood
  <2>5. n \in Runs BY <2>1, <2>2, <2>3, AssignGood
  <2>6. \A q \in DOMAIN t : Active(t[q]) => Sound(n, t[q]) BY <2>1, <2>2, <2>3, AssignGood
  <2>7. Good(do(Bare(t)), n) BY <2>1, <2>2, <2>3, AssignGood
  <2> QED BY <2>4, <2>5, <2>6, <2>7 DEF y
<1>5. id \in fast => /\ c >= 0 /\ try_version(program, id) # {}
                     /\ \A x \in try_version(program, id) : Holds(guard_term(loop, x), a)
  OBVIOUS
<1>6. loop.s = "for" /\ Local(loop.iv) \notin Range(loop.bound) BY <1>1, BoundIs
<1>7. \A k \in fast : k = id \/ \E q \in DOMAIN t : Active(t[q]) /\ t[q].id = k OBVIOUS
<1> HIDE DEF e, t, id
<1>8. it \in Items /\ it.at = "cond" /\ it.id = id /\ it.fast = fast BY <1>1, ItemTyped
<1>9. Bare(<<it>>) = <<Item("cond", id, {})>> /\ <<it>> \in Seq(Items) BY <1>1, BareOne
<1>10. n.env = e /\ n.ref = a.ref /\ n.len = a.len /\ n.static = a.static /\ n.out = a.out /\ n.log = a.log
  BY RunParts
<1> HIDE DEF n, it
<1>11. Active(it) => Sound(n, it)
  <2> SUFFICES ASSUME id \in fast PROVE Sound(n, it) BY <1>8 DEF Active
  <2>1. ASSUME NEW x \in try_version(program, id) PROVE Holds(guard_term(loop, x), n)
    <3>1. x \in Vectors /\ loop.op \in {"<", "<="} BY <1>1, VersionedIs
    <3>2. \A y \in Vectors : n.len[n.ref[y]] <= a.len[a.ref[y]] BY <1>1, <1>10, LenTyped
    <3>3. \A y \in Locals : Local(y) \in Range(loop.bound) => n.env[y] = a.env[y] BY <1>4, <1>6, <1>10
    <3>4. Holds(guard_term(loop, x), a) BY <1>5
    <3>9. n.len[n.ref[x]] = a.len[a.ref[x]] BY <1>10
    <3> HIDE DEF loop
    <3>5. Value(loop.bound, n) <= Value(loop.bound, a) BY <1>1, <1>2, <1>4, <1>10, <3>2, <3>3, SumLe
    <3>6. Value(loop.bound, n) \in Int /\ Value(loop.bound, a) \in Int BY <1>1, <1>2, <1>4, ValueTyped
    <3>7. a.len[a.ref[x]] \in Nat BY <1>1, <3>1, LenTyped
    <3>8. IF loop.op = "<=" THEN Value(loop.bound, a) < a.len[a.ref[x]]
                            ELSE Value(loop.bound, a) <= a.len[a.ref[x]]
      BY <1>1, <3>1, <3>4, GuardIs
    <3>10. IF loop.op = "<=" THEN Value(loop.bound, n) < n.len[n.ref[x]]
                             ELSE Value(loop.bound, n) <= n.len[n.ref[x]]
      BY <3>5, <3>6, <3>7, <3>8, <3>9
    <3> QED BY <1>4, <3>1, <3>10, GuardIs
  <2>2. n.env[loop.iv] >= 0 BY <1>4, <1>5, <1>10
  <2>3. it.at # "update" BY <1>8
  <2> QED BY <1>8, <2>1, <2>2, <2>3 DEF Sound
<1>12. /\ u \in Seq(Items) /\ Nest(u) /\ Tail(u) = t
       /\ \A m : AllSound(m, t) /\ (Active(it) => Sound(m, it)) => AllSound(m, u)
  <2>1. Active(it) => try_version(program, it.id) # {} BY <1>5, <1>8 DEF Active
  <2>2. program.code[it.id].s = "for" BY <1>6, <1>8
  <2> QED BY <1>1, <1>7, <1>8, <2>1, <2>2, NestLoop
<1>13. AllSound(n, t) BY <1>4 DEF AllSound
<1>14. AllSound(n, u) BY <1>11, <1>12, <1>13
<1>15. Bare(u) = <<Item("cond", id, {})>> \o Bare(t) BY <1>1, <1>9, BareConcat
<1> HIDE DEF u
<1>16. Good(Run(n.env, n.ref, n.len, n.static, n.out, n.log, Bare(u)),
            Run(n.env, n.ref, n.len, n.static, n.out, n.log, u))
  BY <1>1, <1>4, <1>12, <1>14, ControlGood
<1>17. Good(do(Bare(u)), do(u)) BY <1>10, <1>16
<1> QED BY <1>15, <1>17 DEF u, it, t, id, e


(* A loop starts: its unchecked copy runs if the guard holds.                *)
LEMMA ForStep ==
  ASSUME program \in Programs, BoundsHold, NEW a, NEW b, Good(b, a), a.todo # <<>>, Head(a.todo).at = "stmt",
         program.code[Head(a.todo).id].s = "for"
  PROVE  Good(Step(program, Untouched(program), b), Step(program, rewrite(program), a))
<1> DEFINE it == Head(a.todo)
           id == it.id
           st == program.code[id]
           t  == Tail(a.todo)
           v  == rewrite(program)
           w  == Untouched(program)
           xs == try_version(program, id)
           guard(m) == xs # {} /\ \A x \in xs : Holds(guard_term(st, x), m)
           fast == IF guard(Rest(a)) THEN it.fast \cup {id} ELSE it.fast
           bare == Item("stmt", id, {})
           do(s) == Run(Put(a.env, st.iv, st.init), a.ref, a.len, a.static, a.out, a.log, s)
<1>1. /\ t \in Seq(Items) /\ id \in Places /\ it.fast \in SUBSET Places /\ a \in Runs
      /\ Nest(t) /\ Waiting(t) /\ AllSound(a, t)
      /\ \A q \in DOMAIN t : Active(t[q]) => Inside(id, t[q].id)
      /\ \A k \in it.fast : \/ Active(it) /\ it.id = k
                            \/ \E q \in DOMAIN t : Active(t[q]) /\ t[q].id = k
      /\ Rest(a) = Run(a.env, a.ref, a.len, a.static, a.out, a.log, t)
      /\ Rest(b) = Run(a.env, a.ref, a.len, a.static, a.out, a.log, Bare(t))
      /\ Rest(a) \in Runs /\ Same(a, Rest(a))
  BY StepFrom
<1>2. /\ Step(program, v, a) = Exec(program, v, st, it, Rest(a))
      /\ Step(program, w, b) = Exec(program, w, st, bare, Rest(b))
  BY StatementSteps
<1>3. st.s = "for" /\ st.iv \in Locals /\ st.init \in Int BY <1>1, LoopTyped
<1>4. v[id] = xs /\ w[id] = {} BY <1>1 DEF rewrite, Untouched, Places
<1>5. bare.id = id /\ bare.fast = {} BY <1>1, ItemTyped
<1>6. ~Active(it) BY DEF Active
<1>7. Rest(a).todo = t /\ Rest(b).todo = Bare(t) BY RestDoing
<1> HIDE DEF v, w, bare
<1>8. \A k \in it.fast : k # id
  <2> SUFFICES ASSUME id \in it.fast PROVE FALSE OBVIOUS
  <2>1. PICK q \in DOMAIN t : Active(t[q]) /\ t[q].id = id BY <1>1, <1>6
  <2>2. Inside(id, id) /\ xs # {} BY <1>1, <2>1 DEF Nest
  <2>3. id \in Walk(program, id) BY <1>3, <2>2 DEF Inside
  <2>4. PICK x \in xs : TRUE BY <2>2
  <2> QED BY <1>1, <1>3, <2>3, <2>4, VersionedIs
<1>9. \A k \in fast : \/ k = id
                      \/ \E q \in DOMAIN t : Active(t[q]) /\ t[q].id = k
  BY <1>1, <1>6
<1>10. fast \in SUBSET Places BY <1>1
<1>11. id \in fast => guard(Rest(a)) BY <1>8
<1>12. Step(program, v, a) = do(<<Item("cond", id, fast)>> \o t)
  <2>1. Exec(program, v, st, it, Rest(a))
           = Doing(Assigned(Rest(a), st.iv, st.init),
                   <<Item("cond", id,
                          IF v[id] # {} /\ \A x \in v[id] : Holds(guard_term(st, x), Rest(a))
                          THEN it.fast \cup {id} ELSE it.fast)>> \o Rest(a).todo)
    BY <1>3 DEF Exec
  <2>2. Exec(program, v, st, it, Rest(a))
           = Doing(Assigned(Rest(a), st.iv, st.init), <<Item("cond", id, fast)>> \o t)
    <3> HIDE DEF st, xs, it, id, t
    <3> QED BY <2>1, <1>4, <1>7
  <2> HIDE DEF fast, it, id, st, t
  <2>3. Exec(program, v, st, it, Rest(a)) = do(<<Item("cond", id, fast)>> \o t)
    BY <2>2, <1>1, DoingIs, AssignedIs
  <2> QED BY <2>3, <1>2
<1>13. Step(program, w, b) = do(<<Item("cond", id, {})>> \o Bare(t))
  <2>1. Exec(program, w, st, bare, Rest(b))
           = Doing(Assigned(Rest(b), st.iv, st.init),
                   <<Item("cond", bare.id,
                          IF w[bare.id] # {} /\ \A x \in w[bare.id] : Holds(guard_term(st, x), Rest(b))
                          THEN bare.fast \cup {bare.id} ELSE bare.fast)>> \o Rest(b).todo)
    BY <1>3 DEF Exec
  <2> HIDE DEF it, id, st, t
  <2>2. Exec(program, w, st, bare, Rest(b))
           = Doing(Assigned(Rest(b), st.iv, st.init), <<Item("cond", id, {})>> \o Bare(t))
    BY <2>1, <1>4, <1>5, <1>7
  <2>3. Exec(program, w, st, bare, Rest(b)) = do(<<Item("cond", id, {})>> \o Bare(t))
    BY <2>2, <1>1, DoingIs, AssignedIs
  <2> QED BY <2>3, <1>2
<1>14. id \in fast => /\ st.init >= 0 /\ xs # {}
                      /\ \A x \in xs : Holds(guard_term(st, x), a)
  <2> SUFFICES ASSUME id \in fast
               PROVE  /\ st.init >= 0 /\ xs # {}
                      /\ \A x \in xs : Holds(guard_term(st, x), a)
    OBVIOUS
  <2>1. guard(Rest(a)) BY <1>11
  <2>2. PICK y \in xs : TRUE BY <2>1
  <2>3. st.init >= 0 BY <1>1, <2>2, VersionedIs
  <2>4. ASSUME NEW x \in xs PROVE Holds(guard_term(st, x), a)
    <3>1. x \in Vectors /\ st.bound \in Exprs BY <1>1, VersionedIs, LoopTyped
    <3>2. <<Length(x)>> \in Exprs
      <4>1. Length(x) \in Atoms BY <3>1 DEF Length, Atoms
      <4> QED BY <1>1, <4>1, ValueOne
    <3>3. guard_term(st, x).a \in Exprs /\ guard_term(st, x).b \in Exprs
      <4> HIDE DEF st
      <4> QED BY <3>1, <3>2 DEF guard_term, Cmp
    <3>4. Holds(guard_term(st, x), Rest(a)) BY <2>1
    <3> HIDE DEF st
    <3> QED BY <3>3, <3>4, <1>1, HoldsSame
  <2> QED BY <2>1, <2>3, <2>4
<1> HIDE DEF fast
<1>15. Good(do(<<Item("cond", id, {})>> \o Bare(t)), do(<<Item("cond", id, fast)>> \o t))
  BY <1>3, <1>9, <1>10, <1>14, LoopGood
<1> QED BY <1>12, <1>13, <1>15 DEF v, w


(* The two runs before the step of a loop.                                   *)
LEMMA LoopFrom ==
  ASSUME program \in Programs, NEW a, NEW b, Good(b, a), a.todo # <<>>, Head(a.todo).at # "stmt"
  PROVE  LET it == Head(a.todo)
             do(s) == Run(a.env, a.ref, a.len, a.static, a.out, a.log, s)
         IN  /\ it.at \in {"cond", "update"} /\ program.code[it.id].s = "for" /\ it.id \in Places
             /\ a = do(a.todo) /\ b = do(b.todo)
             /\ b.todo # <<>> /\ Head(b.todo).at = it.at /\ Head(b.todo).id = it.id /\ Head(b.todo).fast = {}
             /\ Tail(b.todo) = Bare(Tail(a.todo))
             /\ b.env = a.env
<1> DEFINE it == Head(a.todo)
<1>1. /\ it \in Items /\ a \in Runs /\ b \in Runs /\ Same(a, b)
      /\ program.code[it.id].s = "for"
      /\ b.todo # <<>> /\ Head(b.todo) = Item(it.at, it.id, {}) /\ Tail(b.todo) = Bare(Tail(a.todo))
  BY StepFrom
<1>2. it.at \in {"stmt", "cond", "update"} /\ it.id \in Places BY <1>1, ItemIs
<1>3. b.out = a.out /\ b.log = a.log BY DEF Good, Twins
<1>4. b.env = a.env /\ b.ref = a.ref /\ b.len = a.len /\ b.static = a.static BY <1>1 DEF Same
<1>5. a = Run(a.env, a.ref, a.len, a.static, a.out, a.log, a.todo) BY <1>1, RunIs
<1>6. b = Run(a.env, a.ref, a.len, a.static, a.out, a.log, b.todo)
  <2>1. b = Run(b.env, b.ref, b.len, b.static, b.out, b.log, b.todo) BY <1>1, RunIs
  <2> QED BY <2>1, <1>3, <1>4
<1>7. Head(b.todo).at = it.at /\ Head(b.todo).id = it.id /\ Head(b.todo).fast = {}
  BY <1>1, <1>2, ItemTyped
<1> QED BY <1>1, <1>2, <1>4, <1>5, <1>6, <1>7

(* The index is counted up.                                                  *)
LEMMA UpdateStep ==
  ASSUME program \in Programs, BoundsHold, NEW a, NEW b, Good(b, a), a.todo # <<>>, Head(a.todo).at = "update",
         NEW v, NEW w
  PROVE  Good(Step(program, w, b), Step(program, v, a))
<1> DEFINE it == Head(a.todo)
           id == it.id
           st == program.code[id]
           t  == Tail(a.todo)
           c  == a.env[st.iv] + st.step
           at(s) == Run(a.env, a.ref, a.len, a.static, a.out, a.log, s)
           do(s) == Run(Put(a.env, st.iv, c), a.ref, a.len, a.static, a.out, a.log, s)
<1>1. /\ st.s = "for" /\ id \in Places /\ a = at(a.todo) /\ b = at(b.todo)
      /\ b.todo # <<>> /\ Head(b.todo).at = "update" /\ Head(b.todo).id = id /\ Head(b.todo).fast = {}
      /\ Tail(b.todo) = Bare(t) /\ b.env = a.env
  BY LoopFrom
<1>2. /\ a \in Runs /\ it.fast \in SUBSET Places
      /\ Active(it) => Sound(a, it) /\ try_version(program, id) # {}
      /\ \A k \in it.fast : \/ Active(it) /\ it.id = k
                            \/ \E q \in DOMAIN t : Active(t[q]) /\ t[q].id = k
  BY StepFrom
<1>3. st.iv \in Locals /\ st.step \in Int /\ a.env[st.iv] \in Int BY <1>1, <1>2, LoopTyped, RunTyped
<1>4. Step(program, v, a) = Doing(Assigned(a, st.iv, c), <<Item("cond", id, it.fast)>> \o t) BY StepUpdate
<1>5. Step(program, w, b) = Doing(Assigned(b, st.iv, c), <<Item("cond", id, {})>> \o Bare(t))
  <2>1. Step(program, w, b) = Doing(Assigned(b, st.iv, b.env[st.iv] + st.step),
                                    <<Item("cond", id, {})>> \o Tail(b.todo))
    BY <1>1, StepUpdate
  <2> QED BY <2>1, <1>1
<1>6. ASSUME id \in it.fast
      PROVE  /\ c >= 0 /\ try_version(program, id) # {}
             /\ \A x \in try_version(program, id) : Holds(guard_term(st, x), a)
  <2>1. Active(it) BY <1>6 DEF Active
  <2>2. Sound(a, it) /\ try_version(program, id) # {} BY <1>2, <2>1
  <2>3. PICK x \in try_version(program, id) : TRUE BY <2>2
  <2>4. st.step = 1 BY <1>1, <2>3, VersionedIs
  <2>5. a.env[st.iv] >= 0 /\ \A y \in try_version(program, id) : Holds(guard_term(st, y), a)
    BY <2>2 DEF Sound
  <2>6. c >= 0
    <3>1. c = a.env[st.iv] + 1 BY <2>4
    <3>2. \A e \in Int : e >= 0 => e + 1 >= 0 OBVIOUS
    <3> HIDE DEF c, st
    <3> QED BY <1>3, <2>5, <3>1, <3>2
  <2> HIDE DEF c
  <2> QED BY <2>2, <2>5, <2>6
<1> DEFINE fast == it.fast
<1>7. fast \in SUBSET Places /\ c \in Int
  <2>1. fast \in SUBSET Places BY <1>2
  <2>2. c \in Int BY <1>3
  <2> QED BY <2>1, <2>2
<1>8. \A k \in fast : k = id \/ \E q \in DOMAIN t : Active(t[q]) /\ t[q].id = k BY <1>2
<1>9. Good(do(<<Item("cond", id, {})>> \o Bare(t)), do(<<Item("cond", id, fast)>> \o t))
  <2> HIDE DEF c, fast
  <2> QED BY <1>1, <1>6, <1>7, <1>8, LoopGood DEF fast
<1> HIDE DEF it, id, st, t, c
<1>10. Doing(Assigned(a, st.iv, c), <<Item("cond", id, fast)>> \o t) = do(<<Item("cond", id, fast)>> \o t)
  <2>1. Doing(Assigned(at(a.todo), st.iv, c), <<Item("cond", id, fast)>> \o t) = do(<<Item("cond", id, fast)>> \o t)
    BY AssignedIs, DoingIs
  <2> QED BY <2>1, <1>1
<1>11. Doing(Assigned(b, st.iv, c), <<Item("cond", id, {})>> \o Bare(t)) = do(<<Item("cond", id, {})>> \o Bare(t))
  <2>1. Doing(Assigned(at(b.todo), st.iv, c), <<Item("cond", id, {})>> \o Bare(t))
           = do(<<Item("cond", id, {})>> \o Bare(t))
    BY AssignedIs, DoingIs
  <2> QED BY <2>1, <1>1
<1> QED BY <1>4, <1>5, <1>9, <1>10, <1>11


(* The index is within its bound, so in range of the versioned vectors.      *)
LEMMA InRangeOf ==
  ASSUME program \in Programs, NEW a \in Runs, NEW it \in Items, program.code[it.id].s = "for", Sound(a, it),
         Holds(Cmp(program.code[it.id].op, <<Local(program.code[it.id].iv)>>, program.code[it.id].bound), a),
         NEW up, up.id = it.id
  PROVE  Sound(a, up)
<1> DEFINE loop == program.code[it.id]
           i == a.env[loop.iv]
           B == Value(loop.bound, a)
<1>1. it.id \in Places BY ItemIs
<1>2. loop.iv \in Locals /\ loop.bound \in Exprs /\ i \in Int BY <1>1, LoopTyped, RunTyped
<1>3. B \in Int BY <1>2, ValueTyped
<1>4. Value(<<Local(loop.iv)>>, a) = i
  <2>1. Local(loop.iv) \in Atoms BY <1>2 DEF Local, Atoms
  <2> QED BY <2>1, ValueOne, AtomIs
<1>5. i >= 0 /\ \A x \in try_version(program, it.id) : Holds(guard_term(loop, x), a) BY DEF Sound
<1>6. ASSUME NEW x \in try_version(program, it.id) PROVE i < a.len[a.ref[x]]
  <2>1. x \in Vectors /\ loop.op \in {"<", "<="} BY <1>1, VersionedIs
  <2>2. IF loop.op = "<=" THEN B < a.len[a.ref[x]] ELSE B <= a.len[a.ref[x]]
    <3>1. Holds(guard_term(loop, x), a) BY <1>5
    <3> QED BY <2>1, <3>1, GuardIs
  <2>3. a.len[a.ref[x]] \in Nat BY <2>1, LenTyped
  <2>4. IF loop.op = "<" THEN i < B ELSE i <= B
    <3>1. Holds(Cmp(loop.op, <<Local(loop.iv)>>, loop.bound), a) OBVIOUS
    <3> HIDE DEF loop
    <3>2. CASE loop.op = "<" BY <3>1, <3>2, <1>4 DEF Holds, Cmp
    <3>3. CASE loop.op = "<=" BY <3>1, <3>3, <1>4 DEF Holds, Cmp
    <3> QED BY <3>2, <3>3, <2>1
  <2> HIDE DEF i, B
  <2> QED BY <1>2, <1>3, <2>1, <2>2, <2>3, <2>4
<1> QED BY <1>5, <1>6 DEF Sound

(* The condition of a loop: its body and then its update, or what follows.   *)
LEMMA CondStep ==
  ASSUME program \in Programs, NEW a, NEW b, Good(b, a), a.todo # <<>>, Head(a.todo).at = "cond",
         NEW v, NEW w
  PROVE  Good(Step(program, w, b), Step(program, v, a))
<1> DEFINE it == Head(a.todo)
           id == it.id
           st == program.code[id]
           t  == Tail(a.todo)
           c  == Cmp(st.op, <<Local(st.iv)>>, st.bound)
           fast == it.fast
           up == Item("update", id, fast)
           t1 == <<up>> \o t
           u  == Block(st.body, fast) \o t1
           do(s) == Run(a.env, a.ref, a.len, a.static, a.out, a.log, s)
<1>1. /\ st.s = "for" /\ id \in Places /\ a = do(a.todo) /\ b = do(b.todo)
      /\ b.todo # <<>> /\ Head(b.todo).at = "cond" /\ Head(b.todo).id = id /\ Head(b.todo).fast = {}
      /\ Tail(b.todo) = Bare(t)
  BY LoopFrom
<1>2. /\ it \in Items /\ a \in Runs /\ b \in Runs /\ Same(a, b) /\ it.fast \in SUBSET Places
      /\ t \in Seq(Items) /\ Nest(t) /\ Waiting(t) /\ AllSound(a, t)
      /\ Active(it) => Sound(a, it) /\ try_version(program, id) # {}
      /\ \A q \in DOMAIN t : Active(t[q]) => Inside(id, t[q].id)
      /\ \A k \in it.fast : \/ Active(it) /\ it.id = k
                            \/ \E q \in DOMAIN t : Active(t[q]) /\ t[q].id = k
  BY StepFrom
<1>3. st.iv \in Locals /\ st.bound \in Exprs /\ st.body \in Seq(Places) BY <1>1, LoopTyped
<1>4. Holds(c, b) <=> Holds(c, a)
  <2>1. Local(st.iv) \in Atoms BY <1>3 DEF Local, Atoms
  <2>2. <<Local(st.iv)>> \in Exprs BY <1>2, <2>1, ValueOne
  <2>3. c.a \in Exprs /\ c.b \in Exprs
    <3> HIDE DEF st
    <3> QED BY <1>3, <2>2 DEF Cmp
  <2>4. Same(a, b) BY <1>2
  <2> HIDE DEF c
  <2> QED BY <1>2, <2>3, <2>4, HoldsSame
<1>5. Step(program, v, a) = Doing(a, IF Holds(c, a) THEN u ELSE t) BY StepCond
<1>6. Step(program, w, b) = Doing(b, IF Holds(c, a) THEN Block(st.body, {}) \o (<<Item("update", id, {})>> \o Bare(t))
                                                    ELSE Bare(t))
  <2>1. Step(program, w, b) = Doing(b, IF Holds(c, b)
                                       THEN Block(st.body, {}) \o (<<Item("update", id, {})>> \o Tail(b.todo))
                                       ELSE Tail(b.todo))
    BY <1>1, StepCond
  <2> QED BY <2>1, <1>1, <1>4
<1>7. \A s : Doing(a, s) = do(s) /\ Doing(b, s) = do(s)
  <2>1. \A s : Doing(do(a.todo), s) = do(s) /\ Doing(do(b.todo), s) = do(s) BY DoingIs
  <2> HIDE DEF do
  <2> QED BY <2>1, <1>1
<1>8. CASE ~Holds(c, a)
  <2>1. Good(do(Bare(t)), do(t))
    <3>1. t # <<>> => Waiting(Tail(t)) BY <1>2, WaitingTail
    <3> QED BY <3>1, <1>2, ControlGood
  <2> HIDE DEF t, c, u, do
  <2> QED BY <1>5, <1>6, <1>7, <1>8, <2>1
<1>9. CASE Holds(c, a)
  <2>1. up \in Items /\ up.at = "update" /\ up.id = id /\ up.fast = fast BY <1>1, <1>2, ItemTyped
  <2>2. Bare(<<up>>) = <<Item("update", id, {})>> /\ <<up>> \in Seq(Items) BY <1>1, <1>2, BareOne
  <2> HIDE DEF up
  <2>3. Active(up) => Active(it) BY <2>1 DEF Active
  <2>4. Active(up) => Sound(a, up) BY <1>1, <1>2, <1>9, <2>1, <2>3, InRangeOf
  <2>5. /\ t1 \in Seq(Items) /\ Nest(t1) /\ Waiting(t1)
        /\ \A m : AllSound(m, t) /\ (Active(up) => Sound(m, up)) => AllSound(m, t1)
    <3>1. program.code[up.id].s = "for" /\ up.at # "stmt" /\ up.at # "cond" BY <1>1, <2>1
    <3>2. Active(up) => try_version(program, up.id) # {} BY <1>2, <2>1, <2>3
    <3>3. \A k \in up.fast : k = up.id \/ \E q \in DOMAIN t : Active(t[q]) /\ t[q].id = k BY <1>2, <2>1
    <3>4. \A q \in DOMAIN t : Active(t[q]) => Inside(up.id, t[q].id) BY <1>2, <2>1
    <3> HIDE DEF t
    <3> QED BY <1>2, <2>1, <3>1, <3>2, <3>3, <3>4, NestLoop
  <2>6. AllSound(a, t1) BY <1>2, <2>4, <2>5
  <2>7. /\ 1 \in DOMAIN t1 /\ t1[1] = up
        /\ \A q \in DOMAIN t1 : q = 1 \/ (q - 1 \in DOMAIN t /\ t1[q] = t[q - 1])
    <3> HIDE DEF t
    <3> QED BY <1>2
  <2>8. Bare(t1) = <<Item("update", id, {})>> \o Bare(t) BY <1>2, <2>2, BareConcat
  <2> HIDE DEF t1
  <2>9. \A k \in fast : \E q \in DOMAIN t1 : Active(t1[q]) /\ t1[q].id = k
    <3>1. \A k \in t1[1].fast : \E q \in DOMAIN t1 : 1 <= q /\ Active(t1[q]) /\ t1[q].id = k
      BY <2>5, <2>7 DEF Nest
    <3> QED BY <2>1, <2>7, <3>1
  <2>10. ASSUME NEW i \in Range(st.body), NEW q \in DOMAIN t1, Active(t1[q])
         PROVE  Inside(i, t1[q].id)
    <3>1. CASE q = 1
      <4>1. Range(st.body) \subseteq Places BY <1>1, EnteredTyped
      <4>2. i \in Walk(program, id) BY <1>1, <4>1, WalkIs
      <4> QED BY <2>1, <2>7, <3>1, <4>2 DEF Inside
    <3>2. CASE q - 1 \in DOMAIN t /\ t1[q] = t[q - 1]
      <4>1. t1[q] \in Items BY <2>5
      <4>4. Inside(id, t1[q].id)
        <5> HIDE DEF t, id
        <5>1. q - 1 \in DOMAIN t /\ Active(t[q - 1]) BY <2>10, <3>2
        <5>2. Inside(id, t[q - 1].id) BY <1>2, <5>1
        <5> QED BY <3>2, <5>2
      <4>2. t1[q].id \in Places BY <4>1, ItemIs
      <4>3. i \in Entered(st) BY <1>1, EnteredIs
      <4> QED BY <1>1, <4>2, <4>3, <4>4, EnteredInside
    <3> QED BY <2>7, <3>1, <3>2
  <2>11. /\ u \in Seq(Items) /\ Nest(u) /\ Waiting(u) /\ AllSound(a, u)
         /\ Bare(u) = Block(st.body, {}) \o Bare(t1)
    <3> DEFINE ids == st.body
    <3>1. ids \in Seq(Places) /\ \A i \in Range(ids) : \A q \in DOMAIN t1 : Active(t1[q]) => Inside(i, t1[q].id)
      BY <1>3, <2>10
    <3>2. fast \in SUBSET Places BY <1>2
    <3> HIDE DEF ids, fast
    <3>3. /\ Block(ids, fast) \o t1 \in Seq(Items) /\ Nest(Block(ids, fast) \o t1)
          /\ Waiting(Block(ids, fast) \o t1) /\ AllSound(a, Block(ids, fast) \o t1)
          /\ Bare(Block(ids, fast) \o t1) = Block(ids, {}) \o Bare(t1)
      BY <2>5, <2>6, <2>9, <3>1, <3>2, PushBlock
    <3> QED BY <3>3 DEF ids
  <2> HIDE DEF u
  <2>12. u # <<>> => Waiting(Tail(u)) BY <2>11, WaitingTail
  <2>13. Good(do(Bare(u)), do(u)) BY <2>11, <2>12, ControlGood
  <2> HIDE DEF t, c, do, st, id
  <2> QED BY <1>5, <1>6, <1>7, <1>9, <2>8, <2>11, <2>13
<1> QED BY <1>8, <1>9


(* The outcomes of an access.                                                *)
LEMMA AccessIs ==
  ASSUME NEW e, NEW r, NEW l, NEW c, NEW o, NEW g, NEW t, NEW st, NEW it, NEW v, NEW p,
         st.s \in {"get", "set"}, NEW i, Value(st.i, Run(e, r, l, c, o, g, t)) = i
  PROVE  LET m == Run(e, r, l, c, o, g, t)
             k == r[st.x]
             h == Append(g, <<st.s, k, i>>)
             unchecked == mark(p, v, st, it.fast)
         IN  /\ i \in 0 .. (l[k] - 1) => Exec(p, v, st, it, m) = Run(e, r, l, c, o, h, t)
             /\ i \notin 0 .. (l[k] - 1) /\ ~unchecked /\ st.s = "set" /\ i = l[k] =>
                   Exec(p, v, st, it, m) = Run(e, r, Put(l, k, l[k] + 1), c, o, h, t)
<1> DEFINE m == Run(e, r, l, c, o, g, t)
           k == r[st.x]
           h == Append(g, <<st.s, k, i>>)
           n == l[k]
           unchecked == mark(p, v, st, it.fast)
           hit == [m EXCEPT !.log = Append(@, <<st.s, m.ref[st.x], i>>)]
<1>1. Exec(p, v, st, it, m) = Access(st, unchecked, m) BY DEF Exec
<1>2. m.ref[st.x] = k /\ m.len[k] = n BY RunParts
<1>3. hit = Run(e, r, l, c, o, h, t)
  <2> DEFINE y == <<st.s, k, i>>
  <2>1. [m EXCEPT !.log = Append(@, y)] = Run(e, r, l, c, o, Append(g, y), t)
    <3> HIDE DEF y
    <3> QED BY DEF Run
  <2> HIDE DEF m
  <2> QED BY <2>1, <1>2
<1>4. [Run(e, r, l, c, o, h, t) EXCEPT !.len[k] = n + 1] = Run(e, r, Put(l, k, n + 1), c, o, h, t)
  <2> HIDE DEF h, n, k
  <2> QED BY DEF Run, Put
<1>5. Access(st, unchecked, m) =
         IF i \in 0 .. (n - 1) THEN hit
         ELSE IF unchecked THEN Stop(m, "ub")
         ELSE IF st.s = "set" /\ i = n THEN [hit EXCEPT !.len[k] = n + 1]
         ELSE Stop(m, "RangeError")
  <2>1. Access(st, unchecked, m) =
         IF i \in 0 .. (m.len[m.ref[st.x]] - 1) THEN hit
         ELSE IF unchecked THEN Stop(m, "ub")
         ELSE IF st.s = "set" /\ i = m.len[m.ref[st.x]]
              THEN [hit EXCEPT !.len[m.ref[st.x]] = m.len[m.ref[st.x]] + 1]
         ELSE Stop(m, "RangeError")
    <3>1. Value(st.i, m) = i OBVIOUS
    <3> HIDE DEF m
    <3> QED BY <3>1 DEF Access
  <2> HIDE DEF m, k, n, hit, unchecked
  <2> QED BY <2>1, <1>2
<1> HIDE DEF m, h, k, n, hit, unchecked
<1>6. /\ i \in 0 .. (n - 1) => Exec(p, v, st, it, m) = Run(e, r, l, c, o, h, t)
      /\ i \notin 0 .. (n - 1) /\ ~unchecked /\ st.s = "set" /\ i = n =>
            Exec(p, v, st, it, m) = Run(e, r, Put(l, k, n + 1), c, o, h, t)
  BY <1>1, <1>3, <1>4, <1>5
<1> QED BY <1>6 DEF m, h, k, n, unchecked

(* An access that neither hits nor grows the vector, and is checked.         *)
LEMMA FailIs ==
  ASSUME NEW e, NEW r, NEW l, NEW c, NEW o, NEW g, NEW t, NEW st, NEW it, NEW v, NEW p,
         st.s \in {"get", "set"}, NEW i, Value(st.i, Run(e, r, l, c, o, g, t)) = i,
         i \notin 0 .. (l[r[st.x]] - 1) /\ ~(st.s = "set" /\ i = l[r[st.x]]), ~mark(p, v, st, it.fast)
  PROVE  Exec(p, v, st, it, Run(e, r, l, c, o, g, t)) = Run(e, r, l, c, "RangeError", g, <<>>)
<1> DEFINE m == Run(e, r, l, c, o, g, t)
           unchecked == mark(p, v, st, it.fast)
<1>1. Exec(p, v, st, it, m) = Access(st, unchecked, m) BY DEF Exec
<1>2. m.ref[st.x] = r[st.x] /\ m.len[m.ref[st.x]] = l[r[st.x]] /\ Value(st.i, m) = i /\ ~unchecked
  BY RunParts
<1>3. Stop(m, "RangeError") = Run(e, r, l, c, "RangeError", g, <<>>) BY StopIs
<1>4. i \notin 0 .. (m.len[m.ref[st.x]] - 1) /\ ~(st.s = "set" /\ i = m.len[m.ref[st.x]]) BY <1>2
<1> HIDE DEF m, unchecked
<1>5. Access(st, unchecked, m) = Stop(m, "RangeError") BY <1>2, <1>4 DEF Access
<1>6. Exec(p, v, st, it, m) = Run(e, r, l, c, "RangeError", g, <<>>) BY <1>1, <1>3, <1>5
<1> QED BY <1>6 DEF m

(* An unchecked access is in range, and the loops it is unchecked in are     *)
(* running; the function as it was checks every access.                     *)
LEMMA MarkIs ==
  ASSUME program \in Programs, BoundsHold, NEW a, NEW b, Good(b, a), a.todo # <<>>, Head(a.todo).at = "stmt",
         program.code[Head(a.todo).id].s \in {"get", "set"}
  PROVE  LET it == Head(a.todo)
             st == program.code[it.id]
         IN  /\ mark(program, rewrite(program), st, it.fast) =>
                   Value(st.i, a) \in 0 .. (a.len[a.ref[st.x]] - 1)
             /\ \A w : ~mark(program, w, st, {})
<1> DEFINE it == Head(a.todo)
           st == program.code[it.id]
           t  == Tail(a.todo)
<1>1. /\ t \in Seq(Items) /\ it.id \in Places /\ it.fast \in SUBSET Places /\ a \in Runs
      /\ Nest(t) /\ Waiting(t) /\ AllSound(a, t)
      /\ \A k \in it.fast : \/ Active(it) /\ it.id = k
                            \/ \E q \in DOMAIN t : Active(t[q]) /\ t[q].id = k
  BY StepFrom
<1>2. ~Active(it) BY DEF Active
<1>3. st.x \in Vectors /\ st.i \in Exprs BY <1>1, CodeTyped, StatementTyped
<1>4. \A w : ~mark(program, w, st, {}) BY DEF mark
<1> HIDE DEF it, st, t
<1>5. ASSUME mark(program, rewrite(program), st, it.fast)
      PROVE  Value(st.i, a) \in 0 .. (a.len[a.ref[st.x]] - 1)
  <2>1. PICK k \in it.fast : st.x \in rewrite(program)[k] /\ st.i = <<Local(program.code[k].iv)>>
    BY <1>5 DEF mark
  <2>2. k \in Places /\ st.x \in try_version(program, k) BY <1>1, <2>1 DEF rewrite, Places
  <2>3. PICK q \in DOMAIN t : Active(t[q]) /\ t[q].id = k BY <1>1, <1>2, <2>1
  <2>4. t[q].at = "update" /\ Sound(a, t[q]) /\ program.code[k].s = "for" BY <1>1, <2>3, Around
  <2>5. program.code[k].iv \in Locals BY <2>2, <2>4, LoopTyped
  <2> DEFINE y == program.code[k].iv
  <2>6. a.env[y] >= 0 /\ a.env[y] < a.len[a.ref[st.x]] BY <2>2, <2>3, <2>4 DEF Sound
  <2> HIDE DEF y
  <2>7. y \in Locals /\ a.env[y] \in Int BY <1>1, <2>5, RunTyped DEF y
  <2>8. Value(<<Local(y)>>, a) = a.env[y]
    <3>1. Local(y) \in Atoms BY <2>7 DEF Local, Atoms
    <3> QED BY <1>1, <3>1, ValueOne, AtomIs
  <2>9. a.len[a.ref[st.x]] \in Nat BY <1>1, <1>3, LenTyped
  <2>10. Value(st.i, a) = a.env[y] BY <2>1, <2>8 DEF y
  <2> QED BY <2>6, <2>7, <2>9, <2>10
<1> QED BY <1>4, <1>5 DEF it, st


(* The access that is next is in range, or is a store at the end.            *)
Hits(m) ==
    LET st == program.code[Head(m.todo).id]
    IN  Value(st.i, m) \in 0 .. (m.len[m.ref[st.x]] - 1)

Grows(m) ==
    LET st == program.code[Head(m.todo).id]
    IN  st.s = "set" /\ Value(st.i, m) = m.len[m.ref[st.x]]

(* An access in range.                                                       *)
LEMMA HitStep ==
  ASSUME program \in Programs, BoundsHold, NEW a, NEW b, Good(b, a), a.todo # <<>>, Head(a.todo).at = "stmt",
         program.code[Head(a.todo).id].s \in {"get", "set"}, NEW v, NEW w, Hits(a)
  PROVE  Good(Step(program, w, b), Step(program, v, a))
<1> DEFINE it == Head(a.todo)
           st == program.code[it.id]
           t  == Tail(a.todo)
           k  == a.ref[st.x]
           i  == Value(st.i, a)
           h  == Append(a.log, <<st.s, k, i>>)
           bare == Item("stmt", it.id, {})
           do(g, u) == Run(a.env, a.ref, a.len, a.static, a.out, g, u)
           n  == do(h, t)
<1>1. /\ t \in Seq(Items) /\ it.id \in Places /\ a \in Runs /\ Apart(a) /\ Nest(t) /\ AllSound(a, t)
      /\ Rest(a) = do(a.log, t) /\ Rest(b) = do(a.log, Bare(t))
      /\ Rest(a) \in Runs /\ Rest(b) \in Runs /\ Same(a, Rest(a)) /\ Same(a, Rest(b))
  BY StepFrom
<1>2. /\ Step(program, v, a) = Exec(program, v, st, it, Rest(a))
      /\ Step(program, w, b) = Exec(program, w, st, bare, Rest(b))
  BY StatementSteps
<1>3. st.x \in Vectors /\ st.i \in Exprs BY <1>1, CodeTyped, StatementTyped
<1>4. st.s \in {"get", "set"} /\ i \in 0 .. (a.len[k] - 1) BY DEF Hits
<1>5. i \in Int /\ Value(st.i, Rest(a)) = i /\ Value(st.i, Rest(b)) = i BY <1>1, <1>3, SumSame, ValueTyped
<1>6. /\ a.env \in [Locals -> Int] /\ a.ref \in [Vectors -> Objects] /\ a.len \in [Objects -> Nat]
      /\ a.static \in Int /\ a.out \in {"running", "RangeError"}
      /\ a.log \in Seq({"get", "set"} \X Objects \X Int)
  BY <1>1, RunTyped
<1> HIDE DEF it, st, t, i, bare
<1>7. h \in Seq({"get", "set"} \X Objects \X Int)
  <2>1. <<st.s, k, i>> \in {"get", "set"} \X Objects \X Int BY <1>3, <1>4, <1>5, <1>6
  <2> QED BY <2>1, <1>6
<1>8. Step(program, v, a) = n
  <2>1. Value(st.i, do(a.log, t)) = i BY <1>1, <1>5
  <2>2. Exec(program, v, st, it, do(a.log, t)) = n BY <1>4, <2>1, AccessIs
  <2> QED BY <2>2, <1>1, <1>2
<1>9. Step(program, w, b) = do(h, Bare(t))
  <2>1. Value(st.i, do(a.log, Bare(t))) = i BY <1>1, <1>5
  <2>2. Exec(program, w, st, bare, do(a.log, Bare(t))) = do(h, Bare(t)) BY <1>4, <2>1, AccessIs
  <2> QED BY <2>2, <1>1, <1>2
<1> HIDE DEF h, k
<1>10. n \in Runs BY <1>1, <1>6, <1>7, RunMade
<1>11. n.env = a.env /\ n.ref = a.ref /\ n.len = a.len /\ n.static = a.static BY RunParts
<1> HIDE DEF n
<1>12. ASSUME NEW q \in DOMAIN t, Active(t[q]) PROVE Sound(n, t[q])
  <2>1. t[q] \in Items BY <1>1
  <2>2. program.code[t[q].id].s = "for" BY <1>1, <1>12 DEF Nest, Active
  <2>3. Sound(a, t[q]) BY <1>1, <1>12 DEF AllSound
  <2>4. Same(a, n) BY <1>11 DEF Same
  <2> QED BY <2>1, <2>2, <2>3, <2>4, <1>1, <1>10, KeptSame
<1>13. Apart(n) BY <1>1, <1>11 DEF Apart
<1>14. Good(do(h, Bare(t)), n) BY <1>6, <1>7, <1>12, <1>13, MemoryGood DEF n, t
<1> QED BY <1>8, <1>9, <1>14

(* A store at the end of a vector makes it longer.                           *)
LEMMA GrowStep ==
  ASSUME program \in Programs, BoundsHold, NEW a, NEW b, Good(b, a), a.todo # <<>>, Head(a.todo).at = "stmt",
         program.code[Head(a.todo).id].s = "set", NEW v, NEW w,
         ~mark(program, v, program.code[Head(a.todo).id], Head(a.todo).fast),
         ~mark(program, w, program.code[Head(a.todo).id], {}), Grows(a)
  PROVE  Good(Step(program, w, b), Step(program, v, a))
<1> DEFINE it == Head(a.todo)
           st == program.code[it.id]
           t  == Tail(a.todo)
           k  == a.ref[st.x]
           i  == Value(st.i, a)
           h  == Append(a.log, <<st.s, k, i>>)
           l  == Put(a.len, k, a.len[k] + 1)
           bare == Item("stmt", it.id, {})
           do(f, g, u) == Run(a.env, a.ref, f, a.static, a.out, g, u)
           n  == do(l, h, t)
<1>1. /\ t \in Seq(Items) /\ it.id \in Places /\ a \in Runs /\ Apart(a)
      /\ Rest(a) = do(a.len, a.log, t) /\ Rest(b) = do(a.len, a.log, Bare(t))
      /\ Rest(a) \in Runs /\ Rest(b) \in Runs /\ Same(a, Rest(a)) /\ Same(a, Rest(b))
  BY StepFrom
<1>2. /\ Step(program, v, a) = Exec(program, v, st, it, Rest(a))
      /\ Step(program, w, b) = Exec(program, w, st, bare, Rest(b))
  BY StatementSteps
<1>3. st.x \in Vectors /\ st.i \in Exprs BY <1>1, CodeTyped, StatementTyped
<1>4. /\ st.s = "set" /\ i = a.len[k]
      /\ ~mark(program, v, st, it.fast) /\ ~mark(program, w, st, {})
  BY DEF Grows
<1>5. i \in Int /\ Value(st.i, Rest(a)) = i /\ Value(st.i, Rest(b)) = i BY <1>1, <1>3, SumSame, ValueTyped
<1>6. /\ a.env \in [Locals -> Int] /\ a.ref \in [Vectors -> Objects] /\ a.len \in [Objects -> Nat]
      /\ a.static \in Int /\ a.out \in {"running", "RangeError"}
      /\ a.log \in Seq({"get", "set"} \X Objects \X Int)
  BY <1>1, RunTyped
<1>15. bare.fast = {} BY <1>1, ItemTyped
<1>16. ASSUME NEW q \in DOMAIN t, Active(t[q])
       PROVE  LET loop == program.code[t[q].id]
              IN  /\ t[q] \in Items /\ t[q].at = "update" /\ Sound(a, t[q]) /\ loop.s = "for" /\ loop.iv \in Locals
                  /\ \/ Length(st.x) \notin Range(loop.bound)
                     \/ st.i = <<Local(loop.iv)>> /\ loop.op = "<" /\ loop.bound = <<Length(st.x)>>
  <2>1. /\ t[q] \in Items /\ t[q].id \in Places /\ t[q].at = "update" /\ Sound(a, t[q])
        /\ program.code[t[q].id].s = "for" /\ it.id \in Walk(program, t[q].id)
    BY <1>4, <1>16, LoopsAround
  <2>2. program.code[t[q].id].iv \in Locals BY <2>1, LoopTyped
  <2>3. LET loop == program.code[t[q].id]
        IN  \/ Length(st.x) \notin Range(loop.bound)
            \/ st.i = <<Local(loop.iv)>> /\ loop.op = "<" /\ loop.bound = <<Length(st.x)>>
    BY <1>4, <2>1, BoundIs
  <2> QED BY <2>1, <2>2, <2>3
<1> HIDE DEF it, st, t, i, bare
<1>7. h \in Seq({"get", "set"} \X Objects \X Int)
  <2>1. <<st.s, k, i>> \in {"get", "set"} \X Objects \X Int BY <1>3, <1>4, <1>5, <1>6
  <2> QED BY <2>1, <1>6
<1>17. k \in Objects /\ a.len[k] \in Nat /\ i \notin 0 .. (a.len[k] - 1) BY <1>3, <1>4, <1>6
<1>8. Step(program, v, a) = n
  <2>1. Value(st.i, do(a.len, a.log, t)) = i BY <1>1, <1>5
  <2>2. Exec(program, v, st, it, do(a.len, a.log, t)) = n BY <1>4, <1>17, <2>1, AccessIs
  <2> QED BY <2>2, <1>1, <1>2
<1>9. Step(program, w, b) = do(l, h, Bare(t))
  <2>1. Value(st.i, do(a.len, a.log, Bare(t))) = i BY <1>1, <1>5
  <2>2. ~mark(program, w, st, bare.fast) BY <1>4, <1>15
  <2>3. Exec(program, w, st, bare, do(a.len, a.log, Bare(t))) = do(l, h, Bare(t))
    BY <1>4, <1>17, <2>1, <2>2, AccessIs
  <2> QED BY <2>3, <1>1, <1>2
<1>18. \A x \in Vectors : x # st.x => a.ref[x] \in Objects /\ a.ref[x] # k BY <1>1, <1>3, <1>6 DEF Apart
<1>19. a.ref[st.x] = k OBVIOUS
<1> HIDE DEF h, k
<1>20. l \in [Objects -> Nat] /\ l[k] = a.len[k] + 1 /\ \A y \in Objects : y # k => l[y] = a.len[y]
  BY <1>6, <1>17 DEF Put
<1>21. \A x \in Vectors : x # st.x => l[a.ref[x]] = a.len[a.ref[x]] BY <1>18, <1>20
<1> HIDE DEF l
<1>10. n \in Runs BY <1>1, <1>6, <1>7, <1>20, RunMade
<1>11. n.env = a.env /\ n.ref = a.ref /\ n.len = l /\ n.static = a.static BY RunParts
<1> HIDE DEF n
<1>22. \A x \in Vectors : x # st.x => n.len[n.ref[x]] = a.len[a.ref[x]] BY <1>11, <1>21
<1>23. n.len[n.ref[st.x]] = i + 1 /\ a.len[a.ref[st.x]] = i /\ i \in Nat BY <1>4, <1>11, <1>17, <1>19, <1>20
<1>12. ASSUME NEW q \in DOMAIN t, Active(t[q]) PROVE Sound(n, t[q])
  <2> DEFINE loop == program.code[t[q].id]
  <2>1. /\ t[q] \in Items /\ t[q].at = "update" /\ Sound(a, t[q]) /\ loop.s = "for" /\ loop.iv \in Locals
        /\ \/ Length(st.x) \notin Range(loop.bound)
           \/ st.i = <<Local(loop.iv)>> /\ loop.op = "<" /\ loop.bound = <<Length(st.x)>>
    BY <1>12, <1>16
  <2>2. CASE Length(st.x) \notin Range(loop.bound)
    <3>1. a.len[a.ref[st.x]] <= n.len[n.ref[st.x]] BY <1>23
    <3> QED BY <2>1, <2>2, <3>1, <1>1, <1>3, <1>10, <1>11, <1>22, KeptLength
  <2>3. CASE st.i = <<Local(loop.iv)>> /\ loop.op = "<" /\ loop.bound = <<Length(st.x)>>
    <3> DEFINE y == loop.iv
    <3>1. y \in Locals BY <2>1
    <3>2. st.i = <<Local(y)>> BY <2>3
    <3> HIDE DEF y
    <3>3. Local(y) \in Atoms BY <3>1 DEF Local, Atoms
    <3>4. i = a.env[y] BY <1>1, <3>2, <3>3, ValueOne, AtomIs DEF i
    <3>5. a.len[a.ref[st.x]] = a.env[loop.iv] /\ n.len[n.ref[st.x]] = a.env[loop.iv] + 1 BY <1>23, <3>4 DEF y
    <3> QED BY <2>1, <2>3, <3>5, <1>1, <1>3, <1>10, <1>11, <1>22, KeptStore
  <2> QED BY <2>1, <2>2, <2>3
<1>13. Apart(n) BY <1>1, <1>11 DEF Apart
<1>14. Good(do(l, h, Bare(t)), n) BY <1>6, <1>7, <1>12, <1>13, <1>20, MemoryGood DEF n, t
<1> QED BY <1>8, <1>9, <1>14


(* A RangeError ends both runs.                                              *)
LEMMA RangeErrorStep ==
  ASSUME program \in Programs, BoundsHold, NEW a, NEW b, Good(b, a), a.todo # <<>>, Head(a.todo).at = "stmt",
         program.code[Head(a.todo).id].s \in {"get", "set"}, NEW v, NEW w,
         ~mark(program, v, program.code[Head(a.todo).id], Head(a.todo).fast),
         ~mark(program, w, program.code[Head(a.todo).id], {}), ~Hits(a), ~Grows(a)
  PROVE  Good(Step(program, w, b), Step(program, v, a))
<1> DEFINE it == Head(a.todo)
           st == program.code[it.id]
           t  == Tail(a.todo)
           k  == a.ref[st.x]
           i  == Value(st.i, a)
           bare == Item("stmt", it.id, {})
           do(how, u) == Run(a.env, a.ref, a.len, a.static, how, a.log, u)
           none == <<>>
           n  == do("RangeError", none)
<1>1. /\ t \in Seq(Items) /\ it.id \in Places /\ a \in Runs /\ Apart(a)
      /\ Rest(a) = do(a.out, t) /\ Rest(b) = do(a.out, Bare(t))
      /\ Rest(a) \in Runs /\ Rest(b) \in Runs /\ Same(a, Rest(a)) /\ Same(a, Rest(b))
  BY StepFrom
<1>2. /\ Step(program, v, a) = Exec(program, v, st, it, Rest(a))
      /\ Step(program, w, b) = Exec(program, w, st, bare, Rest(b))
  BY StatementSteps
<1>3. st.s \in {"get", "set"} OBVIOUS
<1>4. st.i \in Exprs BY <1>1, <1>3, CodeTyped, StatementTyped
<1>5. /\ i \notin 0 .. (a.len[k] - 1) /\ ~(st.s = "set" /\ i = a.len[k])
      /\ ~mark(program, v, st, it.fast) /\ ~mark(program, w, st, {})
  BY DEF Hits, Grows
<1>6. Value(st.i, Rest(a)) = i /\ Value(st.i, Rest(b)) = i BY <1>1, <1>4, SumSame
<1>7. ~mark(program, w, st, bare.fast)
  <2>1. bare.fast = {} BY <1>1, ItemTyped
  <2> HIDE DEF bare, st
  <2> QED BY <1>5, <2>1
<1>8. /\ a.env \in [Locals -> Int] /\ a.ref \in [Vectors -> Objects] /\ a.len \in [Objects -> Nat]
      /\ a.static \in Int /\ a.log \in Seq({"get", "set"} \X Objects \X Int)
  BY <1>1, RunTyped
<1> HIDE DEF it, st, t, i, bare
<1>9. Step(program, v, a) = n
  <2>1. Value(st.i, do(a.out, t)) = i BY <1>1, <1>6
  <2>2. ~mark(program, v, st, it.fast) BY <1>5
  <2>3. i \notin 0 .. (a.len[a.ref[st.x]] - 1) /\ ~(st.s = "set" /\ i = a.len[a.ref[st.x]]) BY <1>5
  <2>4. Exec(program, v, st, it, do(a.out, t)) = do("RangeError", <<>>)
    BY <1>3, <2>1, <2>2, <2>3, FailIs
  <2> QED BY <2>4, <1>1, <1>2
<1>10. Step(program, w, b) = n
  <2>1. Value(st.i, do(a.out, Bare(t))) = i BY <1>1, <1>6
  <2>2. i \notin 0 .. (a.len[a.ref[st.x]] - 1) /\ ~(st.s = "set" /\ i = a.len[a.ref[st.x]]) BY <1>5
  <2>3. Exec(program, w, st, bare, do(a.out, Bare(t))) = do("RangeError", <<>>)
    BY <1>3, <1>7, <2>1, <2>2, FailIs
  <2> QED BY <2>3, <1>1, <1>2
<1>11. none \in Seq(Items) /\ DOMAIN none = {} /\ Len(none) = 0 OBVIOUS
<1>12. Bare(none) = none
  <2>1. \A s \in Seq(Items) : Len(s) = 0 => s = none OBVIOUS
  <2> HIDE DEF none
  <2> QED BY <1>11, <2>1, BareIs
<1>13. n.ref = a.ref BY RunParts
<1>14. Apart(n)
  <2>1. Apart(a) BY <1>1
  <2> HIDE DEF n
  <2> QED BY <1>13, <2>1 DEF Apart
<1>15. Nest(none) /\ AllSound(n, none) BY <1>11 DEF Nest, AllSound
<1>16. none # <<>> => Waiting(Tail(none)) OBVIOUS
<1> HIDE DEF none
<1>17. Good(do("RangeError", Bare(none)), do("RangeError", none))
  BY <1>8, <1>11, <1>14, <1>15, <1>16, GoodMade
<1> QED BY <1>9, <1>10, <1>12, <1>17

(* An access.                                                                *)
LEMMA AccessStep ==
  ASSUME program \in Programs, BoundsHold, NEW a, NEW b, Good(b, a), a.todo # <<>>, Head(a.todo).at = "stmt",
         program.code[Head(a.todo).id].s \in {"get", "set"}
  PROVE  Good(Step(program, Untouched(program), b), Step(program, rewrite(program), a))
<1> DEFINE st == program.code[Head(a.todo).id]
           v  == rewrite(program)
           w  == Untouched(program)
<1>1. /\ mark(program, v, st, Head(a.todo).fast) => Hits(a)
      /\ ~mark(program, w, st, {})
  BY MarkIs DEF Hits
<1>2. Grows(a) => st.s = "set" BY DEF Grows
<1>3. SUFFICES Good(Step(program, w, b), Step(program, v, a)) OBVIOUS
<1> HIDE DEF v, w
<1>4. CASE Hits(a) BY <1>4, HitStep
<1>5. CASE ~Hits(a) /\ Grows(a)
  <2>1. ~mark(program, v, st, Head(a.todo).fast) BY <1>1, <1>5
  <2>2. st.s = "set" BY <1>2, <1>5
  <2> QED BY <1>1, <1>5, <2>1, <2>2, GrowStep
<1>6. CASE ~Hits(a) /\ ~Grows(a)
  <2>1. ~mark(program, v, st, Head(a.todo).fast) BY <1>1, <1>6
  <2> QED BY <1>1, <1>6, <2>1, RangeErrorStep
<1> QED BY <1>4, <1>5, <1>6


(* Every step of the two runs keeps them together.                           *)
LEMMA StepKeeps ==
  ASSUME program \in Programs, NothingHidden, BoundsHold, NEW a, NEW b, Good(b, a)
  PROVE  Good(Step(program, Untouched(program), b), Step(program, rewrite(program), a))
<1> DEFINE it == Head(a.todo)
           st == program.code[it.id]
           v  == rewrite(program)
           w  == Untouched(program)
<1>1. CASE a.todo = <<>>
  <2>1. b.todo = Bare(a.todo) /\ a \in Runs BY DEF Good, Twins
  <2>2. b.todo = <<>>
    <3>1. a.todo \in Seq(Items) /\ Len(a.todo) = 0 BY <1>1, <2>1, RunTyped
    <3>2. Bare(a.todo) \in Seq(Items) /\ Len(Bare(a.todo)) = 0 BY <3>1, BareIs
    <3> QED BY <2>1, <3>2
  <2>3. Step(program, v, a) = a BY <1>1, StepOver
  <2>4. Step(program, w, b) = b BY <2>2, StepOver
  <2> QED BY <2>3, <2>4
<1>2. CASE a.todo # <<>>
  <2>1. it \in Items /\ it.id \in Places BY <1>2, StepFrom
  <2>2. it.at \in {"stmt", "cond", "update"} BY <2>1, ItemIs
  <2>3. CASE it.at = "cond" BY <1>2, <2>3, CondStep
  <2>4. CASE it.at = "update" BY <1>2, <2>4, UpdateStep
  <2>5. CASE it.at = "stmt"
    <3>1. st.s \in {"get", "set", "push", "pop", "renew", "assign", "static", "if", "switch", "call",
                    "break", "continue", "for"}
      BY <2>1, CodeTyped, StatementTyped
    <3>2. CASE st.s \in {"get", "set"} BY <1>2, <2>5, <3>2, AccessStep
    <3>3. CASE st.s = "push" BY <1>2, <2>5, <3>3, PushStep
    <3>4. CASE st.s = "pop" BY <1>2, <2>5, <3>4, PopStep
    <3>5. CASE st.s = "renew" BY <1>2, <2>5, <3>5, RenewStep
    <3>6. CASE st.s = "assign" BY <1>2, <2>5, <3>6, AssignStep
    <3>7. CASE st.s = "static" BY <1>2, <2>5, <3>7, StaticStep
    <3>8. CASE st.s = "if" BY <1>2, <2>5, <3>8, IfStep
    <3>9. CASE st.s = "switch" BY <1>2, <2>5, <3>9, SwitchStep
    <3>10. CASE st.s = "call" BY <1>2, <2>5, <3>10, CallStep
    <3>11. CASE st.s \in {"break", "continue"}
      <4>1. st.s \in {"continue", "break"} BY <3>11
      <4> QED BY <1>2, <2>5, <4>1, LeaveStep
    <3>12. CASE st.s = "for" BY <1>2, <2>5, <3>12, ForStep
    <3> QED BY <3>1, <3>2, <3>3, <3>4, <3>5, <3>6, <3>7, <3>8, <3>9, <3>10, <3>11, <3>12
  <2> QED BY <2>2, <2>3, <2>4, <2>5
<1> QED BY <1>1, <1>2

-----------------------------------------------------------------------------
(* ---- the theorems ------------------------------------------------------------- *)

(* Under the three conditions the two runs have done the same, and go on in  *)
(* memory in which the unchecked copies that run are sound.                  *)
IInv ==
    /\ program \in Programs /\ start \in Starts /\ phase \in {"mir", "running"}
    /\ phase = "running" => versioned = rewrite(program)
    /\ NoAliases /\ NothingHidden /\ BoundsHold => Good(before, after)

(* Nothing is unchecked before the first step.                               *)
LEMMA InitHolds == Init => IInv
<1> SUFFICES ASSUME Init PROVE IInv OBVIOUS
<1>1. program \in Programs /\ start \in Starts /\ phase = "mir" BY DEF Init
<1>2. IsStart(start) /\ IsProgram(program) BY <1>1, ProgramAssumption
<1> DEFINE none == {}
           u == Block(program.main, none)
           o == "running"
           g == <<>>
           do(t) == Run(start.env, start.ref, start.len, start.static, o, g, t)
<1>3. program.main \in Seq(Places) /\ none \in SUBSET Places BY <1>2 DEF IsProgram, Places
<1>4. before = do(u) /\ after = do(u) BY DEF Init, Ready, Run
<1>5. Bare(u) = u BY <1>3, BareBlock
<1>6. /\ u \in Seq(Items) /\ DOMAIN u = DOMAIN program.main
      /\ \A p \in DOMAIN program.main :
            u[p] = Item("stmt", program.main[p], none) /\ program.main[p] \in Places
  <2> HIDE DEF none
  <2> QED BY <1>3, BlockIs
<1>7. \A p \in DOMAIN u : u[p].at = "stmt" /\ u[p].fast = {} BY <1>6, ItemTyped
<1> HIDE DEF u
<1>8. \A p \in DOMAIN u : ~Active(u[p]) BY <1>7 DEF Active
<1>9. Nest(u) /\ Waiting(u) /\ \A m : AllSound(m, u) BY <1>7, <1>8 DEF Nest, Waiting, AllSound
<1>10. u # <<>> => Waiting(Tail(u)) BY <1>6, <1>9, WaitingTail
<1>11. ASSUME NoAliases PROVE Good(do(u), do(u))
  <2>1. /\ start.env \in [Locals -> Int] /\ start.static \in Int /\ start.len \in [Objects -> Nat]
        /\ start.ref \in [Vectors -> {"old"} \X Vectors]
    BY <1>2 DEF IsStart
  <2>2. start.ref \in [Vectors -> Objects] BY <2>1 DEF Objects
  <2>3. o \in {"running", "RangeError"} /\ g \in Seq({"get", "set"} \X Objects \X Int) OBVIOUS
  <2> HIDE DEF o, g
  <2>4. do(u).ref = start.ref BY RunParts
  <2>5. Apart(do(u)) BY <1>11, <2>1, <2>4 DEF Apart, NoAliases
  <2>6. Good(do(Bare(u)), do(u)) BY <1>6, <1>9, <1>10, <2>1, <2>2, <2>3, <2>5, GoodMade
  <2> QED BY <1>5, <2>6
<1>12. NoAliases => Good(before, after)
  <2> HIDE DEF do
  <2> QED BY <1>4, <1>11
<1> QED BY <1>1, <1>12 DEF IInv

(* The three conditions are on what does not change.                         *)
LEMMA SameConditions ==
  ASSUME UNCHANGED <<program, start>>
  PROVE  /\ NoAliases' <=> NoAliases
         /\ NothingHidden' <=> NothingHidden
         /\ BoundsHold' <=> BoundsHold
<1>1. program' = program /\ start' = start OBVIOUS
<1>2. NoAliases' <=> NoAliases BY <1>1 DEF NoAliases
<1>3. NothingHidden' <=> NothingHidden BY <1>1 DEF NothingHidden
<1>4. BoundsHold' <=> BoundsHold BY <1>1 DEF BoundsHold
<1> QED BY <1>2, <1>3, <1>4


(* The invariant speaks of the program, which does not change.               *)
LEMMA GoodAfter ==
  ASSUME program' = program, Good(before', after')
  PROVE  Good(before, after)'
BY DEF Good, Twins, Runs, Items, Same, Apart, Nest, Waiting, AllSound, Sound, Active, Inside, Bare

(* Every step keeps the invariant.                                          *)
LEMMA NextKeeps == IInv /\ [Next]_vars => IInv'
<1> SUFFICES ASSUME IInv, [Next]_vars PROVE IInv' OBVIOUS
<1>1. UNCHANGED <<program, start>> BY DEF Next, Version, Execute, vars
<1>2. program' \in Programs /\ start' \in Starts BY <1>1 DEF IInv
<1>3. phase' \in {"mir", "running"} BY DEF IInv, Next, Version, Execute, vars
<1>4. phase' = "running" => versioned' = rewrite(program)' BY DEF IInv, Next, Version, Execute, vars
<1>5. ASSUME NoAliases, NothingHidden, BoundsHold
      PROVE  Good(before', after')
  <2>1. program \in Programs /\ Good(before, after) BY <1>5 DEF IInv
  <2>2. CASE UNCHANGED <<before, after>> BY <2>1, <2>2
  <2>3. CASE Execute
    <3>1. /\ before' = Step(program, Untouched(program), before)
          /\ after' = Step(program, rewrite(program), after)
      BY <2>3 DEF IInv, Execute
    <3> QED BY <1>5, <2>1, <3>1, StepKeeps
  <2> QED BY <2>2, <2>3 DEF Next, Version, vars
<1>6. NoAliases' /\ NothingHidden' /\ BoundsHold' => Good(before, after)'
  BY <1>1, <1>5, SameConditions, GoodAfter
<1> QED BY <1>2, <1>3, <1>4, <1>6 DEF IInv

(* Under the three conditions a versioned function does, step by step, what  *)
(* it did before the pass: the same accesses with the same effect on memory  *)
(* and the same RangeErrors.                                                 *)
THEOREM VersioningIsSafeThroughout == Spec => []VersioningIsSafe
<1>1. IInv => VersioningIsSafe BY DEF IInv, Good, Twins, Same, VersioningIsSafe, SameRun
<1> QED BY InitHolds, NextKeeps, <1>1, PTL DEF Spec


(* Under the three conditions the documentation is right: no access whose    *)
(* check was removed is out of range.                                        *)
THEOREM RemovalIsNeverARiskThroughout ==
    Spec => [](NoAliases /\ NothingHidden /\ BoundsHold => RemovalIsNeverARisk)
<1>1. IInv => (NoAliases /\ NothingHidden /\ BoundsHold => RemovalIsNeverARisk)
  BY RunTyped DEF IInv, Good, RemovalIsNeverARisk
<1> QED BY InitHolds, NextKeeps, <1>1, PTL DEF Spec
=============================================================================
