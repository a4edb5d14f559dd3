-------------------------------- MODULE Bce ---------------------------------
(***************************************************************************)
(* mir/bce.rs: a counted loop becomes                                      *)
(*     if (B <= v.length && ...) { unchecked copy } else { the loop }      *)
(* The function is run as it was and as it is after the pass, in step; the *)
(* guard is evaluated in the step that initializes the loop.  In compiled  *)
(* code an access that is not checked and out of range is undefined        *)
(* behaviour; here it ends the run with the outcome "ub".                  *)
(*                                                                         *)
(* A function is a table of statements, which name those inside them by    *)
(* their place in it.  The copies the pass makes of a statement differ in  *)
(* which of the loops around it are the unchecked ones, its `fast` loops.  *)
(*                                                                         *)
(* A Vector is its length; its elements, which steer nothing, are not      *)
(* kept, but every access is logged with its object and index.  All        *)
(* vectors have numeric elements: the pass leaves the others alone.        *)
(***************************************************************************)
EXTENDS Integers, Sequences, FiniteSetsExt

CONSTANTS
    Vectors,        \* locals that hold a Vector
    Locals,         \* locals that hold a number
    Programs,       \* functions to rewrite
    Starts,         \* memories they start in
    MaxSteps        \* bound: steps of a run

VARIABLES
    program,
    start,
    phase,          \* "mir" until the pass is done, then "running"
    versioned,      \* for each loop, the vectors its fast copy does not check
    before, after,  \* the function run without the pass and with it
    steps

vars == <<program, start, phase, versioned, before, after, steps>>

-----------------------------------------------------------------------------
(* ---- expressions and statements of the MIR -------------------------------- *)

Lit(k)    == [e |-> "lit", k |-> k]
Local(x)  == [e |-> "local", x |-> x]
Static    == [e |-> "static"]
Length(x) == [e |-> "length", x |-> x]               \* SeqLen

Atoms == [e : {"lit"}, k : Int] \cup [e : {"local"}, x : Locals] \cup [e : {"static"}]
            \cup [e : {"length"}, x : Vectors]

(* An expression is a sum of atoms.                                         *)
Exprs == Seq(Atoms)

Cmp(op, a, b) == [op |-> op, a |-> a, b |-> b]
Conds == [op : {"<", "<=", "!="}, a : Exprs, b : Exprs]

(* Renew is x = another Vector.  A switch has one case, with a test; a call *)
(* runs the body of the function called.  Break and continue are of the     *)
(* nearest loop; the break that ends a case is the end of its body.         *)
Statements(places) ==
    [s : {"get", "set"}, x : Vectors, i : Exprs]
    \cup [s : {"push", "pop", "renew"}, x : Vectors]
    \cup [s : {"assign"}, x : Locals, val : Exprs]
    \cup [s : {"static"}, val : Exprs]
    \cup [s : {"if"}, c : Seq(Conds), a : Seq(places), b : Seq(places)]
    \cup [s : {"switch"}, test : places, body : Seq(places)]
    \cup [s : {"call"}, body : Seq(places)]
    \cup [s : {"break", "continue"}]
    \cup [s : {"for"}, iv : Locals, init : Int, op : {"<", "<=", "!="}, bound : Exprs,
          step : Int, body : Seq(places)]

IsProgram(p) ==
    /\ p.code \in Seq(Statements(DOMAIN p.code))
    /\ p.main \in Seq(DOMAIN p.code)

(* A Vector object is one a local held at the start, or one it was renewed  *)
(* with.                                                                    *)
Objects == {"old", "new"} \X Vectors

IsStart(m) ==
    /\ m.env \in [Locals -> Int] /\ m.static \in Int
    /\ m.ref \in [Vectors -> {"old"} \X Vectors]
    /\ m.len \in [Objects -> Nat]

ASSUME ProgramAssumption ==
    /\ \A p \in Programs : IsProgram(p)
    /\ \A m \in Starts : IsStart(m)

-----------------------------------------------------------------------------
(* ---- the pass ------------------------------------------------------------- *)

(* The statements in a statement that the walk over it enters.  The test of *)
(* a case and the body of a called function are not walked.                 *)
Entered(st) ==
    CASE st.s = "if"              -> Range(st.a) \cup Range(st.b)
      [] st.s \in {"switch", "for"} -> Range(st.body)
      [] OTHER                    -> {}

(* collect_stmt: the statements the walk over the body of loop k meets.     *)
Walk(p, k) ==
    LET closed == {C \in SUBSET DOMAIN p.code :
                      /\ Range(p.code[k].body) \subseteq C
                      /\ \A c \in C : Entered(p.code[c]) \subseteq C}
    IN  {j \in DOMAIN p.code : \A C \in closed : j \in C}

(* Facts.writes: the locals a body assigns.                                 *)
Writes(p, k) ==
    LET sts == {p.code[j] : j \in Walk(p, k)}
    IN  {st.x : st \in {st \in sts : st.s \in {"assign", "renew"}}}
        \cup {st.iv : st \in {st \in sts : st.s = "for"}}

(* Locals an expression reads, as (local, how): a read of v.length is one   *)
(* of the good reads of v.                                                  *)
collect_expr(e) ==
    {<<a.x, IF a.e = "local" THEN "other" ELSE "length">> :
        a \in {a \in Range(e) : a.e \in {"local", "length"}}}

(* v[i] with the bare induction variable is a good read.                    *)
record_access(st, iv) ==
    {<<st.x, IF st.i = <<Local(iv)>> THEN "index" ELSE "other">>} \cup collect_expr(st.i)

(* How a statement itself reads each local.                                 *)
ReadsOf(st, iv) ==
    CASE st.s \in {"get", "set"}       -> record_access(st, iv)
      [] st.s \in {"push", "pop"}      -> {<<st.x, "other">>}
      [] st.s \in {"assign", "static"} -> collect_expr(st.val)
      [] st.s = "if"                   ->
            UNION {collect_expr(c.a) \cup collect_expr(c.b) : c \in Range(st.c)}
      [] st.s = "for"                  -> {<<st.iv, "other">>} \cup collect_expr(st.bound)
      [] OTHER                         -> {}

(* Facts.total_reads and good_reads: how a body reads each local.  Loops in *)
(* it are rewritten before: their guard reads lengths and their bound once  *)
(* more, and the copy what the loop reads, which changes none of the kinds. *)
Reads(p, k) == UNION {ReadsOf(p.code[j], p.code[k].iv) : j \in Walk(p, k)}

(* The bound may be evaluated once, before the loop.                        *)
invariant(e, writes) == \A a \in Range(e) : a.e \in {"local", "length"} => a.x \notin writes

(* Vectors of which every occurrence in the loop is v[i] or v.length.       *)
safe(reads, writes) ==
    {x \in Vectors \ writes : <<x, "index">> \in reads /\ <<x, "other">> \notin reads}

(* The header is `i = C; i < B; i++` or with <=, C >= 0.                    *)
counted(loop) ==
    /\ loop.init >= 0
    /\ loop.step = 1
    /\ loop.op \in {"<", "<="}

(* A faulty variant: the bound itself is taken for the last index + 1 also  *)
(* when the loop includes it.                                               *)
guard_termOffByOne(loop, x) == Cmp("<=", loop.bound, <<Length(x)>>)

(* One conjunct of the guard: the last index, B-1 or B, is in range of x.   *)
guard_term(loop, x) ==
    Cmp(IF loop.op = "<=" THEN "<" ELSE "<=", loop.bound, <<Length(x)>>)

(* The vectors the loop is versioned for; none if it is left alone.         *)
try_version(p, k) ==
    LET loop   == p.code[k]
        writes == Writes(p, k)
    IN  IF /\ loop.s = "for"
           /\ counted(loop)
           /\ loop.iv \notin writes
           /\ invariant(loop.bound, writes)
        THEN safe(Reads(p, k), writes)
        ELSE {}

rewrite(p)    == [k \in DOMAIN p.code |-> try_version(p, k)]
Untouched(p)  == [k \in DOMAIN p.code |-> {}]

(* mark_stmt: in the unchecked copy of a loop, the accesses v[i] of its     *)
(* vectors lose their check.                                                *)
mark(p, version, st, fast) ==
    \E k \in fast : st.x \in version[k] /\ st.i = <<Local(p.code[k].iv)>>

-----------------------------------------------------------------------------
(* ---- running the code ------------------------------------------------------ *)

(* A run: env maps locals to numbers, ref to Vector objects, len an object  *)
(* to its length; todo is what is left to do, first the statement to run,   *)
(* then what follows it in the blocks around it.  Below the statements of a *)
(* loop's body lies its "update" block, and its condition is in "cond".     *)
AtomValue(a, m) ==
    CASE a.e = "lit"    -> a.k
      [] a.e = "local"  -> m.env[a.x]
      [] a.e = "static" -> m.static
      [] a.e = "length" -> m.len[m.ref[a.x]]

Value(e, m) ==
    LET sum[k \in 0..Len(e)] == IF k = 0 THEN 0 ELSE sum[k - 1] + AtomValue(e[k], m)
    IN  sum[Len(e)]

Holds(c, m) ==
    LET a == Value(c.a, m)
        b == Value(c.b, m)
    IN  CASE c.op = "<" -> a < b [] c.op = "<=" -> a <= b [] c.op = "!=" -> a # b

Item(at, k, fast)  == [at |-> at, id |-> k, fast |-> fast]
Block(ids, fast)   == [j \in DOMAIN ids |-> Item("stmt", ids[j], fast)]
Doing(m, todo)     == [m EXCEPT !.todo = todo]
Assigned(m, x, k)  == [m EXCEPT !.env[x] = k]
Stop(m, how)       == Doing([m EXCEPT !.out = how], <<>>)

(* vs_vec_get, vs_vec_set and the unchecked load and store.                 *)
Access(st, unchecked, m) ==
    LET o == m.ref[st.x]
        i == Value(st.i, m)
        n == m.len[o]
        hit == [m EXCEPT !.log = Append(@, <<st.s, o, i>>)]
    IN  IF i \in 0..(n - 1) THEN hit
        ELSE IF unchecked THEN Stop(m, "ub")
        ELSE IF st.s = "set" /\ i = n THEN [hit EXCEPT !.len[o] = n + 1]
        ELSE Stop(m, "RangeError")

(* The innermost loop that is running, by the place of its update block.    *)
Innermost(todo) ==
    Min({k \in DOMAIN todo : todo[k].at = "update"} \cup {Len(todo) + 1})

(* A statement; m has it no longer to do.                                   *)
Exec(p, version, st, it, m) ==
    CASE st.s \in {"get", "set"} -> Access(st, mark(p, version, st, it.fast), m)
      [] st.s = "push"   -> [m EXCEPT !.len[m.ref[st.x]] = @ + 1]
      [] st.s = "pop"    -> [m EXCEPT !.len[m.ref[st.x]] = IF @ = 0 THEN 0 ELSE @ - 1]
      [] st.s = "renew"  -> [m EXCEPT !.ref[st.x] = <<"new", st.x>>, !.len[<<"new", st.x>>] = 1]
      [] st.s = "assign" -> Assigned(m, st.x, Value(st.val, m))
      [] st.s = "static" -> [m EXCEPT !.static = Value(st.val, m)]
      [] st.s = "continue" -> Doing(m, SubSeq(m.todo, Innermost(m.todo), Len(m.todo)))
      [] st.s = "break"    -> Doing(m, SubSeq(m.todo, Innermost(m.todo) + 1, Len(m.todo)))
      [] st.s = "if"     ->
            LET holds == \A k \in DOMAIN st.c : Holds(st.c[k], m)
            IN  Doing(m, Block(IF holds THEN st.a ELSE st.b, it.fast) \o m.todo)
      [] st.s = "switch" -> Doing(m, Block(<<st.test>>, {}) \o (Block(st.body, it.fast) \o m.todo))
      [] st.s = "call"   -> Doing(m, Block(st.body, {}) \o m.todo)
      [] st.s = "for"    ->
            LET xs    == version[it.id]
                guard == xs # {} /\ \A x \in xs : Holds(guard_term(st, x), m)
                fast  == IF guard THEN it.fast \cup {it.id} ELSE it.fast
            IN  Doing(Assigned(m, st.iv, st.init), <<Item("cond", it.id, fast)>> \o m.todo)

(* The next step of a run, which is over when nothing is left to do.        *)
Step(p, version, m) ==
    LET it   == Head(m.todo)
        st   == p.code[it.id]
        next == Tail(m.todo)
    IN  CASE m.todo = <<>>    -> m
          [] m.todo # <<>> /\ it.at = "stmt"   -> Exec(p, version, st, it, Doing(m, next))
          [] m.todo # <<>> /\ it.at = "cond"   ->
                Doing(m, IF Holds(Cmp(st.op, <<Local(st.iv)>>, st.bound), m)
                         THEN Block(st.body, it.fast) \o (<<Item("update", it.id, it.fast)>> \o next)
                         ELSE next)
          [] m.todo # <<>> /\ it.at = "update" ->
                Doing(Assigned(m, st.iv, m.env[st.iv] + st.step),
                      <<Item("cond", it.id, it.fast)>> \o next)

-----------------------------------------------------------------------------

Ready(p, m) ==
    [env |-> m.env, ref |-> m.ref, len |-> m.len, static |-> m.static, out |-> "running",
     log |-> <<>>, todo |-> Block(p.main, {})]

Init ==
    /\ program \in Programs
    /\ start \in Starts
    /\ phase = "mir"
    /\ versioned = Untouched(program)
    /\ before = Ready(program, start)
    /\ after = before
    /\ steps = 0

(* `run`: the pass over one function body.                                  *)
Version ==
    /\ phase = "mir"
    /\ versioned' = rewrite(program)
    /\ phase' = "running"
    /\ UNCHANGED <<program, start, before, after, steps>>

Execute ==
    /\ phase = "running"
    /\ steps < MaxSteps
    /\ before.todo # <<>> \/ after.todo # <<>>
    /\ before' = Step(program, Untouched(program), before)
    /\ after' = Step(program, versioned, after)
    /\ steps' = steps + 1
    /\ UNCHANGED <<program, start, phase, versioned>>

Next == Version \/ Execute

Spec == Init /\ [][Next]_vars

-----------------------------------------------------------------------------
(* ---- the programs the pass is right about ---------------------------------- *)

(* Statements that run where the walk does not look.                        *)
Hidden(p) ==
    UNION {CASE p.code[k].s = "call"   -> Range(p.code[k].body)
             [] p.code[k].s = "switch" -> {p.code[k].test}
             [] OTHER                  -> {} : k \in DOMAIN p.code}

(* The vectors the body of loop k can make longer: w[i] = e cannot when the *)
(* loop tests i against w.length.                                           *)
Lengthen(p, k) ==
    LET loop == p.code[k]
    IN  {p.code[j].x : j \in {j \in Walk(p, k) :
            \/ p.code[j].s = "push"
            \/ /\ p.code[j].s = "set"
               /\ ~ /\ p.code[j].i = <<Local(loop.iv)>>
                    /\ loop.op = "<" /\ loop.bound = <<Length(p.code[j].x)>>}}

(* The body of loop k changes the static.                                   *)
Mutates(p, k) == \E j \in Walk(p, k) : p.code[j].s = "static"

(* Two locals that never refer to the same Vector.                          *)
NoAliases == \A x, y \in Vectors : start.ref[x] = start.ref[y] => x = y

(* Called functions and case tests have no effect on locals or Vectors.     *)
NothingHidden == \A k \in Hidden(program) : program.code[k].s = "get"

(* No loop changes its own bound other than by assigning a local.           *)
BoundsHold ==
    \A k \in {k \in DOMAIN program.code : program.code[k].s = "for"} :
        LET loop     == program.code[k]
            mentions == Range(loop.bound)
        IN  /\ Local(loop.iv) \notin mentions
            /\ Static \in mentions => ~Mutates(program, k)
            /\ \A x \in Lengthen(program, k) : Length(x) \notin mentions

(* The two runs have done the same: the same accesses, the same error, and  *)
(* the memory is the same.                                                  *)
SameRun ==
    /\ after.log = before.log /\ after.out = before.out
    /\ after.env = before.env /\ after.ref = before.ref
    /\ after.len = before.len /\ after.static = before.static

(* Under these three conditions the versioned loop does what the loop did,  *)
(* step by step: the same accesses, the same RangeError, never an access    *)
(* out of range.                                                            *)
VersioningIsSafe == SameRun \/ ~NoAliases \/ ~NothingHidden \/ ~BoundsHold

-----------------------------------------------------------------------------
(* ---- what the documentation says ------------------------------------------- *)

(* bce.rs: "the unchecked path only runs when the check provably holds.     *)
(* Removing the check is therefore never a correctness risk."               *)
RemovalIsNeverARisk == after.out # "ub"
=============================================================================
