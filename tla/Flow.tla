---------------------------------- MODULE Flow ----------------------------------
(***************************************************************************)
(* What the checker concludes from control flow, against what control flow *)
(* does (crates/sema/src/check/null.rs and the statements of check/mod.rs; *)
(* the jumps also in crates/mir/src/lower.rs and crates/codegen/src/       *)
(* llvm.rs).                                                               *)
(*                                                                         *)
(* A function body is checked, lowered and run.  It has one local x of a   *)
(* nullable class type, a caught exception e, and a return type that is    *)
(* not nullable; what is concluded is that x is not null here (narrowing), *)
(* that `x as Sub` cannot miss (a type guard), that the end of the body is *)
(* not reached, and where a jump goes.  A run has every outcome: the loops *)
(* are followed to a fixed point, so nothing bounds them.                  *)
(***************************************************************************)
EXTENDS Integers, Sequences, FiniteSets

CONSTANT Programs           \* function bodies, sequences of statements

VARIABLES
    program,    \* the body
    phase,      \* "source", "accepted", "rejected", "gated", "panic", "compiled", "done"
    risks,      \* the checker's known over-conclusions that the body meets
    outcome     \* how one run of it ended

vars == <<program, phase, risks, outcome>>

-----------------------------------------------------------------------------
(* ---- programs ---------------------------------------------------------- *)

Leaf(op) == [op |-> op]
Null == Leaf("null")                    \* null
New == Leaf("new")                      \* new Base()
Next == Leaf("next")                    \* a call that returns Base?
X == Leaf("x")
E == Leaf("e")                          \* the binding of the catch clause (e:Base)
As == Leaf("as")                        \* x as Sub
Is == Leaf("is")                        \* x is Sub
Opaque == Leaf("opaque")                \* a boolean unrelated to x
Use == Leaf("use")                      \* x.test(), a boolean
Set(v) == [op |-> "set", a |-> v]       \* x = v
IsNull(a) == [op |-> "isnull", a |-> a]
NotNull(a) == [op |-> "notnull", a |-> a]
And(a, b) == [op |-> "and", a |-> a, b |-> b]
Or(a, b) == [op |-> "or", a |-> a, b |-> b]
Cond(c, a, b) == [op |-> "cond", c |-> c, a |-> a, b |-> b]

Do(v) == [s |-> "expr", e |-> v]                \* the statement v;
Need(v) == [s |-> "need", e |-> v]              \* v.m(), or y = v for y:Base
Return(v) == [s |-> "return", e |-> v]
Throw(v) == [s |-> "throw", e |-> v]
CallF == [s |-> "call"]                         \* f(), where f assigns null to x
SystemExit == [s |-> "exit"]
Jump(k, l) == [s |-> k, label |-> l]            \* k is "break" or "continue"
Block(b) == [s |-> "block", body |-> b]
NoElse == [s |-> "none"]
If(c, t, f) == [s |-> "if", c |-> c, t |-> t, f |-> f]
Loop(k, c, u, b) == [s |-> k, c |-> c, u |-> u, body |-> b]
While(c, b) == Loop("while", c, Opaque, b)
DoWhile(b, c) == Loop("do", c, Opaque, b)
For(c, u, b) == Loop("for", c, u, b)
ForIn(t, b) == [s |-> "forin", target |-> t, c |-> Opaque, u |-> Opaque, body |-> b]
Switch(cs) == [s |-> "switch", cases |-> cs]
Case(dflt, b) == [default |-> dflt, body |-> b]
Try(b, cs, f) == [s |-> "try", body |-> b, catches |-> cs, fin |-> f]
Labeled(l, b) == [s |-> "label", label |-> l, body |-> b]

(* A typed clause is catch (e:Base), of which a body has at most one, so    *)
(* that e is one variable; that of an "Any" clause has another name.        *)
Typed(clause) == clause.type = "Base"

Loops == {"while", "do", "for", "forin"}
Last(q) == q[Len(q)]
Front(q) == SubSeq(q, 1, Len(q) - 1)
Bodies(cs) == {cs[i].body : i \in DOMAIN cs}

(* The statements and the expressions directly in a statement.              *)
Parts(s) ==
    CASE s.s \in {"block", "try"} ->
            {s.body[i] : i \in DOMAIN s.body}
            \cup (IF s.s = "try"
                  THEN UNION {{b[i] : i \in DOMAIN b} : b \in Bodies(s.catches) \cup {s.fin}}
                  ELSE {})
      [] s.s = "if" -> {s.t, s.f}
      [] s.s \in Loops \cup {"label"} -> {s.body}
      [] s.s = "switch" -> UNION {{b[i] : i \in DOMAIN b} : b \in Bodies(s.cases)}
      [] OTHER -> {}
Exprs(s) ==
    CASE s.s = "if" -> {s.c}
      [] s.s \in Loops -> {s.c, s.u}
      [] s.s \in {"expr", "need", "return", "throw"} -> {s.e}
      [] OTHER -> {}

(* for each (x in v), whose target is x.                                    *)
TakesX(s) == s.s = "forin" /\ s.target = "x"

RECURSIVE Assigns(_), AssignsIn(_), Statements(_)
Assigns(v) ==
    CASE v.op = "set" -> TRUE
      [] v.op \in {"and", "or"} -> Assigns(v.a) \/ Assigns(v.b)
      [] v.op = "cond" -> Assigns(v.c) \/ Assigns(v.a) \/ Assigns(v.b)
      [] v.op \in {"isnull", "notnull"} -> Assigns(v.a)
      [] OTHER -> FALSE
AssignsIn(s) == s.s = "call" \/ TakesX(s) \/ (\E v \in Exprs(s) : Assigns(v)) \/ (\E p \in Parts(s) : AssignsIn(p))
Statements(s) == {s} \cup UNION {Statements(p) : p \in Parts(s)}

-----------------------------------------------------------------------------
(* ---- null.rs: what a condition proves of x ------------------------------ *)

Proves(t, f) == [t |-> t, f |-> f]

(* The type is Boolean.  An operand of && or || is made of the type of both *)
(* first: a test next to an object is no longer a test.                     *)
RECURSIVE IsBoolean(_)
IsBoolean(v) ==
    CASE v.op \in {"and", "or", "cond"} -> IsBoolean(v.a) /\ IsBoolean(v.b)
      [] OTHER -> v.op \in {"isnull", "notnull", "is", "opaque", "use"}

(* A faulty variant: a || b true proves what a true and b true prove.       *)
RECURSIVE narrowing_ofEither(_)
narrowing_ofEither(c) ==
    CASE c.op \in {"and", "or"} /\ IsBoolean(c) ->
            LET l == narrowing_ofEither(c.a)
                r == narrowing_ofEither(c.b)
            IN  Proves(l.t \/ r.t, c.op = "or" /\ (l.f \/ r.f))
      [] c.op \in {"isnull", "notnull"} -> Proves(c.op = "notnull" /\ c.a = X, c.op = "isnull" /\ c.a = X)
      [] OTHER -> Proves(FALSE, FALSE)

RECURSIVE narrowing_of(_)
narrowing_of(c) ==
    CASE c.op \in {"and", "or"} /\ IsBoolean(c) ->
            LET l == narrowing_of(c.a)
                r == narrowing_of(c.b)
            IN  Proves(c.op = "and" /\ (l.t \/ r.t), c.op = "or" /\ (l.f \/ r.f))
      [] c.op \in {"isnull", "notnull"} -> Proves(c.op = "notnull" /\ c.a = X, c.op = "isnull" /\ c.a = X)
      [] OTHER -> Proves(FALSE, FALSE)

(* coerce_condition makes a condition a Boolean; only a bare x proves       *)
(* something by that.                                                       *)
Proven(c) == IF c = X THEN Proves(TRUE, FALSE) ELSE narrowing_of(c)

is_narrowing_of(c) == c.op = "is"

(* The checker's state: the stacks narrowed (is x in the frame) and         *)
(* is_narrowed (is (x, Sub)), whether e is declared, whether no error was   *)
(* reported, and, for the properties only, if this is inside e's clause     *)
(* and the risks met.                                                       *)
Start == [narrowed |-> <<FALSE>>, is_narrowed |-> <<>>, declared |-> FALSE, ok |-> TRUE,
          inside |-> FALSE, risks |-> {}]

Push(st, fact) == [st EXCEPT !.narrowed = Append(@, fact)]
Pop(st) == [st EXCEPT !.narrowed = Front(@)]
PushIs(st, fact) == [st EXCEPT !.is_narrowed = Append(@, fact)]
PopIs(st) == [st EXCEPT !.is_narrowed = Front(@)]
Narrowed(st) == \E i \in DOMAIN st.narrowed : st.narrowed[i]
is_guarded(st) == \E i \in DOMAIN st.is_narrowed : st.is_narrowed[i]
AddFact(st, fact) == [st EXCEPT !.narrowed[Len(st.narrowed)] = @ \/ fact]
Risk(st, r, met) == [st EXCEPT !.risks = IF met THEN @ \cup {r} ELSE @]

(* expr_nullable_under: could the value be null.                            *)
RECURSIVE expr_nullable(_, _, _)
expr_nullable(v, st, proven) ==
    CASE v.op \in {"null", "next"} -> TRUE
      [] v.op = "as" -> ~is_guarded(st)
      [] v.op = "x" -> ~Narrowed(st) /\ ~proven
      [] v.op = "set" -> expr_nullable(v.a, st, proven)
      [] v.op = "or" -> expr_nullable(v.b, st, proven)
      [] v.op = "and" -> expr_nullable(v.a, st, proven) \/ expr_nullable(v.b, st, proven)
      [] v.op = "cond" -> \/ expr_nullable(v.a, st, proven \/ Proven(v.c).t)
                          \/ expr_nullable(v.b, st, proven \/ Proven(v.c).f)
      [] OTHER -> FALSE

(* check_null_flow and check_null_deref.                                    *)
NullChecked(v, st) == [st EXCEPT !.ok = @ /\ ~expr_nullable(v, st, FALSE)]

(* A faulty variant: an assignment of null leaves the guards standing.      *)
update_narrow_on_assignKeepingGuards(st, value_nullable) ==
    IF value_nullable
    THEN [st EXCEPT !.narrowed = [i \in DOMAIN @ |-> FALSE]]
    ELSE AddFact(st, TRUE)

update_narrow_on_assign(st, value_nullable) ==
    LET unguarded == [st EXCEPT !.is_narrowed = [i \in DOMAIN @ |-> FALSE]]
    IN  IF value_nullable
        THEN [unguarded EXCEPT !.narrowed = [i \in DOMAIN @ |-> FALSE]]
        ELSE AddFact(unguarded, TRUE)

(* Expressions, with the frames that && || and ?: push around an operand.   *)
RECURSIVE CheckExpr(_, _)
CheckExpr(v, st) ==
    CASE v.op = "use" -> NullChecked(X, st)
      [] v.op = "e" -> Risk([st EXCEPT !.ok = @ /\ st.declared], "scope", ~st.inside)
      [] v.op \in {"isnull", "notnull"} -> CheckExpr(v.a, st)
      [] v.op = "set" ->
            LET st1 == CheckExpr(v.a, st)
            IN  update_narrow_on_assign(st1, expr_nullable(v.a, st1, FALSE))
      [] v.op \in {"and", "or"} ->
            LET proven == narrowing_of(v.a)
                fact == IF v.op = "and" THEN proven.t ELSE proven.f
                st1 == Risk(CheckExpr(v.a, st), "condition", fact /\ Assigns(v.a))
            IN  Pop(CheckExpr(v.b, Push(st1, fact)))
      [] v.op = "cond" ->
            LET proven == Proven(v.c)
                st1 == Risk(CheckExpr(v.c, st), "condition",
                            (proven.t \/ proven.f) /\ Assigns(v))
                st2 == Pop(CheckExpr(v.a, Push(st1, proven.t)))
            IN  Pop(CheckExpr(v.b, Push(st2, proven.f)))
      [] OTHER -> st

-----------------------------------------------------------------------------
(* ---- mod.rs: which statements complete ---------------------------------- *)

RECURSIVE has_direct_break(_), stmt_completes(_)
has_direct_break(s) ==
    CASE s.s = "break" -> s.label = ""
      [] s.s \in {"block", "if", "try", "label"} -> \E p \in Parts(s) : has_direct_break(p)
      [] OTHER -> FALSE

(* A faulty variant: a switch with a default completes only by its end.     *)
SwitchCompletesAtEnd(cs) ==
    \/ \A i \in DOMAIN cs : ~cs[i].default
    \/ cs = <<>> \/ \A j \in DOMAIN Last(cs).body : stmt_completes(Last(cs).body[j])

SwitchCompletes(cs) ==
    \/ \A i \in DOMAIN cs : ~cs[i].default
    \/ cs = <<>> \/ \A j \in DOMAIN Last(cs).body : stmt_completes(Last(cs).body[j])
    \/ \E b \in Bodies(cs) : \E j \in DOMAIN b : has_direct_break(b[j])

completes_normally(ss) == \A i \in DOMAIN ss : stmt_completes(ss[i])

stmt_completes(s) ==
    CASE s.s \in {"return", "throw", "break", "continue", "exit"} -> FALSE
      [] s.s = "block" -> completes_normally(s.body)
      [] s.s = "if" -> s.f = NoElse \/ stmt_completes(s.t) \/ stmt_completes(s.f)
      [] s.s = "try" -> /\ completes_normally(s.fin)
                        /\ \/ completes_normally(s.body)
                           \/ \E b \in Bodies(s.catches) : completes_normally(b)
      [] s.s = "label" -> stmt_completes(s.body)
      [] s.s = "switch" -> SwitchCompletes(s.cases)
      [] s.s = "do" -> stmt_completes(s.body) \/ has_direct_break(s.body)
      [] OTHER -> TRUE

(* ---- statements ----------------------------------------------------------- *)
(* The risks: what the checker concludes of x and the run may refute.       *)
(*   "loop"      x is narrowed or guarded before a loop that assigns it     *)
(*   "leak"      a body that may not run to its end, and has no frame of    *)
(*               its own, leaves a fact about x in the enclosing frame      *)
(*   "exit"      one branch leaves and the other assigns x, which is then   *)
(*               taken to be what the condition proved                      *)
(*   "condition" the condition that proves the fact assigns x               *)
(*   "closure"   a closure that assigns x is called while x is narrowed     *)
(*   "do"        a do..while judged never to complete is left by a continue *)
(*               or a labelled break                                        *)
(*   "each"      x is narrowed or guarded before a loop for each (x in v),  *)
(*               whose assignment of x changes neither                      *)
(*   "scope"     the binding of a catch clause is used outside the clause,  *)
(*               where it is still declared                                 *)

Held(st) == Narrowed(st) \/ is_guarded(st)
Stale(s, st) ==
    Risk(Risk(st, "each", Held(st) /\ TakesX(s)),
         "loop", Held(st) /\ (AssignsIn(s.body) \/ \E v \in Exprs(s) : Assigns(v)))
Leaks(st0, st, assigns) ==
    Risk(st, "leak", Last(st.narrowed) /\ (assigns \/ ~Last(st0.narrowed)))
LeavesDo(s) ==
    \E p \in Statements(s.body) : p.s = "continue" \/ (p.s = "break" /\ p.label # "")

RECURSIVE Check(_, _), CheckAll(_, _), CheckBodies(_, _), CheckCatches(_, _)
CheckAll(ss, st) == IF ss = <<>> THEN st ELSE CheckAll(Tail(ss), Check(Head(ss), st))

(* Bodies in turn, all in the enclosing frame.                              *)
CheckBodies(bs, st) ==
    IF bs = <<>> THEN st
    ELSE LET st1 == CheckAll(Head(bs), st)
         IN  CheckBodies(Tail(bs),
                         Leaks(st, st1, \E i \in DOMAIN Head(bs) : AssignsIn(Head(bs)[i])))

(* The catch clauses: a typed one declares e, in the scope of the function. *)
CheckCatches(cs, st) ==
    IF cs = <<>> THEN st
    ELSE LET typed == Typed(Head(cs))
             st1 == CheckBodies(<<Head(cs).body>>,
                                [st EXCEPT !.declared = @ \/ typed, !.inside = @ \/ typed])
         IN  CheckCatches(Tail(cs), [st1 EXCEPT !.inside = st.inside])

CheckIf(s, st) ==
    LET proven == Proven(s.c)
        st1 == Risk(CheckExpr(s.c, st), "condition", (proven.t \/ proven.f) /\ Assigns(s.c))
        st2 == Pop(PopIs(Check(s.t, PushIs(Push(st1, proven.t), is_narrowing_of(s.c)))))
        st3 == Pop(Check(s.f, Push(st2, proven.f)))
        then_exits == ~stmt_completes(s.t)
        else_exits == s.f # NoElse /\ ~stmt_completes(s.f)
        facts == (then_exits /\ proven.f) \/ (else_exits /\ proven.t)
    IN  Risk(AddFact(st3, facts), "exit",
             \/ then_exits /\ proven.f /\ AssignsIn(s.f)
             \/ else_exits /\ proven.t /\ AssignsIn(s.t))

CheckLoop(s, st) ==
    LET st0 == Stale(s, st)
        proven == Proven(s.c)
        conditioned == Risk(CheckExpr(s.c, st0), "condition", proven.t /\ Assigns(s.c))
    IN  CASE s.s = "while" -> Pop(Check(s.body, Push(conditioned, proven.t)))
          [] s.s = "do" ->
                LET st1 == CheckExpr(s.c, Check(s.body, st0))
                IN  Risk(Leaks(st, st1, FALSE), "do", ~stmt_completes(s) /\ LeavesDo(s))
          [] s.s = "for" ->
                LET st1 == CheckExpr(s.u, CheckExpr(s.c, st0))
                IN  Leaks(st, Check(s.body, Leaks(st, st1, FALSE)), FALSE)
          [] s.s = "forin" -> Leaks(st, Check(s.body, st0), FALSE)

(* Checker::stmt.  A jump is checked with the others, below.                *)
Check(s, st) ==
    CASE s.s = "expr" -> CheckExpr(s.e, st)
      [] s.s \in {"need", "return"} -> NullChecked(s.e, CheckExpr(s.e, st))
      [] s.s = "throw" -> CheckExpr(s.e, st)
      [] s.s = "call" -> Risk(st, "closure", Held(st))
      [] s.s = "block" -> CheckAll(s.body, st)
      [] s.s = "if" -> CheckIf(s, st)
      [] s.s \in Loops -> CheckLoop(s, st)
      [] s.s = "switch" -> CheckBodies([i \in DOMAIN s.cases |-> s.cases[i].body], st)
      [] s.s = "try" -> CheckBodies(<<s.fin>>, CheckCatches(s.catches, CheckBodies(<<s.body>>, st)))
      [] s.s = "label" -> Check(s.body, st)
      [] OTHER -> st

-----------------------------------------------------------------------------
(* ---- jumps -------------------------------------------------------------- *)
(* cx.jumps is Checker::jumps, cx.frames FnCx.frames; every loop and switch *)
(* pushes one frame, so a frame's index names the statement.  cx.label is   *)
(* the label the lowering attaches to the loop that comes next (of two, the *)
(* outer one) and cx.names are those it has in the source.                  *)

JumpCtx(l, is_loop) == [label |-> l, is_loop |-> is_loop]
Frame(l, continues, names) == [label |-> l, continues |-> continues, names |-> names]
NoJumps == [jumps |-> <<>>, frames |-> <<>>, label |-> "", names |-> {}]

(* A faulty variant: a switch will do for a continue.                       *)
check_jumpAnywhere(j, cx) ==
    \E i \in DOMAIN cx.jumps : j.label \in {"", cx.jumps[i].label}

check_jump(j, cx) ==
    \E i \in DOMAIN cx.jumps :
        /\ j.label \in {"", cx.jumps[i].label}
        /\ j.s = "continue" => cx.jumps[i].is_loop

Innermost(S) == IF S = {} THEN 0 ELSE CHOOSE i \in S : \A k \in S : k <= i

(* The frame the backend jumps to; at 0 it reaches unreachable!().          *)
find_frame(j, cx) ==
    Innermost({i \in DOMAIN cx.frames :
                 /\ j.label = "" \/ cx.frames[i].label = j.label
                 /\ j.s = "continue" => cx.frames[i].continues})

(* The statement ES3 12.7 and 12.8 name.                                    *)
Target(j, cx) ==
    Innermost({i \in DOMAIN cx.frames :
                 /\ j.label = "" \/ j.label \in cx.frames[i].names
                 /\ j.s = "continue" => cx.frames[i].continues})

InLoop(cx) == [jumps |-> Append(cx.jumps, JumpCtx("", TRUE)),
               frames |-> Append(cx.frames, Frame(cx.label, TRUE, cx.names)),
               label |-> "", names |-> {}]
InSwitch(cx) == [jumps |-> Append(cx.jumps, JumpCtx("", FALSE)),
                 frames |-> Append(cx.frames, Frame("", FALSE, {})),
                 label |-> "", names |-> {}]
InLabel(s, cx) == [cx EXCEPT !.jumps = Append(@, JumpCtx(s.label, s.body.s \in Loops)),
                             !.label = IF @ = "" THEN s.label ELSE @,
                             !.names = @ \cup {s.label}]

(* The jumps of a statement, each with its context.                         *)
RECURSIVE Jumps(_, _)
Jumps(s, cx) ==
    CASE s.s \in {"break", "continue"} -> {[j |-> s, cx |-> cx]}
      [] s.s \in Loops -> Jumps(s.body, InLoop(cx))
      [] s.s = "label" -> Jumps(s.body, InLabel(s, cx))
      [] s.s = "switch" -> UNION {Jumps(p, InSwitch(cx)) : p \in Parts(s)}
      [] OTHER -> UNION {Jumps(p, cx) : p \in Parts(s)}

(* Lowering refuses a label whose statement is not a loop.                  *)
RECURSIVE LabelsLoop(_)
LabelsLoop(s) == s.s \in Loops \/ (s.s = "label" /\ LabelsLoop(s.body))

-----------------------------------------------------------------------------
(* ---- runs ----------------------------------------------------------------- *)
(* An object is of class Base or Sub.  env.x and env.e are the variables.   *)

Objects == {"base", "sub"}
Values == Objects \cup {"null"}
Bool(b) == IF b THEN "true" ELSE "false"
Truthy(v) == v \notin {"null", "false"}

(* The pairs of a value and the variables after.                            *)
RECURSIVE Eval(_, _)
Eval(v, env) ==
    CASE v.op = "null" -> {<<"null", env>>}
      [] v.op = "new" -> {<<"base", env>>}
      [] v.op = "next" -> {<<w, env>> : w \in Values}
      [] v.op = "x" -> {<<env.x, env>>}
      [] v.op = "e" -> {<<env.e, env>>}
      [] v.op = "as" -> {<<IF env.x = "sub" THEN "sub" ELSE "null", env>>}
      [] v.op = "is" -> {<<Bool(env.x = "sub"), env>>}
      [] v.op = "opaque" -> {<<"true", env>>, <<"false", env>>}
      [] v.op = "use" -> IF env.x = "null" THEN {<<"fault", env>>} ELSE Eval(Opaque, env)
      [] v.op = "set" -> {<<r[1], IF r[1] = "fault" THEN r[2] ELSE [r[2] EXCEPT !.x = r[1]]>> :
                            r \in Eval(v.a, env)}
      [] v.op \in {"isnull", "notnull"} ->
            {<<IF r[1] = "fault" THEN "fault" ELSE Bool((r[1] = "null") = (v.op = "isnull")), r[2]>> :
                r \in Eval(v.a, env)}
      [] v.op \in {"and", "or"} ->
            UNION {IF r[1] = "fault" \/ Truthy(r[1]) = (v.op = "or") THEN {r} ELSE Eval(v.b, r[2]) :
                   r \in Eval(v.a, env)}
      [] v.op = "cond" ->
            UNION {IF r[1] = "fault" THEN {r} ELSE Eval(IF Truthy(r[1]) THEN v.a ELSE v.b, r[2]) :
                   r \in Eval(v.c, env)}

(* A completion: its kind, the label or value, and the variables.           *)
Completion(k, d, env) == [k |-> k, d |-> d, env |-> env]
Normal(env) == Completion("normal", "", env)
Fault(what, env) == Completion("fault", what, env)
Faults == [as |-> "cast", e |-> "binding"]
FaultOf(v) == IF v.op \in DOMAIN Faults THEN Faults[v.op] ELSE "null"

(* The completions of evaluating v and going on with f(value, variables).   *)
With(v, env, f(_, _)) ==
    UNION {IF r[1] = "fault" THEN {Fault("null", r[2])} ELSE f(r[1], r[2]) : r \in Eval(v, env)}

(* Faulty variant: an instance test that null passes.                       *)
exc_matchesNull(type, v) == type = "Any" \/ v \in Values

(* exc_matches: vs_any_is_class of null is false.                           *)
exc_matches(type, v) == type = "Any" \/ v \in Objects

(* A switch enters at a clause and falls through the later ones, or, with   *)
(* no default, may enter none.                                              *)
Entries(cs) ==
    DOMAIN cs \cup (IF \E i \in DOMAIN cs : cs[i].default THEN {} ELSE {Len(cs) + 1})
RECURSIVE Clauses(_, _)
Clauses(cs, i) == IF i > Len(cs) THEN <<>> ELSE cs[i].body \o Clauses(cs, i + 1)

RECURSIVE Exec(_, _, _), ExecAll(_, _), ExecLoop(_, _, _, _), ExecTry(_, _)

Join(outs, f(_)) == UNION {IF o.k = "normal" THEN f(o.env) ELSE {o} : o \in outs}
ExecAll(ss, env) ==
    IF ss = <<>> THEN {Normal(env)}
    ELSE LET rest(env1) == ExecAll(Tail(ss), env1) IN Join(Exec(Head(ss), env, {""}), rest)

(* A turn of for each (x in v) first assigns an element to x, which may be  *)
(* null.                                                                    *)
Begun(s, env) == IF TakesX(s) THEN {[env EXCEPT !.x = v] : v \in Values} ELSE {env}

(* at: the variables with which a turn is begun, followed to a fixed point; *)
(* done: the completions of the loop so far.                                *)
ExecLoop(s, names, at, done) ==
    LET body == UNION {Exec(s.body, env, {""}) : env \in UNION {Begun(s, a) : a \in at}}
        again == {o \in body : o.k = "normal" \/ (o.k = "continue" /\ o.d \in names)}
        out == {IF o.k = "break" /\ o.d \in names THEN Normal(o.env) ELSE o : o \in body \ again}
        updated == UNION {IF s.s = "for" THEN Eval(s.u, o.env) ELSE {<<"", o.env>>} : o \in again}
        tested == UNION {IF r[1] = "fault" THEN {r} ELSE Eval(s.c, r[2]) : r \in updated}
        more == at \cup {r[2] : r \in {q \in tested : q[1] # "fault" /\ Truthy(q[1])}}
        all == done \cup out
               \cup {Normal(r[2]) : r \in {q \in tested : ~Truthy(q[1])}}
               \cup {Fault("null", r[2]) : r \in {q \in tested : q[1] = "fault"}}
    IN  IF more = at THEN all ELSE ExecLoop(s, names, more, all)

(* The finally block is not run when an exception leaves a catch clause;    *)
(* the handlers are followed in TryLowering.                                *)
ExecTry(s, env) ==
    LET takes(o) == {i \in DOMAIN s.catches : o.k = "throw" /\ exc_matches(s.catches[i].type, o.d)}
        clause(o) == s.catches[CHOOSE i \in takes(o) : \A k \in takes(o) : i <= k]
        catch(o) == ExecAll(clause(o).body, [o.env EXCEPT !.e = IF Typed(clause(o)) THEN o.d ELSE @])
        finally(o) ==
            IF o.k \in {"exit", "fault"} THEN {o}
            ELSE {IF f.k = "normal" THEN [o EXCEPT !.env = f.env] ELSE f : f \in ExecAll(s.fin, o.env)}
        body == ExecAll(s.body, env)
        caught == UNION {catch(o) : o \in {q \in body : takes(q) # {}}}
        escaped == {o \in caught : s.fin # <<>> /\ o.k = "throw"}
    IN  escaped \cup UNION {finally(o) : o \in {q \in body : takes(q) = {}} \cup (caught \ escaped)}

Exec(s, env, names) ==
    CASE s.s = "expr" -> LET f(v, env1) == {Normal(env1)} IN With(s.e, env, f)
      [] s.s = "need" -> LET f(v, env1) == {IF v = "null" THEN Fault(FaultOf(s.e), env1) ELSE Normal(env1)}
                         IN  With(s.e, env, f)
      [] s.s \in {"return", "throw"} -> LET f(v, env1) == {Completion(s.s, v, env1)} IN With(s.e, env, f)
      [] s.s = "call" -> {Normal([env EXCEPT !.x = "null"])}
      [] s.s = "exit" -> {Completion("exit", "", env)}
      [] s.s \in {"break", "continue"} -> {Completion(s.s, s.label, env)}
      [] s.s = "block" -> ExecAll(s.body, env)
      [] s.s = "none" -> {Normal(env)}
      [] s.s = "if" -> LET f(v, env1) == Exec(IF Truthy(v) THEN s.t ELSE s.f, env1, {""})
                       IN  With(s.c, env, f)
      [] s.s = "do" -> ExecLoop(s, names, {env}, {})
      [] s.s \in Loops ->
            LET f(v, env1) == IF Truthy(v) THEN ExecLoop(s, names, {env1}, {}) ELSE {Normal(env1)}
            IN  With(s.c, env, f)
      [] s.s = "switch" ->
            {IF o.k = "break" /\ o.d = "" THEN Normal(o.env) ELSE o :
               o \in UNION {ExecAll(Clauses(s.cases, i), env) : i \in Entries(s.cases)}}
      [] s.s = "try" -> ExecTry(s, env)
      [] s.s = "label" -> Exec(s.body, env, names \cup {s.label})

-----------------------------------------------------------------------------
(* ---- the specification ---------------------------------------------------- *)

Checked(ss) == CheckAll(ss, Start)
AllJumps(ss) == Jumps(Block(ss), NoJumps)
Accepted(ss) ==
    /\ Checked(ss).ok
    /\ \A jump \in AllJumps(ss) : check_jump(jump.j, jump.cx)
    /\ ~completes_normally(ss)
Labels(ss) == {s \in Statements(Block(ss)) : s.s = "label"}

NoOutcome == Completion("none", "", [x |-> "null", e |-> "null"])

Init ==
    /\ program \in Programs
    /\ phase = "source" /\ risks = {} /\ outcome = NoOutcome

(* check_function_body.                                                     *)
CheckBody ==
    /\ phase = "source"
    /\ phase' = IF Accepted(program) THEN "accepted" ELSE "rejected"
    /\ risks' = Checked(program).risks
    /\ UNCHANGED <<program, outcome>>

(* Lowering, and code generation's search for the frames of the jumps.      *)
Compile ==
    /\ phase = "accepted"
    /\ phase' = IF \E s \in Labels(program) : ~LabelsLoop(s) THEN "gated"
                ELSE IF \E jump \in AllJumps(program) : find_frame(jump.j, jump.cx) = 0 THEN "panic"
                ELSE "compiled"
    /\ UNCHANGED <<program, risks, outcome>>

Run ==
    /\ phase = "compiled"
    /\ \E v \in Values : outcome' \in ExecAll(program, [x |-> v, e |-> "null"])
    /\ phase' = "done"
    /\ UNCHANGED <<program, risks>>

Step == CheckBody \/ Compile \/ Run
Spec == Init /\ [][Step]_vars

-----------------------------------------------------------------------------
(* ---- properties ----------------------------------------------------------- *)

(* A body the checker accepts, and in which it met none of the named risks, *)
(* dereferences null, or lets null into a slot that excludes it, in no run. *)
NarrowingIsSound == risks = {} => outcome.k # "fault" \/ outcome.d # "null"

(* A value `x as Sub` taken as not null under a guard `x is Sub` is one.    *)
GuardedCastsHold == risks = {} => outcome.k # "fault" \/ outcome.d # "cast"

(* The binding of a typed catch clause, taken as not null, never is in the  *)
(* clause, though null may be thrown.                                       *)
CatchBindingsAreObjects == "scope" \notin risks => outcome.k # "fault" \/ outcome.d # "binding"

(* Every accepted jump that is compiled goes to the statement it names; the *)
(* exception is a loop with two labels, of which lowering keeps the outer.  *)
JumpsFindTheirFrame ==
    phase \in {"panic", "compiled", "done"} /\ (\A s \in Labels(program) : s.body.s # "label") =>
        \A jump \in AllJumps(program) :
            find_frame(jump.j, jump.cx) = Target(jump.j, jump.cx) /\ Target(jump.j, jump.cx) # 0

(* The end of an accepted body is not reached, so no run returns the null   *)
(* that code generation puts there, unless a do..while is left by a jump    *)
(* that stmt_completes does not look for.                                   *)
NoFallThrough == "do" \notin risks => outcome.k # "normal"
=============================================================================
