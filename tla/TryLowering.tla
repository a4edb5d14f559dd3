----------------------------- MODULE TryLowering -----------------------------
(***************************************************************************)
(* The lowering of try/catch/finally to setjmp and explicit handlers       *)
(* (crates/codegen/src/llvm.rs: emit_try, run_exit_actions, and the jumps  *)
(* that cross try regions), against what ES3 12.14 says these statements   *)
(* do.                                                                     *)
(*                                                                         *)
(* A function body is compiled to structured code and the code is run: the *)
(* blocks of LLVM IR are sequences of instructions, vs_push_handler,       *)
(* vs_pop_handler and vs_throw work on the runtime's handler stack, and a  *)
(* longjmp lands in the try whose buffer it was given.  Finally blocks are *)
(* emitted once per path that leaves the statement, so what is checked is  *)
(* that every path has the right copy under the right handlers.            *)
(***************************************************************************)
EXTENDS Integers, Sequences

CONSTANTS Programs          \* function bodies to compile

VARIABLES
    program,    \* the body, a sequence of statements
    phase,      \* "source", "compiled", "rejected" or "done"
    code,       \* its emitted code
    result      \* what running the code did

vars == <<program, phase, code, result>>

-----------------------------------------------------------------------------
(* ---- statements -------------------------------------------------------- *)
(* Exceptions are of class 1 or 2; a catch clause of type AnyType takes all *)
(* of them.  A loop runs its body Iterations times unless it is left; a     *)
(* `when` is an if whose condition is true at run time.                     *)

AnyType == 0
Iterations == 2

Log(n) == [s |-> "log", n |-> n]
ThrowOf(t) == [s |-> "throw", n |-> t]
Return == [s |-> "return", n |-> 0]
Break(up) == [s |-> "break", n |-> up]          \* of the loop `up` levels out
Continue(up) == [s |-> "continue", n |-> up]
When(b) == [s |-> "when", body |-> b]
Loop(b) == [s |-> "loop", body |-> b]
Try(b, cs, f) == [s |-> "try", body |-> b, catches |-> cs, fin |-> f]
Catch(t, b) == [type |-> t, body |-> b]

Front(q) == SubSeq(q, 1, Len(q) - 1)
Last(q) == q[Len(q)]

(* The first clause that takes an exception of class t, 0 if there is none. *)
Matching(cs, t) ==
    LET takes == {i \in 1..Len(cs) : cs[i].type \in {AnyType, t}}
    IN  IF takes = {} THEN 0 ELSE CHOOSE i \in takes : \A j \in takes : i <= j

(* ---- what ES3 says -------------------------------------------------------- *)
(* A completion has a kind and a value: the class of the exception, or how  *)
(* many loops out the target of a jump is.                                  *)

Completion(k, v) == [kind |-> k, v |-> v]
Normal == Completion("normal", 0)

(* escaped: an exception left a catch clause of a try with a finally.       *)
Meaning(tr, c, esc) == [trace |-> tr, out |-> c, escaped |-> esc]
Then(a, b) == Meaning(a.trace \o b.trace, b.out, a.escaped \/ b.escaped)

RECURSIVE Eval(_), EvalStmt(_), EvalLoop(_, _)

Eval(ss) ==
    IF ss = <<>> THEN Meaning(<<>>, Normal, FALSE)
    ELSE LET a == EvalStmt(Head(ss))
         IN  IF a.out = Normal THEN Then(a, Eval(Tail(ss))) ELSE a

EvalLoop(body, n) ==
    LET a == Eval(body)
        goesOn == a.out \in {Normal, Completion("continue", 0)}
        jumps == a.out.kind \in {"break", "continue"}
    IN  CASE goesOn /\ n > 1 -> Then(a, EvalLoop(body, n - 1))
          [] goesOn \/ a.out = Completion("break", 0) ->
                Meaning(a.trace, Normal, a.escaped)
          [] jumps /\ a.out.v > 0 ->
                Meaning(a.trace, Completion(a.out.kind, a.out.v - 1), a.escaped)
          [] OTHER -> a

EvalTry(st) ==
    LET b == Eval(st.body)
        m == IF b.out.kind = "throw" THEN Matching(st.catches, b.out.v) ELSE 0
        c == IF m = 0 THEN b ELSE Then(b, Eval(st.catches[m].body))
        f == Eval(st.fin)
        all == Then(c, f)
    IN  Meaning(all.trace,
                IF f.out = Normal THEN c.out ELSE f.out,
                all.escaped \/ (m # 0 /\ c.out.kind = "throw" /\ st.fin # <<>>))

EvalStmt(st) ==
    CASE st.s = "log" -> Meaning(<<st.n>>, Normal, FALSE)
      [] st.s = "when" -> Eval(st.body)
      [] st.s = "loop" -> EvalLoop(st.body, Iterations)
      [] st.s = "try" -> EvalTry(st)
      [] OTHER -> Meaning(<<>>, Completion(st.s, st.n), FALSE)

-----------------------------------------------------------------------------
(* ---- what the backend emits ------------------------------------------------ *)
(* cx.exits is FnCx.exit_actions, innermost last (a missing finally is the  *)
(* empty one); cx.frames holds the exit_depth of the enclosing loops.       *)

Cx(exits, frames) == [exits |-> exits, frames |-> frames]
Exit(pop, fin) == [pop_handler |-> pop, finally |-> fin]

Instr(op, n) == [op |-> op, n |-> n]
Terminators == {"ret", "break", "continue"}

(* current_block_open.  The instruction after a throw starts a dead block,  *)
(* and a nested statement ends at the start of its own end block.           *)
Open(c) == c = <<>> \/ Last(c).op \notin Terminators

RECURSIVE Emit(_, _, _), EmitStmt(_, _, _), exit_actions(_, _, _)

(* A faulty variant: statements after a jump are emitted too.               *)
EmitPastJumps(ss, cx, c) ==
    IF ss = <<>> THEN c ELSE Emit(Tail(ss), cx, EmitStmt(Head(ss), cx, c))

(* Emits ss after c; statements after a jump are skipped.                   *)
Emit(ss, cx, c) ==
    IF ss = <<>> \/ ~Open(c) THEN c
    ELSE Emit(Tail(ss), cx, EmitStmt(Head(ss), cx, c))

(* The loop of run_exit_actions over the actions split off, last first;     *)
(* meanwhile cx has only the others.  The pop is emitted unconditionally.   *)
exit_actions(actions, cx, c) ==
    IF actions = <<>> THEN c
    ELSE LET a == Last(actions)
             popped == IF a.pop_handler THEN Append(c, Instr("pop", 0)) ELSE c
         IN  exit_actions(Front(actions), cx, Emit(a.finally, cx, popped))

(* Faulty variants: the actions run outermost first; the handlers of the    *)
(* regions left are not popped.                                             *)
run_exit_actionsOutermostFirst(to_depth, cx, c) ==
    IF to_depth > Len(cx.exits) THEN Append(c, Instr("panic", 0))
    ELSE LET own == SubSeq(cx.exits, to_depth + 1, Len(cx.exits))
         IN  exit_actions([i \in 1..Len(own) |-> own[Len(own) + 1 - i]],
                          Cx(SubSeq(cx.exits, 1, to_depth), cx.frames), c)

run_exit_actionsWithoutPop(to_depth, cx, c) ==
    IF to_depth > Len(cx.exits) THEN Append(c, Instr("panic", 0))
    ELSE LET own == SubSeq(cx.exits, to_depth + 1, Len(cx.exits))
         IN  exit_actions([i \in 1..Len(own) |-> Exit(FALSE, own[i].finally)],
                          Cx(SubSeq(cx.exits, 1, to_depth), cx.frames), c)

(* run_exit_actions: split_off panics past the end of the stack.            *)
run_exit_actions(to_depth, cx, c) ==
    IF to_depth > Len(cx.exits) THEN Append(c, Instr("panic", 0))
    ELSE exit_actions(SubSeq(cx.exits, to_depth + 1, Len(cx.exits)),
                      Cx(SubSeq(cx.exits, 1, to_depth), cx.frames), c)

find_frame(cx, up) == Len(cx.frames) - up
frame_exit_depth(cx, up) == cx.frames[find_frame(cx, up)]

(* emit_try: the block of the body, one per catch clause up to the first    *)
(* catch-all, and the one reached when no clause matches.                   *)
emit_try(st, cx) ==
    LET inside(pop) == Cx(Append(cx.exits, Exit(pop, st.fin)), cx.frames)
        body == Emit(st.body, inside(TRUE), <<Instr("push", 0)>>)
        clause(i) == Emit(st.catches[i].body, inside(FALSE), <<>>)
        finish(c) == IF Open(c) THEN Emit(st.fin, cx, c) ELSE c
        all == Matching(st.catches, AnyType)
        rest == Emit(st.fin, cx, <<>>)
    IN  [op |-> "try",
         body |-> IF Open(body) THEN Emit(st.fin, cx, Append(body, Instr("pop", 0)))
                  ELSE body,
         catches |-> [i \in 1..(IF all = 0 THEN Len(st.catches) ELSE all) |->
                        [type |-> st.catches[i].type, code |-> finish(clause(i))]],
         unmatched |-> IF Open(rest) THEN Append(rest, Instr("rethrow", 0)) ELSE rest]

EmitStmt(st, cx, c) ==
    CASE st.s \in {"log", "throw"} -> Append(c, Instr(st.s, st.n))
      [] st.s = "when" -> Append(c, [op |-> "when", body |-> Emit(st.body, cx, <<>>)])
      [] st.s = "loop" ->
            LET in == Cx(cx.exits, Append(cx.frames, Len(cx.exits)))
            IN  Append(c, [op |-> "loop", frame |-> Len(in.frames),
                           body |-> Emit(st.body, in, <<>>)])
      [] st.s = "return" -> Append(run_exit_actions(0, cx, c), Instr("ret", 0))
      [] st.s \in {"break", "continue"} ->
            Append(run_exit_actions(frame_exit_depth(cx, st.n), cx, c),
                   Instr(st.s, find_frame(cx, st.n)))
      [] st.s = "try" -> Append(c, emit_try(st, cx))

(* module.verify(): no terminator in the middle of a block (nor a compiler  *)
(* that panicked on the way).                                               *)
RECURSIVE verify(_)
verify(c) ==
    \A i \in 1..Len(c) :
        /\ c[i].op # "panic"
        /\ c[i].op \in Terminators => i = Len(c)
        /\ c[i].op \in {"when", "loop"} => verify(c[i].body)
        /\ c[i].op = "try" =>
              /\ verify(c[i].body) /\ verify(c[i].unmatched)
              /\ \A k \in 1..Len(c[i].catches) : verify(c[i].catches[k].code)

-----------------------------------------------------------------------------
(* ---- what the emitted code does -------------------------------------------- *)
(* hs is HANDLERS: the try statements, by nesting depth, whose buffers are  *)
(* registered; 0 is a handler of the caller.  balanced is lost when control *)
(* arrives (at the end of a try, in its dispatch, at the target of a jump,  *)
(* in the caller) with other handlers than were there on the way in.        *)

Caller == 0

Ran(tr, o, h, b) == [trace |-> tr, out |-> o, hs |-> h, balanced |-> b]
ThenRan(a, b) == Ran(a.trace \o b.trace, b.out, b.hs, a.balanced /\ b.balanced)

(* exc.rs throw: pop a handler and longjmp to it, or end the process.       *)
vs_throw(t, hs) ==
    IF hs = <<>> THEN Ran(<<>>, Completion("uncaught", t), hs, TRUE)
    ELSE Ran(<<>>, [kind |-> "longjmp", v |-> t, to |-> Last(hs)], Front(hs), TRUE)

(* exc.rs pop_handler: Vec::pop does nothing on an empty stack.             *)
vs_pop_handler(hs) == IF hs = <<>> THEN hs ELSE Front(hs)

RECURSIVE Exec(_, _, _, _), ExecInstr(_, _, _, _), ExecLoop(_, _, _, _, _)

(* Runs c with handlers hs, in d nested try statements, the innermost of    *)
(* which is dispatching t, if any.                                          *)
Exec(c, hs, d, t) ==
    IF c = <<>> THEN Ran(<<>>, Normal, hs, TRUE)
    ELSE LET a == ExecInstr(Head(c), hs, d, t)
         IN  IF a.out = Normal THEN ThenRan(a, Exec(Tail(c), a.hs, d, t)) ELSE a

ExecLoop(i, hs, d, t, n) ==
    LET b == Exec(i.body, hs, d, t)
        here == b.out \in {Normal, Completion("continue", i.frame), Completion("break", i.frame)}
        a == [b EXCEPT !.balanced = @ /\ (here => b.hs = hs)]
    IN  CASE a.out \in {Normal, Completion("continue", i.frame)} ->
                IF n > 1 THEN ThenRan(a, ExecLoop(i, a.hs, d, t, n - 1))
                ELSE [a EXCEPT !.out = Normal]
          [] a.out = Completion("break", i.frame) -> [a EXCEPT !.out = Normal]
          [] OTHER -> a

(* setjmp returns twice: first into the body, then into the dispatch.       *)
ExecTry(i, hs, d) ==
    LET b == Exec(i.body, hs, d, 0)
        lands == b.out.kind = "longjmp" /\ b.out.to = d
        m == Matching(i.catches, b.out.v)
        r == IF lands
             THEN ThenRan(b, Exec(IF m = 0 THEN i.unmatched ELSE i.catches[m].code,
                                  b.hs, d, b.out.v))
             ELSE b
    IN  [r EXCEPT !.balanced = @ /\ (lands => b.hs = hs) /\ (r.out = Normal => r.hs = hs)]

ExecInstr(i, hs, d, t) ==
    CASE i.op = "log" -> Ran(<<i.n>>, Normal, hs, TRUE)
      [] i.op = "push" -> Ran(<<>>, Normal, Append(hs, d), TRUE)
      [] i.op = "pop" -> Ran(<<>>, Normal, vs_pop_handler(hs), TRUE)
      [] i.op = "throw" -> vs_throw(i.n, hs)
      [] i.op = "rethrow" -> vs_throw(t, hs)
      [] i.op = "when" -> Exec(i.body, hs, d, t)
      [] i.op = "loop" -> ExecLoop(i, hs, d, t, Iterations)
      [] i.op = "try" -> ExecTry(i, hs, d + 1)
      [] OTHER -> Ran(<<>>, Completion(i.op, i.n), hs, TRUE)

(* What the caller of the function sees.                                    *)
Observed(r) ==
    CASE r.out.kind = "longjmp" /\ r.out.to = Caller -> Completion("throw", r.out.v)
      [] r.out.kind = "ret" -> Completion("return", 0)
      [] r.out = Normal -> Normal
      [] OTHER -> Completion("astray", 0)

-----------------------------------------------------------------------------
(* ---- compile, verify, run ------------------------------------------------ *)

NoRun == Ran(<<>>, Normal, <<>>, TRUE)

Init ==
    /\ program \in Programs
    /\ phase = "source"
    /\ code = <<>>
    /\ result = NoRun

Compile ==
    /\ phase = "source"
    /\ code' = Emit(program, Cx(<<>>, <<>>), <<>>)
    /\ phase' = IF verify(code') THEN "compiled" ELSE "rejected"
    /\ UNCHANGED <<program, result>>

Execute ==
    /\ phase = "compiled"
    /\ LET r == Exec(code, <<Caller>>, Caller, 0)
           left == IF r.out.kind = "longjmp" THEN <<>> ELSE <<Caller>>
       IN  result' = [r EXCEPT !.balanced = @ /\ r.hs = left]
    /\ phase' = "done"
    /\ UNCHANGED <<program, code>>

Next == Compile \/ Execute

Spec == Init /\ [][Next]_vars

-----------------------------------------------------------------------------
(* ---- the programs the lowering is right about ------------------------------ *)

RECURSIVE Leaves(_, _), Overridden(_)

(* ss may jump out of itself, from inside `loops` loops of its own.         *)
Leaves(ss, loops) ==
    \E i \in 1..Len(ss) :
        \/ ss[i].s = "return"
        \/ ss[i].s \in {"break", "continue"} /\ ss[i].n >= loops
        \/ ss[i].s = "when" /\ Leaves(ss[i].body, loops)
        \/ ss[i].s = "loop" /\ Leaves(ss[i].body, loops + 1)
        \/ /\ ss[i].s = "try"
           /\ \/ Leaves(ss[i].body, loops) \/ Leaves(ss[i].fin, loops)
              \/ \E k \in 1..Len(ss[i].catches) : Leaves(ss[i].catches[k].body, loops)

(* A finally block may jump out while a jump out of its try waits for it.   *)
Overridden(ss) ==
    \E i \in 1..Len(ss) :
        \/ ss[i].s \in {"when", "loop"} /\ Overridden(ss[i].body)
        \/ /\ ss[i].s = "try"
           /\ \/ Overridden(ss[i].body) \/ Overridden(ss[i].fin)
              \/ \E k \in 1..Len(ss[i].catches) : Overridden(ss[i].catches[k].body)
              \/ /\ Leaves(ss[i].fin, 0)
                 /\ \/ Leaves(ss[i].body, 0)
                    \/ \E k \in 1..Len(ss[i].catches) : Leaves(ss[i].catches[k].body, 0)

(* Programs in which no finally block overrides a jump always compile.      *)
TameProgramsCompile == phase = "rejected" => Overridden(program)

(* They do what ES3 says, finally blocks in the right order and number and  *)
(* the right completion, unless an exception escapes a catch clause of a    *)
(* statement with a finally.                                                *)
LoweringIsExact ==
    phase = "done" /\ ~Overridden(program) =>
        LET m == Eval(program)
        IN  ~m.escaped => result.trace = m.trace /\ Observed(result) = m.out

(* On every path out of a try, also that one, they leave the handlers that  *)
(* were there before it: no later throw can land in a frame that is gone.   *)
HandlersBalanced == phase = "done" /\ ~Overridden(program) => result.balanced

=============================================================================
