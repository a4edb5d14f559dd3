------------------------------- MODULE MCBce --------------------------------
(* Programs for Bce: one counted loop over i, its body two statements, one  *)
(* of them perhaps a loop over j; and the memories they start in.           *)
EXTENDS Bce, TLC

(* Statements with their parts inside them.                                 *)
SeqGet(x, e) == [s |-> "get", x |-> x, i |-> e]
SeqSet(x, e) == [s |-> "set", x |-> x, i |-> e]
Push(x)      == [s |-> "push", x |-> x]
Pop(x)       == [s |-> "pop", x |-> x]
Renew(x)     == [s |-> "renew", x |-> x]
Assign(x, e) == [s |-> "assign", x |-> x, val |-> e]
StaticSet(e) == [s |-> "static", val |-> e]
If(c, a, b)  == [s |-> "if", c |-> c, a |-> a, b |-> b]
Switch(t, b) == [s |-> "switch", test |-> t, body |-> b]
CallFn(b)    == [s |-> "call", body |-> b]
Leave(how)   == [s |-> how]
For(x, c0, op, bound, step, body) ==
    [s |-> "for", iv |-> x, init |-> c0, op |-> op, bound |-> bound, step |-> step, body |-> body]

(* The table of statements: each is followed by those inside it.            *)
RECURSIVE Place(_, _), Code(_, _)
Place(ss, k) ==
    IF ss = <<>> THEN [ids |-> <<>>, code |-> <<>>]
    ELSE LET first == Code(Head(ss), k + 1)
             next  == Place(Tail(ss), k + Len(first))
         IN  [ids |-> <<k + 1>> \o next.ids, code |-> first \o next.code]
Code(st, k) ==
    CASE st.s \in {"for", "call"} ->
            LET b == Place(st.body, k) IN <<[st EXCEPT !.body = b.ids]>> \o b.code
      [] st.s = "switch" ->
            LET b == Place(<<st.test>> \o st.body, k)
            IN  <<[st EXCEPT !.test = Head(b.ids), !.body = Tail(b.ids)]>> \o b.code
      [] st.s = "if" ->
            LET a == Place(st.a, k)
                b == Place(st.b, k + Len(a.code))
            IN  <<[st EXCEPT !.a = a.ids, !.b = b.ids]>> \o a.code \o b.code
      [] OTHER -> <<st>>

i == Local("i")
n == Local("n")

(* Bodies.                                                                  *)
Accesses == {SeqGet("v", <<i>>), SeqSet("v", <<i>>), SeqGet("w", <<i>>), SeqSet("w", <<i>>),
             SeqGet("v", <<i, Lit(1)>>)}
Changes == {Push("v"), Push("w"), Pop("v"), Pop("w"), Renew("v"),
            Assign("i", <<i, Lit(1)>>), Assign("n", <<n, Lit(1)>>)}
Harmless == {Assign("n", <<Length("v")>>), SeqSet("w", <<Length("w")>>)}
Unseen == {CallFn(<<SeqGet("v", <<n>>)>>), CallFn(<<Pop("v")>>), CallFn(<<Assign("n", <<Lit(3)>>)>>),
           CallFn(<<Assign("i", <<Lit(3)>>)>>), StaticSet(<<Lit(3)>>)}
Branching ==
    {If(<<Cmp("<", <<i>>, <<Lit(1)>>)>>, <<SeqGet("v", <<i>>)>>, <<c>>) :
        c \in {Pop("v"), SeqSet("v", <<i>>), Assign("n", <<Lit(1)>>), Leave("break"), Leave("continue")}}
Switches ==
    {Switch(SeqGet("w", <<Lit(0)>>), <<SeqGet("v", <<i>>)>>), Switch(Pop("v"), <<SeqSet("v", <<i>>)>>)}
Nested ==
    {For("j", 0, "<", <<b>>, 1, <<c>>) :
        b \in {n, Length("v")},
        c \in {SeqGet("v", <<i>>), SeqGet("v", <<Local("j")>>), Pop("w"),
               If(<<Cmp("<", <<Local("j")>>, <<i>>)>>, <<SeqSet("v", <<i>>)>>, <<SeqSet("w", <<Local("j")>>)>>)}}

Simple == Accesses \cup Changes \cup Harmless
Bodies == Simple \cup Unseen \cup Branching \cup Switches \cup Nested

Bounds == {<<Lit(2)>>, <<n>>, <<Length("v")>>, <<Length("w")>>, <<n, Lit(1)>>, <<i, Lit(1)>>, <<Static>>}

Headers ==
    {[init |-> 0, op |-> o, step |-> 1, bound |-> b] : o \in {"<", "<="}, b \in Bounds}
    \cup {[init |-> c, op |-> "<", step |-> s, bound |-> <<n>>] : c \in {-1, 0, 1}, s \in {1, -1}}
    \cup {[init |-> 0, op |-> "!=", step |-> 1, bound |-> <<n>>]}

Function(h, body) ==
    LET f == Place(<<For("i", h.init, h.op, h.bound, h.step, body)>>, 0)
    IN  [code |-> f.code, main |-> f.ids]

LoopPrograms ==
    {Function(h, <<a, b>>) : h \in Headers, a \in Bodies, b \in Accesses \cup Nested}

(* for (i = 0; i < v.length; i++), whose body pushes to v, or to w, and     *)
(* reads and writes at i.                                                   *)
GrowingBound ==
    {Function([init |-> 0, op |-> "<", step |-> 1, bound |-> <<Length("v")>>], <<a, b>>) :
        a \in {Push("v"), Push("w")}, b \in Accesses}

Memories ==
    {[env |-> [x \in {"i", "j"} |-> 0] @@ [x \in {"n"} |-> 2],
      ref |-> [x \in {"v", "w"} |-> <<"old", IF x = "w" THEN y ELSE x>>],
      len |-> [o \in Objects |-> CASE o = <<"old", "v">> -> 2 [] o = <<"old", "w">> -> k [] OTHER -> 1],
      static |-> 2] :
        y \in {"v", "w"}, k \in {1, 3}}

(* v and w are two Vectors.                                                 *)
Apart == {m \in Memories : m.ref["w"] = <<"old", "w">>}
=============================================================================
