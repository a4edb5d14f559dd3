--------------------------------- MODULE MCFlow ---------------------------------
(* Bodies in which a fact about x is established, a compound statement may *)
(* disturb it, and x is then relied on.                                     *)
EXTENDS Flow

Return1 == Return(New)
Break == Jump("break", "")
Continue == Jump("continue", "")
SetNull == Do(Set(Null))
SetNew == Do(Set(New))
NeedX == Need(X)

(* Ways to establish a fact, none included.                                 *)
Facts == {<<>>, <<SetNew>>, <<If(IsNull(X), Return1, NoElse)>>}

Atoms == {NeedX, SetNull, SetNew, Do(Set(Next)), CallF, Return1, Break, Continue, Throw(Null), SystemExit}
Small == {<<a>> : a \in Atoms}
Pairs == {<<a, b>> : a \in Atoms \ {Return1, SystemExit}, b \in Atoms \ {Do(Set(Next)), SystemExit}}
Ifs(Cs, Bs) ==
    {If(c, Block(b), NoElse) : c \in Cs, b \in Bs}
    \cup {If(c, Block(b), d) : c \in Cs, b \in Bs, d \in {NeedX, SetNull, SetNew, Return1, SystemExit}}
Guards == {IsNull(X), NotNull(X), Opaque, NotNull(Set(Next)), Use}
Operands == Guards \cup {X}
Conditions == Operands \cup UNION {{And(a, b), Or(a, b)} : a \in Operands, b \in Operands}
Bodies2 == Pairs \cup {<<If(c, a, NoElse), b>> : c \in {IsNull(X), Opaque}, a \in Atoms, b \in Atoms \ {Continue, SystemExit}}
            \cup {<<If(NotNull(X), a, Return1)>> : a \in Atoms}

LoopOver(b) ==
    {While(Opaque, b), While(NotNull(X), b), DoWhile(b, Opaque), DoWhile(b, NotNull(Set(Next))),
     For(NotNull(X), Set(Next), b), For(Opaque, Set(New), b), ForIn("x", b), ForIn("y", b)}
Wrapped(ss) ==
    LoopOver(Block(ss))
    \cup {Switch(<<Case(FALSE, ss), Case(d, <<NeedX>>)>>) : d \in BOOLEAN}
    \cup {Switch(<<Case(TRUE, ss)>>)}
    \cup {Try(ss, <<[type |-> "Base", body |-> <<Need(E), NeedX>>]>>, <<SetNew>>),
          Try(ss, <<[type |-> "Any", body |-> <<NeedX>>]>>, <<>>), Try(ss, <<>>, <<NeedX>>)}

Compounds == Ifs(Conditions, Small \ {<<Continue>>, <<SystemExit>>, <<Do(Set(Next))>>}) \cup UNION {Wrapped(b) : b \in Bodies2}

Values2 == {X, New, Next, Set(New), Set(Next), As}
Expressions ==
    {Cond(c, a, b) : c \in {IsNull(X), NotNull(X), Is, X}, a \in Values2, b \in Values2}
    \cup {And(a, b) : a \in Values2, b \in Values2} \cup {Or(a, b) : a \in Values2, b \in Values2} \cup Values2

(* Casts under a type guard.                                                *)
CastAtoms == {Need(As), SetNew, SetNull, CallF, Break, Return1}
Guarded ==
    {<<If(Is, Block(<<s, Need(As)>>), Block(<<t>>)), Return1>> :
        s \in CastAtoms \cup UNION {LoopOver(Block(<<a, b>>)) \cup Ifs({Opaque, Is}, {<<a, b>>}) : a \in CastAtoms, b \in CastAtoms},
        t \in {SetNull, Need(As)}}

(* A for each loop over x: in a guard, and around one.                      *)
EachUnderGuard ==
    {<<If(Is, Block(<<ForIn("x", Block(<<s>>)), Need(As)>>), NoElse), Return1>> : s \in CastAtoms}
EachAroundGuard ==
    {<<ForIn("x", Block(<<If(Is, Block(<<s, Need(As)>>), t)>>)), NeedX, Return1>> :
        s \in CastAtoms, t \in {SetNull, SetNew, Need(As)}}

(* The binding of a catch clause: used before the try statement, in each of *)
(* its parts and after it, also in a loop.                                  *)
NeedE == Need(E)
Raise == If(Opaque, Throw(Next), NoElse)
Catching(b, c, f) == Try(b, <<[type |-> "Base", body |-> c], [type |-> "Any", body |-> <<>>]>>, f)
Tries ==
    {Catching(b, c, f) :
        b \in {<<Raise>>, <<Throw(Null)>>, <<NeedE>>},
        c \in {<<>>, <<NeedE>>, <<Return1>>, <<Throw(E)>>, <<Do(Set(E)), NeedX>>}, f \in {<<>>, <<NeedE>>}}
EndsOf(t) == {<<t, Return1>>, <<t, NeedE, Return1>>, <<NeedE, t, Return1>>, <<t, Return(E)>>}
Bindings ==
    UNION {EndsOf(t) \cup {<<While(Opaque, Block(b)), Return1>> : b \in EndsOf(t)} : t \in Tries}

(* Jumps: loops, switches and labels in one another.                        *)
Goes == {Jump(k, l) : k \in {"break", "continue"}, l \in {"", "a", "b"}}
Nest(b) == {While(Opaque, b), DoWhile(b, Opaque), ForIn("y", b), Switch(<<Case(TRUE, <<b>>)>>)}
Named(S) == S \cup {Labeled(l, s) : l \in {"a", "b"}, s \in S}
Deep == UNION {Named(Nest(s)) : s \in UNION {Named(Nest(Block(<<If(Opaque, j, NoElse), Return1>>))) : j \in Goes}}
JumpBodies ==
    {<<s, Return1>> : s \in Deep} \cup {<<s>> : s \in Deep} \cup {<<j>> : j \in Goes}
    \cup {<<Labeled("a", Labeled("b", While(Opaque, Block(<<j, Return1>>)))), Return1>> : j \in Goes}

Bodies1 ==
    {f \o <<c, NeedX, Return1>> : f \in Facts, c \in Compounds}
    \cup {<<c>> : c \in UNION {Wrapped(b) : b \in Bodies2}}
    \cup {f \o <<Need(v), NeedX, Return1>> : f \in {<<>>, <<SetNew>>}, v \in Expressions}
    \cup Guarded \cup EachUnderGuard \cup EachAroundGuard \cup Bindings \cup JumpBodies
=============================================================================
