----------------------------- MODULE MCClasses ------------------------------
(***************************************************************************)
(* Small hierarchies for Classes: three classes A, B and C, interfaces I    *)
(* and J.  Each family below turns on what one part of the compiler sees.   *)
(***************************************************************************)
EXTENDS Classes

Member(kind, n) ==
    [m |-> kind, name |-> n, ns |-> "", static |-> FALSE, override |-> FALSE, final |-> FALSE,
     const |-> FALSE, vis |-> "public", ty |-> "ref", params |-> 0, required |-> 0,
     rest |-> FALSE, super |-> {}]

Method(n)        == Member("method", n)
Override(n)      == [Method(n) EXCEPT !.override = TRUE]
Field(n, ty)     == [Member("field", n) EXCEPT !.ty = ty]
Ctor(n, ps, req, super) ==
    [Method(n) EXCEPT !.params = ps, !.required = req, !.super = super]
In(ns, m)        == [m EXCEPT !.ns = ns]

Class(n, extends, impls, members) ==
    [d |-> "class", name |-> n, package |-> "", extends |-> extends, implements |-> impls,
     final |-> FALSE, dynamic |-> FALSE, members |-> members]
Iface(n, extends, members) ==
    [d |-> "iface", name |-> n, package |-> "", extends |-> extends, implements |-> <<>>,
     final |-> FALSE, dynamic |-> FALSE, members |-> members]

(* Overriding along a chain, classes and interfaces declared in any order.  *)
Dispatch ==
    LET I == Iface("I", <<>>, <<Method("m")>>)
        J == Iface("J", <<"I">>, <<Method("n")>>)
        A(ms) == Class("A", <<>>, <<>>, ms)
        B(is, ms) == Class("B", <<"A">>, is, ms)
        C(p, is, ms) == Class("C", p, is, ms)
        bodies == {<<>>, <<Override("m")>>, <<Method("n"), Override("m")>>}
    IN  {<<A(a), I, B(is, b), J, C(p, js, c)>> :
            a \in {<<Method("m")>>, <<Method("n"), [Method("m") EXCEPT !.final = TRUE]>>},
            b \in bodies, c \in bodies, p \in {<<"A">>, <<"B">>},
            is \in {<<>>, <<"I">>}, js \in {<<>>, <<"J">>, <<"J", "I">>}}
        \cup {<<C(<<"B">>, js, c), I, J, B(is, b), A(<<Method("m")>>)>> :
            b \in bodies, c \in bodies, is \in {<<>>, <<"I">>}, js \in {<<>>, <<"J">>}}

(* Accessors, private and protected members, a package.                      *)
Access ==
    {<<Class("A", <<>>, <<>>, <<[Member("getter", "p") EXCEPT !.vis = v],
                               [Member("setter", "p") EXCEPT !.vis = "public", !.params = 1, !.required = 1],
                               [Method("m") EXCEPT !.vis = w]>>),
       [Class("B", <<"A">>, <<>>, <<[Member("getter", "p") EXCEPT !.override = o], Override("m")>>)
           EXCEPT !.package = pk]>> :
        v \in {"public", "private", "protected", "internal"}, w \in {"private", "internal"},
        o \in BOOLEAN, pk \in {"", "q"}}

(* Fields along a chain, dynamic classes, static fields.                     *)
Layout ==
    {<<[Class("C", <<"B">>, <<>>, c) EXCEPT !.dynamic = dc],
       [Class("A", <<>>, <<>>, a) EXCEPT !.dynamic = da],
       [Class("B", <<"A">>, <<>>, b) EXCEPT !.dynamic = db]>> :
        a \in {<<Field("x", "int")>>, <<Field("x", "Number"), Field("y", "ref")>>},
        b \in {<<>>, <<Field("z", "int")>>, <<Field("x", "int")>>},
        c \in {<<Field("w", "ref")>>, <<[Field("s", "int") EXCEPT !.static = TRUE],
                                        [Method("t") EXCEPT !.static = TRUE], Field("w", "Number")>>},
        da \in BOOLEAN, db \in BOOLEAN, dc \in BOOLEAN}

(* Constructors with and without parameters, and with a super(...) that     *)
(* runs once, in a branch, in a loop or not at all.                         *)
Chained(as, bs, cs) ==
    {<<Class("A", <<>>, <<>>, <<Field("x", "int")>> \o a), Class("B", <<"A">>, <<>>, <<Field("y", "int")>> \o b),
       Class("C", <<"B">>, <<>>, c)>> : a \in as, b \in bs, c \in cs}
Construction ==
    Chained({<<>>, <<Ctor("A", 1, 0, {})>>, <<Ctor("A", 1, 1, {})>>},
            {<<>>, <<Ctor("B", 0, 0, {})>>} \cup {<<Ctor("B", 2, 1, s)>> : s \in {{1}, {0, 1}, {0}}},
            {<<>>, <<Ctor("C", 0, 0, {})>>}
            \cup {<<Field("z", "int"), Ctor("C", 1, 1, s)>> : s \in {{1}, {0, 1, 2}}})

(* Members in namespaces q and r next to plain ones.                         *)
Qualified ==
    {<<Class("A", <<>>, <<>>, <<In("q", Method("m")), In("r", Field("f", "int"))>> \o a),
       Class("B", <<"A">>, <<>>, b), Class("C", <<"B">>, <<>>, c)>> :
        a \in {<<>>, <<In("r", Method("m"))>>},
        b \in {<<>>, <<In("q", Override("m"))>>, <<Method("m")>>},
        c \in {<<>>, <<In("q", Override("m")), In("q", Field("g", "ref"))>>}}

(* Hierarchies that are rejected: cycles, unknown and final bases.           *)
Broken ==
    {<<Class("A", a, <<>>, <<>>), [Class("B", <<"A">>, <<"I">>, <<>>) EXCEPT !.final = TRUE],
       Class("C", <<"B">>, <<>>, <<>>), Iface("I", i, <<>>), Iface("J", <<"I">>, <<>>)>> :
        a \in {<<"A">>, <<"C">>, <<"I">>, <<"X">>, <<"Object">>, <<>>},
        i \in {<<>>, <<"J">>, <<"I">>, <<"A">>}}

Hierarchies == Dispatch \cup Access \cup Layout \cup Construction \cup Qualified \cup Broken

=============================================================================
