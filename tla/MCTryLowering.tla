----------------------------- MODULE MCTryLowering -----------------------------
(* Two nested try statements in one loop or two: every combination of how  *)
(* a body, a catch clause and a finally block can end.                      *)
EXTENDS TryLowering

Ends(up) == {<<>>, <<Return, Log(0)>>} \cup {<<j>> : j \in {ThrowOf(1), ThrowOf(2), Return, Break(up), Continue(up)}}
Blocks(n, up) == {<<Log(n)>> \o e : e \in Ends(up)}

Clauses(n, up) ==
    {<<>>}
    \cup {<<Catch(t, b)>> : t \in {AnyType, 1}, b \in Blocks(n, up)}
    \cup {<<Catch(1, <<Log(n)>>), Catch(2, <<Log(n + 1)>>)>>}

Finals(n) ==
    {<<>>, <<Log(n)>>, <<Log(n), ThrowOf(1)>>, <<Log(n), Return>>, <<Log(n), When(<<Return>>)>>,
     <<Log(n), Break(0)>>}

Inner(up) ==
    {t \in {Try(b, cs, f) : b \in Blocks(1, up), cs \in Clauses(2, up), f \in Finals(4)} :
        t.catches # <<>> \/ t.fin # <<>>}

FewClauses(n) == {<<>>, <<Catch(AnyType, <<Log(n)>>)>>, <<Catch(2, <<Log(n), ThrowOf(1)>>)>>}

Outer ==
    {Try(<<i, Log(5)>>, cs, f) : i \in Inner(0), cs \in FewClauses(6), f \in Finals(7)}
    \cup {Try(<<Loop(<<i, Log(5)>>)>>, cs, <<Log(7)>>) : i \in Inner(1), cs \in FewClauses(6)}
    \cup {Try(<<Log(5), ThrowOf(1)>>, <<Catch(AnyType, <<i, Log(6)>>)>>, f) :
             i \in Inner(0), f \in {<<>>, <<Log(7)>>}}
    \cup {Try(b, <<>>, <<i, Log(7)>>) : b \in Blocks(5, 0), i \in Inner(0)}

NestedTries == {<<Loop(<<t, Log(8)>>), Log(9)>> : t \in Outer}

SmallTries == {<<Loop(<<t>>)>> : t \in Inner(0)} \cup
              {<<Loop(<<Try(<<Try(<<Log(1)>> \o e, <<>>, f)>>, <<>>, <<Log(2)>>)>>)>> :
                  e \in Ends(0), f \in Finals(4)}

ProgramsToCompile == NestedTries \cup SmallTries
=============================================================================
