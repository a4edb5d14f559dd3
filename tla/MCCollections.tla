--------------------------- MODULE MCCollections ---------------------------
(* Every kind of receiver, up to three elements; N(9) is an index past the machine word. *)
EXTENDS Collections

MCKeys(kind) == IF kind = "Object" THEN {Text(1), Text(2), N(0)}
                ELSE {N(-1), N(0), N(1), N(3), N(9), NaN, Infinity}
MCValues(kind) == CASE kind = "C"     -> {Object(1), Null}
                    [] kind = "Array" -> {Object(1), N(1)}
                    [] OTHER          -> {N(1), N(-1)}
MCForeign(kind) == IF kind = "Object" THEN {N(1), N(2)} ELSE MCValues(kind) \cup (IF kind = "Array" THEN {} ELSE {Text(1)})

MCLiterals(kind) == IF kind = "Object" THEN {<<>>}
                    ELSE {<<>>} \cup (IF kind = "Array" THEN {<<Undefined, Object(1)>>} ELSE {<<N(1)>>})
MCLits(kind) == IF kind = "C" THEN {<<>>, <<Object(1)>>} ELSE MCLiterals(kind)

Positions == {N(-1), N(1), Infinity, NaN}
MCTyped(kind) ==
  {Make(n, "typed", <<v>>) : n \in {"push", "unshift"}, v \in MCValues(kind)}
  \cup {Make("push", "typed", <<v, w>>) : v \in MCValues(kind), w \in MCValues(kind)}
  \cup {Make(n, "typed", <<>>) : n \in {"pop", "shift", "reverse", "length", "moveLast"}}
  \cup {Make("slice", "typed", <<a, b>>) : a \in Positions, b \in Positions}
  \cup {Make("splice", "typed", <<a, b>> \o xs) : a \in Positions, b \in Positions,
                                                  xs \in {<<>>, <<N(1)>>}}
  \cup {Make("indexOf", "typed", <<v, a>>) : v \in MCValues(kind), a \in {N(0), N(-1)}}
  \cup {Make("concat", "typed", <<Null>>)}
  \cup {Make("sort", "typed", <<<<"cmp", cmp>>>>) : cmp \in Comparators}
  \cup {Make("setLength", "typed", <<N(n)>>) : n \in {0, 1, 3}}
  \cup {Make("get", "typed", <<k>>) : k \in MCKeys(kind)}
  \cup {Make("set", "typed", <<k, v>>) : k \in MCKeys(kind), v \in MCValues(kind)}
MCBoxed(kind) ==
  {Make(n, "boxed", <<k>>) : n \in {"get", "has", "delete"}, k \in MCKeys(kind)}
  \cup {Make("set", "boxed", <<k, v>>) : k \in MCKeys(kind), v \in MCForeign(kind)}
  \cup (IF kind = "Object" THEN {} ELSE {Make("length", "boxed", <<>>), Make("setLength", "boxed", <<N(0)>>)})
MCInside(kind) ==
  IF kind = "Object" THEN {Make("set", "boxed", <<k, N(1)>>) : k \in MCKeys(kind)}
                          \cup {Make("delete", "boxed", <<Text(1)>>)}
  ELSE {Make("push", "typed", <<v>>) : v \in MCValues(kind)}
       \cup {Make(n, "typed", <<>>) : n \in {"pop", "reverse"}} \cup {Make("get", "typed", <<N(3)>>)}
       \cup {Make("set", "boxed", <<Infinity, v>>) : v \in MCValues(kind)}
MCCalls(kind) == IF kind = "Object" THEN MCBoxed(kind) ELSE MCTyped(kind) \cup MCBoxed(kind)
=============================================================================
