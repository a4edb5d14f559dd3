--------------------------- MODULE MCParallelMark ---------------------------
(* Small object graphs for ParallelMark: a cycle with a shared block, a     *)
(* chain, a block referenced twice by its parent, and garbage that refers   *)
(* to live blocks.                                                          *)
EXTENDS ParallelMark, TLC

CONSTANTS w1, w2, w3, b1, b2, b3, b4

Cyclic  == b1 :> <<b2, b3>> @@ b2 :> <<b3>> @@ b3 :> <<b1, b4>> @@ b4 :> <<>>
Chain   == b1 :> <<b2>> @@ b2 :> <<b3>> @@ b3 :> <<b4>> @@ b4 :> <<>>
Twice   == b1 :> <<b2, b2>> @@ b2 :> <<b2>> @@ b3 :> <<b1, b2>> @@ b4 :> <<b1>>
Fan     == b1 :> <<b2, b3, b4>> @@ b2 :> <<>> @@ b3 :> <<>> @@ b4 :> <<b1>>

MCGraphs == {Cyclic, Chain, Twice, Fan}
MCRootLists == {<<>>, <<b1>>, <<b1, b2, b1>>, <<b3, b1>>}
=============================================================================
