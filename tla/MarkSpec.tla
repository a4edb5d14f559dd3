------------------------------ MODULE MarkSpec ------------------------------
(***************************************************************************)
(* What a mark phase promises the sweep that follows it, whoever does the  *)
(* marking: starting from the roots it claims blocks one at a time, each   *)
(* of them a root or referenced from a block claimed before, and it        *)
(* reports completion only when no further block can be claimed.  The      *)
(* sweep (gc.rs `collect`) frees every block that is not marked then.      *)
(***************************************************************************)
CONSTANT Blocks

VARIABLES
    children,   \* children[b]: the blocks a block b references
    roots,      \* the blocks the mutator's stack, globals, ... reference
    marked,     \* the blocks claimed so far
    finished    \* the mark phase has returned to `collect`

vars == <<children, roots, marked, finished>>

(* A set of blocks that contains the roots and is closed under reference. *)
IsClosed(S) ==
    /\ roots \subseteq S
    /\ \A b \in S : children[b] \subseteq S

(* The blocks the program can still reach: the least closed set. *)
Reachable == {b \in Blocks : \A S \in SUBSET Blocks : IsClosed(S) => b \in S}

Init ==
    /\ children \in [Blocks -> SUBSET Blocks]
    /\ roots \in SUBSET Blocks
    /\ marked = {}
    /\ finished = FALSE

MarkOne(b) ==
    /\ ~finished
    /\ b \notin marked
    /\ b \in roots \/ \E a \in marked : b \in children[a]
    /\ marked' = marked \cup {b}
    /\ UNCHANGED <<children, roots, finished>>

Finish ==
    /\ ~finished
    /\ IsClosed(marked)
    /\ finished' = TRUE
    /\ UNCHANGED <<children, roots, marked>>

Next ==
    \/ \E b \in Blocks : MarkOne(b)
    \/ Finish

Spec == Init /\ [][Next]_vars
=============================================================================
