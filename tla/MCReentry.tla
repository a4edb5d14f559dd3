------------------------------ MODULE MCReentry ------------------------------
(* Two arrays, a client socket and a server socket.                         *)
EXTENDS Reentry, TLC

CONSTANTS a1, a2, s1, l1

ArraySymmetry == Permutations({a1, a2})
=============================================================================
