------------------------------ MODULE MCNames -------------------------------
(* Interchangeable names; five scopes are enough for two functions with a  *)
(* block each, the smallest program with two scopes of one identity.       *)
EXTENDS Names

CONSTANTS x, y

MCNames == {x, y}
Symmetry == Permutations(Names)
=============================================================================
