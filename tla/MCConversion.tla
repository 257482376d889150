---------------------------- MODULE MCConversion ----------------------------
(* Two functions, one variable, a bounded number of lines and labels.      *)
EXTENDS Conversion

CONSTANTS f, g, x, nowhere, nothing

MCFuns == {f, g}
MCVars == {x}
MCLabels == 1 .. 6
Symmetry == Permutations(MCFuns)
=============================================================================
