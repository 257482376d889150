--------------------------- MODULE MCCfgLiveness ---------------------------
(***************************************************************************)
(* Every flow graph of MCSize blocks that Cfg's constructor can build.  A  *)
(* block ends in a return (no edge), a jump (one edge anywhere), a         *)
(* conditional jump (the next block and one anywhere) or falls through.    *)
(* The last block has no next one.                                         *)
(***************************************************************************)
EXTENDS CfgLiveness

CONSTANTS MCSize, x

MCVars == {x}

MCBlocks == 0 .. (MCSize - 1)

MCOutEdges(b) ==
  {{}} \cup {{t} : t \in MCBlocks} \cup
  (IF b + 1 \in MCBlocks THEN {{b + 1, t} : t \in MCBlocks} ELSE {})

MCGraphs ==
  {[size |-> MCSize, succ |-> s, ueVar |-> u, notKilled |-> k] :
     s \in {f \in [MCBlocks -> SUBSET MCBlocks] :
              \A b \in MCBlocks : f[b] \in MCOutEdges(b)},
     u \in [MCBlocks -> SUBSET Vars],
     k \in [MCBlocks -> SUBSET Vars]}
=============================================================================
