----------------------------- MODULE Dominators -----------------------------
(***************************************************************************)
(* Cfg::getIdom and Cfg::getDomSet on a graph g of g.size blocks with the  *)
(* successors g.succ.  Block 0, the entry of the first function, is the    *)
(* root; calls are not edges.                                              *)
(***************************************************************************)
LOCAL INSTANCE Naturals

Vertices(g) == 0 .. g.size - 1

(* The blocks that can be reached from block 0 without entering d.         *)
ReachedWithout(g, d) ==
  LET Reached[n \in 0 .. g.size] ==
        IF n = 0 THEN {0} \ {d}
        ELSE LET before == Reached[n - 1]
             IN before \cup ((UNION {g.succ[b] : b \in before}) \ {d})
  IN Reached[g.size]

Reachable(g) == ReachedWithout(g, g.size)

(* Every way from block 0 to v leads through d.                            *)
DominatorsOf(g, v) == {d \in Vertices(g) : v \notin ReachedWithout(g, d)}

(* What lengauer_tarjan_dominator_tree leaves in the map; reading the map  *)
(* at the root, or at a block out of reach, inserts the default, 0.        *)
getIdom(g, v) ==
  IF v = 0 \/ v \notin Reachable(g) THEN 0
  ELSE LET strict == DominatorsOf(g, v) \ {v}
       IN CHOOSE d \in strict : strict \subseteq DominatorsOf(g, d)

(* The walk up the tree ends at a block whose immediate dominator has no   *)
(* smaller id.                                                             *)
getDomSetStrict(g, v) ==     \* mutant: without the block the walk ends at
  LET Up[idom \in Vertices(g)] ==
        IF idom > getIdom(g, idom) THEN {idom} \cup Up[getIdom(g, idom)] ELSE {}
  IN {v} \cup Up[getIdom(g, v)]

getDomSet(g, v) ==
  LET Up[idom \in Vertices(g)] ==
        IF idom > getIdom(g, idom) THEN {idom} \cup Up[getIdom(g, idom)] ELSE {idom}
  IN {v} \cup Up[getIdom(g, v)]
=============================================================================
