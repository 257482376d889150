------------------------------ MODULE LiveSets ------------------------------
(***************************************************************************)
(* The data-flow view of a program that mcc::cfg::Cfg keeps: the graph of  *)
(* its basic blocks, with the upward exposed and the not killed variables  *)
(* of each block, and the two equations of live variable analysis.         *)
(*                                                                         *)
(* A flow graph g is a record                                              *)
(*   size        number of basic blocks; a block is its id, counted from 0 *)
(*   succ        block |-> the targets of its out-edges                    *)
(*   ueVar       block |-> variables read in it before any definition      *)
(*   notKilled   block |-> variables of the store it does not define       *)
(***************************************************************************)
EXTENDS Integers, Sequences

CONSTANT Vars    \* the variables of the compiled program

Blocks(g) == 0 .. (g.size - 1)

IsFlowGraph(g) ==
  /\ g.size \in Nat \ {0}
  /\ g.succ \in [Blocks(g) -> SUBSET Blocks(g)]
  /\ g.ueVar \in [Blocks(g) -> SUBSET Vars]
  /\ g.notKilled \in [Blocks(g) -> SUBSET Vars]

getSuccessor(g, b) == g.succ[b]

(* Mutant: the wrong direction.                                            *)
SuccessorsForPredecessors(g, b) == g.succ[b]

getPredecessor(g, b) == {p \in Blocks(g) : b \in g.succ[p]}

(* LIVEIN(b) from LIVEOUT(b), and LIVEOUT(b) from the LIVEIN of its          *)
(* successors; in and out map every block to a set of variables.           *)
LiveInOf(g, out, b) == g.ueVar[b] \cup (out[b] \cap g.notKilled[b])

LiveOutOf(g, in, b) == UNION {in[s] : s \in getSuccessor(g, b)}

(***************************************************************************)
(* What the sets should be.  An assignment s = [in, out] solves the graph  *)
(* when both equations hold at every block; the least solution is the one  *)
(* contained in all the others.                                            *)
(***************************************************************************)
Assignments(g) == [in : [Blocks(g) -> SUBSET Vars],
                   out : [Blocks(g) -> SUBSET Vars]]

InHolds(g, s, b) == s.in[b] = LiveInOf(g, s.out, b)

OutHolds(g, s, b) == s.out[b] = LiveOutOf(g, s.in, b)

IsSolution(g, s) == \A b \in Blocks(g) : InHolds(g, s, b) /\ OutHolds(g, s, b)

Below(g, s, t) ==
  \A b \in Blocks(g) : s.in[b] \subseteq t.in[b] /\ s.out[b] \subseteq t.out[b]

IsLeastSolution(g, s) ==
  /\ IsSolution(g, s)
  /\ \A t \in Assignments(g) : IsSolution(g, t) => Below(g, s, t)

(***************************************************************************)
(* The same sets said without equations.  A variable is live on entry of b *)
(* when some path from b reaches a block that reads it before defining it  *)
(* and no block before that one on the path kills it.  Paths of at most    *)
(* size blocks suffice: a longer one repeats a block.                      *)
(***************************************************************************)
Paths(g) ==
  {p \in UNION {[1 .. n -> Blocks(g)] : n \in 1 .. g.size} :
     \A i \in 1 .. Len(p) - 1 : p[i + 1] \in g.succ[p[i]]}

PathLiveIn(g) ==
  LET paths == Paths(g)
  IN [b \in Blocks(g) |->
        {v \in Vars : \E p \in paths :
           /\ p[1] = b
           /\ v \in g.ueVar[p[Len(p)]]
           /\ \A i \in 1 .. Len(p) - 1 : v \in g.notKilled[p[i]]}]
=============================================================================
