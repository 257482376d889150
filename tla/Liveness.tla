------------------------------ MODULE Liveness ------------------------------
(***************************************************************************)
(* What a caller of Cfg may rely on.  Whenever computeLiveInOut or         *)
(* computeWorkList has returned, getLiveIn and getLiveOut answer the least *)
(* solution of the live variable equations of the graph; while a           *)
(* computation runs they promise nothing.  Both algorithms, in any order   *)
(* and any number of times, must implement this.                           *)
(***************************************************************************)
EXTENDS LiveSets

VARIABLES graph, answer, asked

vars == <<graph, answer, asked>>

(* The sets are not to be read yet.                                        *)
NoAnswer == [in |-> <<>>, out |-> <<>>]

Init ==
  /\ IsFlowGraph(graph)
  /\ answer = NoAnswer
  /\ asked = FALSE

(* One of the two computations is called.                                  *)
Ask ==
  /\ ~asked
  /\ asked' = TRUE
  /\ answer' = NoAnswer
  /\ UNCHANGED graph

(* It returns.                                                             *)
Answer ==
  /\ asked
  /\ answer' \in Assignments(graph)
  /\ IsLeastSolution(graph, answer')
  /\ asked' = FALSE
  /\ UNCHANGED graph

Next == Ask \/ Answer

Safety == Init /\ [][Next]_vars

(* A call that was made returns.                                           *)
Spec == Safety /\ WF_vars(Answer)
=============================================================================
