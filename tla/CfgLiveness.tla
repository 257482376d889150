---------------------------- MODULE CfgLiveness ----------------------------
(***************************************************************************)
(* Live variable analysis of mcc::cfg::Cfg.  The object is built once for  *)
(* a graph (module CfgBuild) and then asked for the live sets by two       *)
(* algorithms that share the maps liveIn and liveOut:                      *)
(*                                                                         *)
(*   computeLiveInOut   rounds over all blocks until no LIVEOUT changes    *)
(*   computeWorkList    a worklist of blocks whose equations may not hold  *)
(*                                                                         *)
(* The driver calls both, one after the other, on the same object; the     *)
(* register manager calls the second one only; liveSetAt repeats it before *)
(* every query unless told otherwise.  So a call may find the maps empty   *)
(* or already filled by any earlier calls.  One step is one block.         *)
(***************************************************************************)
EXTENDS LiveSets

CONSTANTS Graphs

ASSUME GraphsAssumption == \A g \in Graphs : IsFlowGraph(g)

VARIABLES graph,      \* the flow graph, fixed by the constructor
          liveIn,     \* the two maps of the object
          liveOut,
          pc,         \* where the running member function is
          cursor,     \* block the for loops of computeLiveInOut are at
          changed,    \* its flag
          worklist    \* the local set of computeWorkList

vars == <<graph, liveIn, liveOut, pc, cursor, changed, worklist>>
sets == <<liveIn, liveOut>>

Idle == {"constructed", "returned"}
Running == {"updateLiveIn", "updateLiveOut", "worklist"}

(* What the constructor leaves in the maps; the rest is local to the       *)
(* functions and has a value only to start from.                           *)
Constructed ==
  /\ liveIn = [b \in Blocks(graph) |-> {}]
  /\ liveOut = [b \in Blocks(graph) |-> {}]
  /\ pc = "constructed"
  /\ cursor = 0
  /\ changed = FALSE
  /\ worklist = {}

Init == graph \in Graphs /\ Constructed

(* Mutant: kills are forgotten.                                            *)
updateLiveInWithoutKills(b, out) ==
  liveIn' = [liveIn EXCEPT ![b] = graph.ueVar[b] \cup out[b]]

updateLiveIn(b, out) ==
  liveIn' = [liveIn EXCEPT ![b] = LiveInOf(graph, out, b)]

updateLiveOut(b) ==
  liveOut' = [liveOut EXCEPT ![b] = LiveOutOf(graph, liveIn, b)]

-----------------------------------------------------------------------------
(* computeLiveInOut                                                        *)

(* Mutants: one block too many; only the last block's change counts.       *)
IsBehindLast(b) == b = graph.size
changedByThisBlock == LiveOutOf(graph, liveIn, cursor) # liveOut[cursor]

IsLast(b) == b = graph.size - 1
changedSoFar == changed \/ LiveOutOf(graph, liveIn, cursor) # liveOut[cursor]

callLiveInOut ==
  /\ pc \in Idle
  /\ pc' = "updateLiveIn"
  /\ cursor' = 0
  /\ changed' = FALSE
  /\ UNCHANGED <<graph, liveIn, liveOut, worklist>>

(* First loop of a round: the result of updateLiveIn is not looked at.     *)
roundLiveIn ==
  /\ pc = "updateLiveIn"
  /\ updateLiveIn(cursor, liveOut)
  /\ cursor' = IF IsLast(cursor) THEN 0 ELSE cursor + 1
  /\ pc' = IF IsLast(cursor) THEN "updateLiveOut" ELSE pc
  /\ UNCHANGED <<graph, liveOut, changed, worklist>>

(* Second loop; after the last block the round is repeated if any LIVEOUT  *)
(* changed in it.                                                          *)
roundLiveOut ==
  /\ pc = "updateLiveOut"
  /\ updateLiveOut(cursor)
  /\ cursor' = IF IsLast(cursor) THEN 0 ELSE cursor + 1
  /\ changed' = (changedSoFar /\ ~IsLast(cursor))
  /\ pc' = IF ~IsLast(cursor) THEN pc
           ELSE IF changedSoFar THEN "updateLiveIn" ELSE "returned"
  /\ UNCHANGED <<graph, liveIn, worklist>>

-----------------------------------------------------------------------------
(* computeWorkList                                                         *)

(* Mutant: every call starts from empty sets.                              *)
callWorkListAfresh ==
  /\ pc \in Idle
  /\ pc' = "worklist"
  /\ worklist' = Blocks(graph)
  /\ liveIn' = [b \in Blocks(graph) |-> {}]
  /\ liveOut' = [b \in Blocks(graph) |-> {}]
  /\ UNCHANGED <<graph, cursor, changed>>

callWorkList ==
  /\ pc \in Idle
  /\ pc' = "worklist"
  /\ worklist' = Blocks(graph)
  /\ UNCHANGED <<graph, liveIn, liveOut, cursor, changed>>

(* The set is ordered, so begin() is the smallest block id.                *)
First(W, b) == b \in W /\ \A c \in W : b <= c

(* Mutant: whether LIVEIN changed is not looked at.                        *)
addedAlways(b) == getPredecessor(graph, b)

addedAfter(b) ==
  IF liveIn'[b] # liveIn[b] THEN getPredecessor(graph, b) ELSE {}

(* b leaves the list and its equations are re-established, LIVEOUT first;  *)
(* if LIVEIN changed the blocks before b are put on the list, b itself     *)
(* again when it is its own predecessor.                                   *)
workOn(b) ==
  /\ pc = "worklist"
  /\ First(worklist, b)
  /\ updateLiveOut(b)
  /\ updateLiveIn(b, liveOut')
  /\ worklist' = (worklist \ {b}) \cup addedAfter(b)
  /\ UNCHANGED <<graph, pc, cursor, changed>>

endWorkList ==
  /\ pc = "worklist"
  /\ worklist = {}
  /\ pc' = "returned"
  /\ UNCHANGED <<graph, liveIn, liveOut, cursor, changed, worklist>>

-----------------------------------------------------------------------------
Step == \/ roundLiveIn
        \/ roundLiveOut
        \/ \E b \in Blocks(graph) : workOn(b)
        \/ endWorkList

Next == callLiveInOut \/ callWorkList \/ Step

Safety == Init /\ [][Next]_vars

(* The functions run on one thread without waiting for anything: a started *)
(* one keeps taking steps.  Nothing forces a client to call.               *)
Spec == Safety /\ WF_vars(Step)

-----------------------------------------------------------------------------
current == [in |-> liveIn, out |-> liveOut]

TypeOK ==
  /\ IsFlowGraph(graph)
  /\ liveIn \in [Blocks(graph) -> SUBSET Vars]
  /\ liveOut \in [Blocks(graph) -> SUBSET Vars]
  /\ pc \in Idle \cup Running
  /\ cursor \in Blocks(graph)
  /\ changed \in BOOLEAN
  /\ worklist \in SUBSET Blocks(graph)

(* The equations only lag behind: applying one of them to the current sets *)
(* can add variables and never removes one.                                *)
Lagging ==
  \A b \in Blocks(graph) : /\ liveIn[b] \subseteq LiveInOf(graph, liveOut, b)
                           /\ liveOut[b] \subseteq LiveOutOf(graph, liveIn, b)

(* The equations can fail only at a block that is still on the worklist;   *)
(* this is why an empty list means that the job is done.                   *)
SolvedOffWorklist ==
  pc = "worklist" =>
    \A b \in Blocks(graph) \ worklist :
       InHolds(graph, current, b) /\ OutHolds(graph, current, b)

(* A round that has not seen a change so far has left every LIVEIN equation*)
(* intact and has established the LIVEOUT equations of the blocks it has   *)
(* passed, so a round without a change is a proof that nothing is left to  *)
(* do although it only watches LIVEOUT.                                    *)
SolvedByQuietRound ==
  /\ pc = "updateLiveIn" =>
       \A b \in Blocks(graph) : b < cursor => InHolds(graph, current, b)
  /\ pc = "updateLiveOut" /\ ~changed =>
       \A b \in Blocks(graph) :
          /\ InHolds(graph, current, b)
          /\ b < cursor => OutHolds(graph, current, b)

(* Whichever functions have run, in whatever order, a returned call leaves *)
(* a solution of all equations.                                            *)
SolvedWhenReturned == pc = "returned" => IsSolution(graph, current)

(* At no time a set holds a variable that some solution does not: nothing  *)
(* is reported live without a reason, not even inside a computation.       *)
BelowEverySolution ==
  \A s \in Assignments(graph) : IsSolution(graph, s) => Below(graph, current, s)

(* A returned call has found the liveness that the paths of the program    *)
(* define, for every block.                                                *)
ExactWhenReturned == pc = "returned" => liveIn = PathLiveIn(graph)

(* The sets only ever grow, across calls of either function; termination   *)
(* rests on it.                                                            *)
NothingRemoved ==
  \A b \in Blocks(graph) : /\ liveIn[b] \subseteq liveIn'[b]
                           /\ liveOut[b] \subseteq liveOut'[b]

SetsGrow == [][NothingRemoved]_vars

(* Once the sets are a solution no later call of either function disturbs  *)
(* them, not even between its steps: the driver's second computation and   *)
(* the recomputation in liveSetAt are harmless.                            *)
RecomputationIsStable ==
  [][IsSolution(graph, current) => UNCHANGED sets]_vars

(* Every call returns.                                                     *)
CallsReturn == pc \in Running ~> pc = "returned"

-----------------------------------------------------------------------------
(* The abstract specification: the sets may be read when a call returned.  *)
Promise == INSTANCE Liveness WITH
  answer <- IF pc = "returned" THEN current ELSE [in |-> <<>>, out |-> <<>>],
  asked <- pc \in Running

ImplementsLiveness == Promise!Spec
=============================================================================
