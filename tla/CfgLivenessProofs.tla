------------------------- MODULE CfgLivenessProofs -------------------------
(***************************************************************************)
(* Proofs about module CfgLiveness, for every set of flow graphs of any    *)
(* size over any set of variables.                                         *)
(***************************************************************************)
EXTENDS CfgLiveness, FiniteSetTheorems, WellFoundedInduction, TLAPS

(* The equations yield sets of variables and are monotone in the sets they *)
(* read (set_intersect and set_union in updateLiveIn and updateLiveOut).   *)
LEMMA EquationTypes ==
  ASSUME NEW g, IsFlowGraph(g), NEW b \in Blocks(g),
         NEW s \in [Blocks(g) -> SUBSET Vars]
  PROVE  /\ LiveInOf(g, s, b) \in SUBSET Vars
         /\ LiveOutOf(g, s, b) \in SUBSET Vars
BY DEF IsFlowGraph, LiveInOf, LiveOutOf, getSuccessor

LEMMA LiveInMonotone ==
  ASSUME NEW g, NEW b, NEW s, NEW t, s[b] \subseteq t[b]
  PROVE  LiveInOf(g, s, b) \subseteq LiveInOf(g, t, b)
BY DEF LiveInOf

LEMMA LiveOutMonotone ==
  ASSUME NEW g, IsFlowGraph(g), NEW b \in Blocks(g), NEW s, NEW t,
         \A c \in Blocks(g) : s[c] \subseteq t[c]
  PROVE  LiveOutOf(g, s, b) \subseteq LiveOutOf(g, t, b)
BY DEF IsFlowGraph, LiveOutOf, getSuccessor

-----------------------------------------------------------------------------
(* The for loops over the blocks start at, and move on to, an existing one. *)
LEMMA FirstBlock ==
  ASSUME NEW g, IsFlowGraph(g)
  PROVE  0 \in Blocks(g)
<1>1. g.size \in Nat \ {0}
  BY DEF IsFlowGraph
<1> QED
  BY <1>1 DEF Blocks

LEMMA NextBlock ==
  ASSUME NEW g, IsFlowGraph(g), NEW b \in Blocks(g), b # g.size - 1
  PROVE  b + 1 \in Blocks(g)
<1>1. g.size \in Nat \ {0}
  BY DEF IsFlowGraph
<1> QED
  BY <1>1 DEF Blocks

-----------------------------------------------------------------------------
(* Type correctness of the object's maps and of the loops' locals.         *)
LEMMA InitType == Init => TypeOK
BY GraphsAssumption, FirstBlock DEF Init, Constructed, TypeOK, Idle, Running

LEMMA NextType == TypeOK /\ [Next]_vars => TypeOK'
<1> SUFFICES ASSUME TypeOK, [Next]_vars
             PROVE  TypeOK'
  OBVIOUS
<1> USE DEF TypeOK, Idle, Running
<1>1. CASE callLiveInOut
  BY <1>1, FirstBlock DEF callLiveInOut
<1>2. CASE callWorkList
  BY <1>2 DEF callWorkList
<1>3. CASE roundLiveIn
  <2>1. LiveInOf(graph, liveOut, cursor) \in SUBSET Vars
    BY EquationTypes
  <2>2. liveIn' \in [Blocks(graph) -> SUBSET Vars]
    BY <1>3, <2>1 DEF roundLiveIn, updateLiveIn
  <2>3. cursor' \in Blocks(graph)
    BY <1>3, FirstBlock, NextBlock DEF roundLiveIn, IsLast
  <2> QED
    BY <1>3, <2>2, <2>3 DEF roundLiveIn
<1>4. CASE roundLiveOut
  <2>1. LiveOutOf(graph, liveIn, cursor) \in SUBSET Vars
    BY EquationTypes
  <2>2. liveOut' \in [Blocks(graph) -> SUBSET Vars]
    BY <1>4, <2>1 DEF roundLiveOut, changedSoFar, updateLiveOut
  <2>3. cursor' \in Blocks(graph)
    BY <1>4, FirstBlock, NextBlock DEF roundLiveOut, changedSoFar, IsLast
  <2>4. changed' \in BOOLEAN /\ pc' \in Idle \cup Running
    BY <1>4 DEF roundLiveOut, changedSoFar
  <2> QED
    BY <1>4, <2>2, <2>3, <2>4 DEF roundLiveOut, changedSoFar
<1>5. CASE \E b \in Blocks(graph) : workOn(b)
  <2>1. PICK b \in Blocks(graph) : workOn(b)
    BY <1>5
  <2>2. liveOut' \in [Blocks(graph) -> SUBSET Vars]
    BY <2>1, EquationTypes DEF workOn, addedAfter, updateLiveOut
  <2>3. liveIn' \in [Blocks(graph) -> SUBSET Vars]
    BY <2>1, <2>2, EquationTypes DEF workOn, addedAfter, updateLiveIn
  <2>4. worklist' \in SUBSET Blocks(graph)
    BY <2>1 DEF workOn, addedAfter, getPredecessor
  <2> QED
    BY <2>1, <2>2, <2>3, <2>4 DEF workOn, addedAfter
<1>6. CASE endWorkList
  BY <1>6 DEF endWorkList
<1>7. CASE UNCHANGED vars
  BY <1>7 DEF vars
<1> QED
  BY <1>1, <1>2, <1>3, <1>4, <1>5, <1>6, <1>7 DEF Next, Step

(* The maps keep their shape in every reachable state.                     *)
THEOREM TypeCorrect == Safety => []TypeOK
<1>1. Init => TypeOK
  BY InitType
<1>2. TypeOK /\ [Next]_vars => TypeOK'
  BY NextType
<1> QED
  BY <1>1, <1>2, PTL DEF Safety

-----------------------------------------------------------------------------
(* The two updates, taken on their own: they add variables, and never one  *)
(* that a solution s of the equations lacks.                               *)
LEMMA UpdateLiveIn ==
  ASSUME TypeOK, TypeOK', Lagging, NEW b \in Blocks(graph), NEW out,
         \A c \in Blocks(graph) : liveOut[c] \subseteq out[c],
         updateLiveIn(b, out)
  PROVE  /\ \A c \in Blocks(graph) : liveIn[c] \subseteq liveIn'[c]
         /\ \A c \in Blocks(graph) \ {b} : liveIn'[c] = liveIn[c]
         /\ liveIn'[b] = LiveInOf(graph, out, b)
<1>1. liveIn' = [liveIn EXCEPT ![b] = LiveInOf(graph, out, b)]
  BY DEF updateLiveIn
<1>2. /\ liveIn'[b] = LiveInOf(graph, out, b)
      /\ \A c \in Blocks(graph) \ {b} : liveIn'[c] = liveIn[c]
  BY <1>1 DEF TypeOK
<1>3. liveIn[b] \subseteq LiveInOf(graph, out, b)
  BY LiveInMonotone DEF Lagging
<1> QED
  BY <1>2, <1>3

LEMMA UpdateLiveOut ==
  ASSUME TypeOK, TypeOK', Lagging, NEW b \in Blocks(graph), updateLiveOut(b)
  PROVE  /\ \A c \in Blocks(graph) : liveOut[c] \subseteq liveOut'[c]
         /\ \A c \in Blocks(graph) \ {b} : liveOut'[c] = liveOut[c]
         /\ liveOut'[b] = LiveOutOf(graph, liveIn, b)
<1>1. liveOut' = [liveOut EXCEPT ![b] = LiveOutOf(graph, liveIn, b)]
  BY DEF updateLiveOut
<1>2. /\ liveOut'[b] = LiveOutOf(graph, liveIn, b)
      /\ \A c \in Blocks(graph) \ {b} : liveOut'[c] = liveOut[c]
  BY <1>1 DEF TypeOK
<1> QED
  BY <1>2 DEF Lagging

(* What every step does to the maps, in one statement.                     *)
Grown ==
  /\ graph' = graph
  /\ \A b \in Blocks(graph) : /\ liveIn[b] \subseteq liveIn'[b]
                              /\ liveOut[b] \subseteq liveOut'[b]
  /\ \A b \in Blocks(graph) :
        /\ liveIn'[b] = liveIn[b] \/ liveIn'[b] = LiveInOf(graph, liveOut', b)
        /\ liveOut'[b] = liveOut[b] \/ liveOut'[b] = LiveOutOf(graph, liveIn, b)

LEMMA StepGrows ==
  ASSUME TypeOK, TypeOK', Lagging, [Next]_vars
  PROVE  Grown
<1> USE DEF Grown
<1>1. CASE callLiveInOut
  BY <1>1 DEF callLiveInOut
<1>2. CASE callWorkList
  BY <1>2 DEF callWorkList
<1>3. CASE roundLiveIn
  <2>1. cursor \in Blocks(graph)
    BY DEF TypeOK
  <2>2. updateLiveIn(cursor, liveOut) /\ UNCHANGED <<graph, liveOut>>
    BY <1>3 DEF roundLiveIn
  <2> QED
    BY <2>1, <2>2, UpdateLiveIn
<1>4. CASE roundLiveOut
  <2>1. cursor \in Blocks(graph)
    BY DEF TypeOK
  <2>2. updateLiveOut(cursor) /\ UNCHANGED <<graph, liveIn>>
    BY <1>4 DEF roundLiveOut, changedSoFar
  <2> QED
    BY <2>1, <2>2, UpdateLiveOut
<1>5. CASE \E b \in Blocks(graph) : workOn(b)
  <2>1. PICK b \in Blocks(graph) : workOn(b)
    BY <1>5
  <2>2. updateLiveOut(b) /\ updateLiveIn(b, liveOut') /\ UNCHANGED graph
    BY <2>1 DEF workOn, addedAfter
  <2>3. /\ \A c \in Blocks(graph) : liveOut[c] \subseteq liveOut'[c]
        /\ \A c \in Blocks(graph) \ {b} : liveOut'[c] = liveOut[c]
        /\ liveOut'[b] = LiveOutOf(graph, liveIn, b)
    BY <2>2, UpdateLiveOut
  <2>4. /\ \A c \in Blocks(graph) : liveIn[c] \subseteq liveIn'[c]
        /\ \A c \in Blocks(graph) \ {b} : liveIn'[c] = liveIn[c]
        /\ liveIn'[b] = LiveInOf(graph, liveOut', b)
    BY <2>2, <2>3, UpdateLiveIn
  <2> QED
    BY <2>2, <2>3, <2>4
<1>6. CASE endWorkList
  BY <1>6 DEF endWorkList
<1>7. CASE UNCHANGED vars
  BY <1>7 DEF vars
<1> QED
  BY <1>1, <1>2, <1>3, <1>4, <1>5, <1>6, <1>7 DEF Next, Step

LEMMA NextLagging ==
  ASSUME TypeOK, TypeOK', Lagging, Grown
  PROVE  Lagging'
<1> SUFFICES ASSUME NEW b \in Blocks(graph)
             PROVE  /\ liveIn'[b] \subseteq LiveInOf(graph, liveOut', b)
                    /\ liveOut'[b] \subseteq LiveOutOf(graph, liveIn', b)
  BY DEF Lagging, Grown
<1>1. LiveInOf(graph, liveOut, b) \subseteq LiveInOf(graph, liveOut', b)
  BY LiveInMonotone DEF Grown
<1>2. LiveOutOf(graph, liveIn, b) \subseteq LiveOutOf(graph, liveIn', b)
  BY LiveOutMonotone DEF Grown, TypeOK
<1> QED
  BY <1>1, <1>2 DEF Grown, Lagging

LEMMA NextBelow ==
  ASSUME TypeOK, TypeOK', BelowEverySolution, Grown
  PROVE  BelowEverySolution'
<1> SUFFICES ASSUME NEW s \in Assignments(graph), IsSolution(graph, s),
                    NEW b \in Blocks(graph)
             PROVE  liveIn'[b] \subseteq s.in[b] /\ liveOut'[b] \subseteq s.out[b]
  BY DEF BelowEverySolution, Below, current, Grown
<1>1. \A c \in Blocks(graph) :
        liveIn[c] \subseteq s.in[c] /\ liveOut[c] \subseteq s.out[c]
  BY DEF BelowEverySolution, Below, current
<1>2. s.in[b] = LiveInOf(graph, s.out, b) /\ s.out[b] = LiveOutOf(graph, s.in, b)
  BY DEF IsSolution, InHolds, OutHolds
<1>3. LiveOutOf(graph, liveIn, b) \subseteq s.out[b]
  BY <1>1, <1>2, LiveOutMonotone DEF TypeOK
<1>4. liveOut'[b] \subseteq s.out[b]
  BY <1>1, <1>3 DEF Grown
<1>5. LiveInOf(graph, liveOut', b) \subseteq s.in[b]
  BY <1>2, <1>4, LiveInMonotone
<1> QED
  BY <1>1, <1>4, <1>5 DEF Grown

-----------------------------------------------------------------------------
(* Where the equations hold.  Solved is what the three control points of   *)
(* the two functions have established.                                     *)
Solved == SolvedOffWorklist /\ SolvedByQuietRound /\ SolvedWhenReturned

(* An equation whose two sides were not touched still holds.               *)
LEMMA FrameIn ==
  ASSUME NEW b \in Blocks(graph), InHolds(graph, current, b), graph' = graph,
         liveIn'[b] = liveIn[b], liveOut'[b] = liveOut[b]
  PROVE  InHolds(graph, current, b)'
BY DEF InHolds, current, LiveInOf

LEMMA FrameOut ==
  ASSUME TypeOK, NEW b \in Blocks(graph), OutHolds(graph, current, b),
         graph' = graph, liveOut'[b] = liveOut[b],
         \A c \in getSuccessor(graph, b) : liveIn'[c] = liveIn[c]
  PROVE  OutHolds(graph, current, b)'
<1>1. LiveOutOf(graph, liveIn', b) = LiveOutOf(graph, liveIn, b)
  BY DEF LiveOutOf
<1> QED
  BY <1>1 DEF OutHolds, current

LEMMA RoundLiveInSolved ==
  ASSUME TypeOK, TypeOK', Lagging, Solved, roundLiveIn
  PROVE  Solved'
<1>1. /\ pc = "updateLiveIn" /\ updateLiveIn(cursor, liveOut)
      /\ UNCHANGED <<graph, liveOut>>
      /\ cursor \in Blocks(graph)
  BY DEF roundLiveIn, TypeOK
<1>2. /\ \A c \in Blocks(graph) \ {cursor} : liveIn'[c] = liveIn[c]
      /\ liveIn'[cursor] = LiveInOf(graph, liveOut, cursor)
  BY <1>1, UpdateLiveIn
<1>3. \A b \in Blocks(graph) : b = cursor => InHolds(graph, current, b)'
  BY <1>1, <1>2 DEF InHolds, current
<1>4. \A b \in Blocks(graph) : b < cursor => InHolds(graph, current, b)'
  <2> SUFFICES ASSUME NEW b \in Blocks(graph), b < cursor
               PROVE  InHolds(graph, current, b)'
    OBVIOUS
  <2>1. InHolds(graph, current, b) /\ b # cursor
    BY <1>1 DEF Solved, SolvedByQuietRound, Blocks
  <2> QED
    BY <1>1, <1>2, <2>1, FrameIn
<1>5. CASE IsLast(cursor)
  <2>1. pc' = "updateLiveOut" /\ cursor' = 0
    BY <1>5 DEF roundLiveIn
  <2>2. \A b \in Blocks(graph) : b < cursor \/ b = cursor
    BY <1>1, <1>5 DEF IsLast, Blocks, TypeOK, IsFlowGraph
  <2>3. \A b \in Blocks(graph) : InHolds(graph, current, b)'
    BY <1>3, <1>4, <2>2
  <2>4. \A b \in Blocks(graph) : ~(b < 0)
    BY DEF Blocks
  <2> QED
    BY <1>1, <2>1, <2>3, <2>4
       DEF Solved, SolvedOffWorklist, SolvedByQuietRound, SolvedWhenReturned
<1>6. CASE ~IsLast(cursor)
  <2>1. pc' = "updateLiveIn" /\ cursor' = cursor + 1
    BY <1>1, <1>6 DEF roundLiveIn
  <2>2. \A b \in Blocks(graph) : b < cursor + 1 => b < cursor \/ b = cursor
    BY <1>1 DEF Blocks
  <2>3. \A b \in Blocks(graph) : b < cursor' => InHolds(graph, current, b)'
    BY <1>3, <1>4, <2>1, <2>2
  <2> QED
    BY <1>1, <2>1, <2>3
       DEF Solved, SolvedOffWorklist, SolvedByQuietRound, SolvedWhenReturned
<1> QED
  BY <1>5, <1>6

LEMMA RoundLiveOutSolved ==
  ASSUME TypeOK, TypeOK', Lagging, Solved, roundLiveOut
  PROVE  Solved'
<1> DEFINE change == changed \/ LiveOutOf(graph, liveIn, cursor) # liveOut[cursor]
<1>1. /\ pc = "updateLiveOut" /\ updateLiveOut(cursor)
      /\ UNCHANGED <<graph, liveIn>>
      /\ cursor \in Blocks(graph)
  BY DEF roundLiveOut, changedSoFar, TypeOK
<1>2. /\ \A c \in Blocks(graph) \ {cursor} : liveOut'[c] = liveOut[c]
      /\ liveOut'[cursor] = LiveOutOf(graph, liveIn, cursor)
  BY <1>1, UpdateLiveOut
<1>3. ASSUME ~change
      PROVE  /\ \A b \in Blocks(graph) : InHolds(graph, current, b)'
             /\ \A b \in Blocks(graph) : b < cursor => OutHolds(graph, current, b)'
             /\ \A b \in Blocks(graph) : b = cursor => OutHolds(graph, current, b)'
  <2>1. \A b \in Blocks(graph) : liveOut'[b] = liveOut[b]
    BY <1>2, <1>3
  <2>2. ~changed
    BY <1>3
  <2>3. \A b \in Blocks(graph) : InHolds(graph, current, b)'
    BY <1>1, <2>1, <2>2, FrameIn DEF Solved, SolvedByQuietRound
  <2>4. ASSUME NEW b \in Blocks(graph), b < cursor
        PROVE  OutHolds(graph, current, b)'
    <3>1. OutHolds(graph, current, b)
      BY <1>1, <2>2, <2>4 DEF Solved, SolvedByQuietRound
    <3> QED
      BY <1>1, <2>1, <3>1, FrameOut
  <2>5. \A b \in Blocks(graph) : b = cursor => OutHolds(graph, current, b)'
    BY <1>1, <1>2 DEF OutHolds, current
  <2> QED
    BY <2>3, <2>4, <2>5
<1>4. CASE ~IsLast(cursor)
  <2>1. pc' = "updateLiveOut" /\ cursor' = cursor + 1 /\ (changed' <=> change)
    BY <1>1, <1>4 DEF roundLiveOut, changedSoFar
  <2>2. \A b \in Blocks(graph) : b < cursor + 1 => b < cursor \/ b = cursor
    BY <1>1 DEF Blocks
  <2>3. ~changed' => \A b \in Blocks(graph) :
                        /\ InHolds(graph, current, b)'
                        /\ b < cursor' => OutHolds(graph, current, b)'
    BY <1>3, <2>1, <2>2
  <2> QED
    BY <1>1, <2>1, <2>3
       DEF Solved, SolvedOffWorklist, SolvedByQuietRound, SolvedWhenReturned
<1>5. CASE IsLast(cursor) /\ change
  <2>1. pc' = "updateLiveIn" /\ cursor' = 0
    BY <1>5 DEF roundLiveOut, changedSoFar
  <2>2. \A b \in Blocks(graph) : ~(b < 0)
    BY DEF Blocks
  <2> QED
    BY <1>1, <2>1, <2>2
       DEF Solved, SolvedOffWorklist, SolvedByQuietRound, SolvedWhenReturned
<1>6. CASE IsLast(cursor) /\ ~change
  <2>1. pc' = "returned"
    BY <1>6 DEF roundLiveOut, changedSoFar
  <2>2. \A b \in Blocks(graph) : b < cursor \/ b = cursor
    BY <1>1, <1>6 DEF IsLast, Blocks, TypeOK, IsFlowGraph
  <2>3. IsSolution(graph, current)'
    BY <1>1, <1>3, <1>6, <2>2 DEF IsSolution
  <2> QED
    BY <2>1, <2>3
       DEF Solved, SolvedOffWorklist, SolvedByQuietRound, SolvedWhenReturned
<1> QED
  BY <1>4, <1>5, <1>6

LEMMA WorkOnSolved ==
  ASSUME TypeOK, TypeOK', Lagging, Solved, NEW b \in Blocks(graph), workOn(b)
  PROVE  Solved'
<1>1. /\ pc = "worklist" /\ pc' = "worklist" /\ UNCHANGED graph
      /\ updateLiveOut(b) /\ updateLiveIn(b, liveOut')
      /\ worklist' = (worklist \ {b}) \cup
            (IF liveIn'[b] # liveIn[b] THEN getPredecessor(graph, b) ELSE {})
  BY DEF workOn, addedAfter
<1>2. /\ \A c \in Blocks(graph) : liveOut[c] \subseteq liveOut'[c]
      /\ \A c \in Blocks(graph) \ {b} : liveOut'[c] = liveOut[c]
      /\ liveOut'[b] = LiveOutOf(graph, liveIn, b)
  BY <1>1, UpdateLiveOut
<1>3. /\ \A c \in Blocks(graph) \ {b} : liveIn'[c] = liveIn[c]
      /\ liveIn'[b] = LiveInOf(graph, liveOut', b)
  BY <1>1, <1>2, UpdateLiveIn
<1>4. ASSUME NEW c \in Blocks(graph) \ worklist'
      PROVE  InHolds(graph, current, c)' /\ OutHolds(graph, current, c)'
  <2>1. \A s \in getSuccessor(graph, c) : liveIn'[s] = liveIn[s]
    <3> SUFFICES ASSUME NEW s \in getSuccessor(graph, c), liveIn'[s] # liveIn[s]
                 PROVE  FALSE
      OBVIOUS
    <3>1. s \in Blocks(graph)
      BY DEF getSuccessor, TypeOK, IsFlowGraph
    <3>2. s = b
      BY <1>3, <3>1
    <3>3. c \in getPredecessor(graph, b)
      BY <3>2 DEF getPredecessor, getSuccessor
    <3> QED
      BY <1>1, <1>4, <3>2, <3>3
  <2>2. CASE c = b
    <3>1. InHolds(graph, current, c)'
      BY <1>1, <1>3, <2>2 DEF InHolds, current
    <3>2. LiveOutOf(graph, liveIn', c) = LiveOutOf(graph, liveIn, c)
      BY <2>1 DEF LiveOutOf
    <3> QED
      BY <1>1, <1>2, <2>2, <3>1, <3>2 DEF OutHolds, current
  <2>3. CASE c # b
    <3>1. InHolds(graph, current, c) /\ OutHolds(graph, current, c)
      BY <1>1, <1>4, <2>3 DEF Solved, SolvedOffWorklist
    <3> QED
      BY <1>1, <1>2, <1>3, <2>1, <2>3, <3>1, FrameIn, FrameOut
  <2> QED
    BY <2>2, <2>3
<1> QED
  BY <1>1, <1>4
     DEF Solved, SolvedOffWorklist, SolvedByQuietRound, SolvedWhenReturned

LEMMA NextSolved ==
  ASSUME TypeOK, TypeOK', Lagging, Solved, [Next]_vars
  PROVE  Solved'
<1>1. CASE callLiveInOut
  <2>1. \A b \in Blocks(graph) : ~(b < 0)
    BY DEF Blocks
  <2> QED
    BY <1>1, <2>1 DEF callLiveInOut,
       Solved, SolvedOffWorklist, SolvedByQuietRound, SolvedWhenReturned
<1>2. CASE callWorkList
  BY <1>2 DEF callWorkList,
     Solved, SolvedOffWorklist, SolvedByQuietRound, SolvedWhenReturned
<1>3. CASE roundLiveIn
  BY <1>3, RoundLiveInSolved
<1>4. CASE roundLiveOut
  BY <1>4, RoundLiveOutSolved
<1>5. CASE \E b \in Blocks(graph) : workOn(b)
  BY <1>5, WorkOnSolved
<1>6. CASE endWorkList
  BY <1>6 DEF endWorkList, IsSolution, current, InHolds, OutHolds,
     Solved, SolvedOffWorklist, SolvedByQuietRound, SolvedWhenReturned
<1>7. CASE UNCHANGED vars
  BY <1>7 DEF vars, IsSolution, current, InHolds, OutHolds,
     Solved, SolvedOffWorklist, SolvedByQuietRound, SolvedWhenReturned
<1> QED
  BY <1>1, <1>2, <1>3, <1>4, <1>5, <1>6, <1>7 DEF Next, Step

-----------------------------------------------------------------------------
(* The inductive invariant: the types, the equations lagging behind, the   *)
(* bound given by every solution, and what each control point has solved.  *)
IInv == TypeOK /\ Lagging /\ BelowEverySolution /\ Solved

(* Empty maps of a flow graph, wherever it comes from, are a start.        *)
LEMMA ConstructedIInv == IsFlowGraph(graph) /\ Constructed => IInv
<1> SUFFICES ASSUME IsFlowGraph(graph), Constructed
             PROVE  IInv
  OBVIOUS
<1>1. TypeOK
  BY FirstBlock DEF Constructed, TypeOK, Idle, Running
<1>2. \A b \in Blocks(graph) : liveIn[b] = {} /\ liveOut[b] = {}
  BY DEF Constructed
<1>3. Lagging /\ BelowEverySolution
  BY <1>2 DEF Lagging, BelowEverySolution, Below, current
<1>4. Solved
  BY DEF Constructed, Solved, SolvedOffWorklist, SolvedByQuietRound, SolvedWhenReturned
<1> QED
  BY <1>1, <1>3, <1>4 DEF IInv

LEMMA InitIInv == Init => IInv
BY ConstructedIInv, GraphsAssumption DEF Init

LEMMA NextIInv == IInv /\ [Next]_vars => IInv' /\ Grown
<1> SUFFICES ASSUME IInv, [Next]_vars
             PROVE  IInv' /\ Grown
  OBVIOUS
<1> USE DEF IInv
<1>1. TypeOK'
  BY NextType
<1>2. Grown
  BY <1>1, StepGrows
<1>3. Lagging' /\ BelowEverySolution'
  BY <1>1, <1>2, NextLagging, NextBelow
<1>4. Solved'
  BY <1>1, NextSolved
<1> QED
  BY <1>1, <1>2, <1>3, <1>4

THEOREM InvariantHolds == Safety => []IInv
<1>1. IInv /\ [Next]_vars => IInv'
  BY NextIInv
<1> QED
  BY InitIInv, <1>1, PTL DEF Safety

(* computeWorkList: only a block on the list can violate its equations.    *)
THEOREM WorklistCorrect == Safety => []SolvedOffWorklist
<1>1. IInv => SolvedOffWorklist
  BY DEF IInv, Solved
<1> QED
  BY InvariantHolds, <1>1, PTL

(* computeLiveInOut: a round that changed no LIVEOUT leaves a solution.    *)
THEOREM QuietRoundCorrect == Safety => []SolvedByQuietRound
<1>1. IInv => SolvedByQuietRound
  BY DEF IInv, Solved
<1> QED
  BY InvariantHolds, <1>1, PTL

(* After any calls of the two functions the equations hold at all blocks.  *)
THEOREM ReturnedCorrect == Safety => []SolvedWhenReturned
<1>1. IInv => SolvedWhenReturned
  BY DEF IInv, Solved
<1> QED
  BY InvariantHolds, <1>1, PTL

(* Nothing is ever reported live that some solution does not report.       *)
THEOREM NothingSpurious == Safety => []BelowEverySolution
<1>1. IInv => BelowEverySolution
  BY DEF IInv
<1> QED
  BY InvariantHolds, <1>1, PTL

(* No step of either function removes a variable from a set.               *)
THEOREM GrowthCorrect == Safety => SetsGrow
<1>1. IInv /\ [Next]_vars => [NothingRemoved]_vars
  BY NextIInv DEF Grown, NothingRemoved
<1> QED
  BY InvariantHolds, <1>1, PTL DEF Safety, SetsGrow

(* A recomputation on solved sets changes nothing, at none of its steps.   *)
THEOREM StabilityCorrect == Safety => RecomputationIsStable
<1>1. ASSUME IInv, [Next]_vars, IsSolution(graph, current)
      PROVE  UNCHANGED sets
  <2>1. TypeOK /\ TypeOK' /\ Grown
    BY <1>1, NextIInv DEF IInv
  <2>2. \A b \in Blocks(graph) : /\ liveIn[b] = LiveInOf(graph, liveOut, b)
                                /\ liveOut[b] = LiveOutOf(graph, liveIn, b)
    BY <1>1 DEF IsSolution, InHolds, OutHolds, current
  <2>3. \A b \in Blocks(graph) : liveOut'[b] = liveOut[b]
    BY <2>1, <2>2 DEF Grown
  <2>4. \A b \in Blocks(graph) : LiveInOf(graph, liveOut', b) = liveIn[b]
    BY <2>2, <2>3 DEF LiveInOf
  <2>5. \A b \in Blocks(graph) : liveIn'[b] = liveIn[b]
    BY <2>1, <2>4 DEF Grown
  <2> QED
    BY <2>1, <2>3, <2>5 DEF sets, TypeOK, Grown
<1>2. IInv /\ [Next]_vars => [IsSolution(graph, current) => UNCHANGED sets]_vars
  BY <1>1
<1> QED
  BY InvariantHolds, <1>2, PTL DEF Safety, RecomputationIsStable

(* Module Liveness sees the same equations.                                *)
LEMMA SameEquations ==
  ASSUME NEW g, NEW s
  PROVE  /\ Promise!IsFlowGraph(g) <=> IsFlowGraph(g)
         /\ Promise!Assignments(g) = Assignments(g)
         /\ Promise!IsLeastSolution(g, s) <=> IsLeastSolution(g, s)
<1>1. Promise!Blocks(g) = Blocks(g)
  BY DEF Promise!Blocks, Blocks
<1>2. Promise!Assignments(g) = Assignments(g)
  BY <1>1 DEF Promise!Assignments, Assignments
<1>3. \A t : Promise!IsSolution(g, t) <=> IsSolution(g, t)
  BY <1>1 DEF Promise!IsSolution, IsSolution, Promise!InHolds, InHolds,
     Promise!OutHolds, OutHolds, Promise!LiveInOf, LiveInOf,
     Promise!LiveOutOf, LiveOutOf, Promise!getSuccessor, getSuccessor
<1>4. \A t : Promise!Below(g, s, t) <=> Below(g, s, t)
  BY <1>1 DEF Promise!Below, Below
<1> QED
  BY <1>1, <1>2, <1>3, <1>4
     DEF Promise!IsFlowGraph, IsFlowGraph, Promise!IsLeastSolution, IsLeastSolution

(* Both functions keep the promise of module Liveness: what can be read    *)
(* after a call is the least solution.                                     *)
THEOREM Refinement == Safety => Promise!Safety
<1>1. Init => Promise!Init
  BY InitType, SameEquations DEF Init, Constructed, Promise!Init, Promise!NoAnswer, TypeOK, Running
<1>2. ASSUME IInv, IInv', [Next]_vars
      PROVE  [Promise!Next]_(Promise!vars)
  <2>1. graph' = graph
    BY <1>2, NextIInv DEF Grown
  <2>2. CASE pc = "returned" /\ pc' = "returned"
    <3>1. UNCHANGED sets
      BY <1>2, <2>2 DEF Next, Step, callLiveInOut, callWorkList, roundLiveIn,
                        roundLiveOut, changedSoFar, workOn, addedAfter, endWorkList, vars, sets, Idle
    <3> QED
      BY <2>1, <2>2, <3>1 DEF Promise!vars, current, sets
  <2>3. CASE pc \in Idle /\ pc' \in Running
    <3>1. Promise!Ask
      BY <2>1, <2>3 DEF Promise!Ask, Promise!NoAnswer, Idle, Running
    <3> QED
      BY <3>1 DEF Promise!Next
  <2>4. CASE pc \in Running /\ pc' = "returned"
    <3>1. current' \in Assignments(graph)
      BY <1>2, <2>1 DEF IInv, TypeOK, Assignments, current
    <3>2. IsLeastSolution(graph, current')
      BY <1>2, <2>1, <2>4 DEF IInv, Solved, SolvedWhenReturned,
                              BelowEverySolution, IsLeastSolution
    <3>3. Promise!Answer
      BY <2>1, <2>4, <3>1, <3>2, SameEquations DEF Promise!Answer, Running
    <3> QED
      BY <3>3 DEF Promise!Next
  <2>5. CASE pc \in Running /\ pc' \in Running
    BY <2>1, <2>5 DEF Promise!vars, Running
  <2>6. CASE pc = "constructed" /\ pc' = "constructed"
    BY <2>1, <2>6 DEF Promise!vars, Running
  <2>7. pc' \in Idle \cup Running /\ pc \in Idle \cup Running
    BY <1>2 DEF IInv, TypeOK
  <2>8. ~(pc = "returned" /\ pc' = "constructed")
    BY <1>2 DEF Next, Step, callLiveInOut, callWorkList, roundLiveIn,
                roundLiveOut, changedSoFar, workOn, addedAfter, endWorkList, vars
  <2>9. pc = "constructed" => pc' # "returned"
    BY <1>2 DEF Next, Step, callLiveInOut, callWorkList, roundLiveIn,
                roundLiveOut, changedSoFar, workOn, addedAfter, endWorkList, vars, Idle
  <2>10. pc \in Running => pc' # "constructed"
    BY <1>2 DEF Next, Step, callLiveInOut, callWorkList, roundLiveIn,
                roundLiveOut, changedSoFar, workOn, addedAfter, endWorkList, vars, Idle, Running
  <2> QED
    BY <2>2, <2>3, <2>4, <2>5, <2>6, <2>7, <2>8, <2>9, <2>10 DEF Idle
<1> QED
  BY InvariantHolds, <1>1, <1>2, PTL DEF Safety, Promise!Safety

-----------------------------------------------------------------------------
(* The least solution and the paths of the graph.                          *)

(* Induction over natural numbers, without the number: a set of them has a *)
(* least element, and a greatest one if it is bounded.                     *)
Descending == {p \in Nat \X Nat : p[1] < p[2]}

LEMMA Least ==
  ASSUME NEW T \in SUBSET Nat, T # {}
  PROVE  \E x \in T : \A y \in T : x <= y
<1>1. Descending = OpToRel(<, Nat)
  BY Zenon DEF Descending, OpToRel
<1>2. IsWellFoundedOn(Descending, Nat)
  BY <1>1, NatLessThanWellFounded, Zenon
<1>3. PICK x \in T : \A y \in T : ~(<<y, x>> \in Descending)
  BY <1>2, WFMin, Zenon
<1>4. ASSUME NEW y \in T PROVE x <= y
  <2>1. ~(y < x)
    BY <1>3 DEF Descending
  <2> QED
    BY <2>1
<1> QED
  BY <1>4

LEMMA Greatest ==
  ASSUME NEW n \in Nat, NEW T \in SUBSET (1 .. n), T # {}
  PROVE  \E x \in T : \A y \in T : y <= x
<1> DEFINE U == {n - x : x \in T}
<1>1. U \in SUBSET Nat /\ U # {}
  <2>1. \A x \in T : x \in 1 .. n
    OBVIOUS
  <2>2. \A x \in 1 .. n : n - x \in Nat
    OBVIOUS
  <2> QED
    BY <2>1, <2>2
<1>2. PICK u \in U : \A w \in U : u <= w
  <2> HIDE DEF U
  <2> QED
    BY <1>1, Least
<1>3. PICK x \in T : u = n - x
  BY <1>2
<1>4. ASSUME NEW y \in T PROVE y <= x
  <2>1. n - y \in U /\ x \in 1 .. n /\ y \in 1 .. n
    OBVIOUS
  <2>2. n - x <= n - y
    BY <1>2, <1>3, <2>1
  <2> QED
    BY <2>1, <2>2
<1> QED
  BY <1>4

(* p is a path of n blocks, of any length, along which v gets to a block   *)
(* that exposes it.                                                        *)
Leads(g, v, p, n) ==
  /\ n \in Nat \ {0}
  /\ p \in [1 .. n -> Blocks(g)]
  /\ \A i \in 1 .. n - 1 : p[i + 1] \in g.succ[p[i]] /\ v \in g.notKilled[p[i]]
  /\ v \in g.ueVar[p[n]]

Reached(g, b) == {v \in Vars : \E n \in Nat : \E p : Leads(g, v, p, n) /\ p[1] = b}

(* A solution holds every variable on all blocks of its paths.             *)
LEMMA LiveOnPath ==
  ASSUME NEW g, IsFlowGraph(g), NEW s, IsSolution(g, s),
         NEW v, NEW n, NEW p, Leads(g, v, p, n)
  PROVE  v \in s.in[p[1]]
<1> DEFINE T == {i \in 1 .. n : v \notin s.in[p[i]]}
<1>1. n \in Nat \ {0} /\ \A i \in 1 .. n : p[i] \in Blocks(g)
  BY DEF Leads
<1>2. T = {}
  <2> SUFFICES ASSUME T # {} PROVE FALSE
    OBVIOUS
  <2>1. T \in SUBSET (1 .. n)
    OBVIOUS
  <2>2. PICK i \in T : \A j \in T : j <= i
    <3> HIDE DEF T
    <3> QED
      BY <1>1, <2>1, Greatest
  <2>3. i \in 1 .. n /\ p[i] \in Blocks(g) /\ v \notin s.in[p[i]]
    BY <1>1, <2>2
  <2>4. s.in[p[i]] = g.ueVar[p[i]] \cup (s.out[p[i]] \cap g.notKilled[p[i]])
    BY <2>3 DEF IsSolution, InHolds, LiveInOf
  <2>5. CASE i = n
    BY <2>3, <2>4, <2>5 DEF Leads
  <2>6. CASE i # n
    <3>1. i \in 1 .. n - 1 /\ i + 1 \in 1 .. n /\ ~(i + 1 <= i)
      BY <1>1, <2>3, <2>6
    <3>2. v \in s.in[p[i + 1]]
      BY <2>2, <3>1
    <3>3. p[i + 1] \in g.succ[p[i]] /\ v \in g.notKilled[p[i]]
      BY <3>1 DEF Leads
    <3>4. s.out[p[i]] = UNION {s.in[t] : t \in g.succ[p[i]]}
      BY <2>3 DEF IsSolution, OutHolds, LiveOutOf, getSuccessor
    <3> QED
      BY <2>3, <2>4, <3>2, <3>3, <3>4
  <2> QED
    BY <2>5, <2>6
<1> QED
  BY <1>1, <1>2

(* What the paths reach is a solution.                                     *)
ByPaths(g) == [in |-> [b \in Blocks(g) |-> Reached(g, b)],
               out |-> [b \in Blocks(g) |-> UNION {Reached(g, t) : t \in g.succ[b]}]]

LEMMA StartsPath ==
  ASSUME NEW g, IsFlowGraph(g), NEW b \in Blocks(g), NEW v \in g.ueVar[b]
  PROVE  v \in Reached(g, b)
<1> DEFINE p == [i \in 1 .. 1 |-> b]
<1>1. v \in Vars
  BY DEF IsFlowGraph
<1>2. Leads(g, v, p, 1) /\ p[1] = b
  BY DEF Leads
<1> QED
  BY <1>1, <1>2 DEF Reached

LEMMA LongerPath ==
  ASSUME NEW g, IsFlowGraph(g), NEW b \in Blocks(g), NEW t \in g.succ[b],
         NEW v \in Reached(g, t), v \in g.notKilled[b]
  PROVE  v \in Reached(g, b)
<1>1. PICK n \in Nat : \E p : Leads(g, v, p, n) /\ p[1] = t
  BY DEF Reached
<1>2. PICK p : Leads(g, v, p, n) /\ p[1] = t
  BY <1>1
<1> DEFINE q == [i \in 1 .. n + 1 |-> IF i = 1 THEN b ELSE p[i - 1]]
<1>3. n \in Nat \ {0} /\ \A i \in 1 .. n : p[i] \in Blocks(g)
  BY <1>2 DEF Leads
<1>4. \A i \in 1 .. n + 1 : i # 1 => i - 1 \in 1 .. n
  BY <1>3
<1>5. q \in [1 .. n + 1 -> Blocks(g)] /\ q[1] = b
  BY <1>3, <1>4
<1>6. \A i \in 1 .. n : q[i + 1] = p[i]
  BY <1>3
<1>7. ASSUME NEW i \in 1 .. n
      PROVE  q[i + 1] \in g.succ[q[i]] /\ v \in g.notKilled[q[i]]
  <2>1. CASE i = 1
    BY <1>2, <1>3, <1>5, <1>6, <2>1
  <2>2. CASE i # 1
    <3> DEFINE j == i - 1
    <3>1. j \in 1 .. n - 1 /\ j + 1 = i /\ j \in 1 .. n
      BY <1>3, <2>2
    <3>2. q[i] = p[j] /\ q[i + 1] = p[j + 1]
      BY <1>6, <3>1
    <3>3. p[j + 1] \in g.succ[p[j]] /\ v \in g.notKilled[p[j]]
      BY <1>2, <3>1 DEF Leads
    <3> QED
      BY <3>2, <3>3
  <2> QED
    BY <2>1, <2>2
<1>8. v \in g.ueVar[q[n + 1]]
  BY <1>2, <1>3, <1>6 DEF Leads
<1>9. n + 1 \in Nat \ {0} /\ (n + 1) - 1 = n
  BY <1>3
<1> HIDE DEF q
<1>10. Leads(g, v, q, n + 1)
  BY <1>5, <1>7, <1>8, <1>9 DEF Leads
<1> QED
  BY <1>5, <1>9, <1>10 DEF Reached

LEMMA PathsTail ==
  ASSUME NEW g, IsFlowGraph(g), NEW b \in Blocks(g), NEW v \in Reached(g, b),
         v \notin g.ueVar[b]
  PROVE  v \in g.notKilled[b] /\ \E t \in g.succ[b] : v \in Reached(g, t)
<1>1. PICK n \in Nat : \E p : Leads(g, v, p, n) /\ p[1] = b
  BY DEF Reached
<1>2. PICK p : Leads(g, v, p, n) /\ p[1] = b
  BY <1>1
<1> DEFINE q == [i \in 1 .. n - 1 |-> p[i + 1]]
<1>3. n \in Nat \ {0} /\ n # 1 /\ \A i \in 1 .. n : p[i] \in Blocks(g)
  BY <1>2 DEF Leads
<1>4. n - 1 \in Nat \ {0} /\ 1 \in 1 .. n - 1 /\ (n - 1) + 1 = n
      /\ (\A i \in 1 .. n - 1 : i + 1 \in 1 .. n)
      /\ (\A i \in 1 .. (n - 1) - 1 : i \in 1 .. n - 1 /\ i + 1 \in 1 .. n - 1)
  BY <1>3
<1>5. p[2] \in g.succ[b] /\ v \in g.notKilled[b]
  BY <1>2, <1>4 DEF Leads
<1>6. q \in [1 .. n - 1 -> Blocks(g)] /\ q[1] = p[2]
  BY <1>3, <1>4
<1>7. \A i \in 1 .. n - 1 : q[i] = p[i + 1]
  OBVIOUS
<1> HIDE DEF q
<1>8. \A i \in 1 .. (n - 1) - 1 : q[i + 1] \in g.succ[q[i]] /\ v \in g.notKilled[q[i]]
  BY <1>2, <1>4, <1>7 DEF Leads
<1>9. v \in g.ueVar[q[n - 1]]
  BY <1>2, <1>4, <1>7 DEF Leads
<1>10. Leads(g, v, q, n - 1)
  BY <1>4, <1>6, <1>8, <1>9 DEF Leads
<1>11. v \in Reached(g, p[2])
  BY <1>4, <1>6, <1>10 DEF Reached
<1> QED
  BY <1>5, <1>11

LEMMA PathsSolve ==
  ASSUME NEW g, IsFlowGraph(g)
  PROVE  ByPaths(g) \in Assignments(g) /\ IsSolution(g, ByPaths(g))
<1> DEFINE s == ByPaths(g)
<1>1. \A b \in Blocks(g) : Reached(g, b) \in SUBSET Vars
  BY DEF Reached
<1>2. \A b \in Blocks(g) : g.succ[b] \subseteq Blocks(g)
  BY DEF IsFlowGraph
<1>3. s \in Assignments(g)
  BY <1>1, <1>2 DEF ByPaths, Assignments
<1>4. ASSUME NEW b \in Blocks(g) PROVE OutHolds(g, s, b)
  <2>1. \A t \in g.succ[b] : s.in[t] = Reached(g, t)
    BY <1>2 DEF ByPaths
  <2>2. s.out[b] = UNION {Reached(g, t) : t \in g.succ[b]}
    BY DEF ByPaths
  <2> QED
    BY <2>1, <2>2 DEF OutHolds, LiveOutOf, getSuccessor
<1>5. ASSUME NEW b \in Blocks(g) PROVE InHolds(g, s, b)
  <2>1. s.in[b] = Reached(g, b) /\ s.out[b] = UNION {Reached(g, t) : t \in g.succ[b]}
    BY DEF ByPaths
  <2>2. ASSUME NEW v PROVE v \in s.in[b] <=> v \in LiveInOf(g, s.out, b)
    <3>1. CASE v \in g.ueVar[b]
      BY <2>1, <3>1, StartsPath DEF LiveInOf
    <3>2. CASE v \notin g.ueVar[b] /\ v \in Reached(g, b)
      <4>1. v \in g.notKilled[b] /\ \E t \in g.succ[b] : v \in Reached(g, t)
        BY <3>2, PathsTail
      <4> QED
        BY <2>1, <3>2, <4>1 DEF LiveInOf
    <3>3. CASE v \notin g.ueVar[b] /\ v \notin Reached(g, b)
      <4>1. ~(v \in g.notKilled[b] /\ \E t \in g.succ[b] : v \in Reached(g, t))
        BY <3>3, LongerPath
      <4> QED
        BY <2>1, <3>3, <4>1 DEF LiveInOf
    <3> QED
      BY <3>1, <3>2, <3>3
  <2> QED
    BY <2>2 DEF InHolds
<1> QED
  BY <1>3, <1>4, <1>5 DEF IsSolution

(* A shortest path visits no block twice, for what lies between could be   *)
(* left out.                                                               *)
LEMMA Detour ==
  ASSUME NEW g, NEW v, NEW p, NEW n, Leads(g, v, p, n),
         NEW i \in 1 .. n, NEW j \in 1 .. n, i < j, p[i] = p[j]
  PROVE  \E q : Leads(g, v, q, n - (j - i)) /\ q[1] = p[1]
<1> DEFINE m == n - (j - i)
           q == [k \in 1 .. m |-> IF k <= i THEN p[k] ELSE p[k + (j - i)]]
<1>1. n \in Nat \ {0} /\ \A k \in 1 .. n : p[k] \in Blocks(g)
  BY DEF Leads
<1>2. /\ m \in Nat \ {0} /\ i <= m /\ m + (j - i) = n
      /\ \A k \in 1 .. m : k \in 1 .. n /\ k + (j - i) \in 1 .. n
  BY <1>1
<1>3. q \in [1 .. m -> Blocks(g)]
  BY <1>1, <1>2
<1>4. q[1] = p[1]
  BY <1>1, <1>2
<1>5. /\ \A k \in 1 .. m : k <= i => q[k] = p[k]
      /\ \A k \in 1 .. m : k > i => q[k] = p[k + (j - i)]
  OBVIOUS
<1>6. \A k \in 1 .. m : k >= i => q[k] = p[k + (j - i)]
  <2> SUFFICES ASSUME NEW k \in 1 .. m, k >= i PROVE q[k] = p[k + (j - i)]
    OBVIOUS
  <2>1. CASE k = i
    <3>1. i + (j - i) = j /\ q[i] = p[i]
      BY <1>5, <2>1
    <3> HIDE DEF q
    <3> QED
      BY <2>1, <3>1
  <2>2. CASE k # i
    BY <1>5, <2>2
  <2> QED
    BY <2>1, <2>2
<1> HIDE DEF q
<1>7. ASSUME NEW k \in 1 .. m - 1
      PROVE  q[k + 1] \in g.succ[q[k]] /\ v \in g.notKilled[q[k]]
  <2>1. k \in 1 .. m /\ k + 1 \in 1 .. m
    BY <1>2
  <2>2. CASE k + 1 <= i
    <3>1. q[k] = p[k] /\ q[k + 1] = p[k + 1] /\ k \in 1 .. n - 1
      BY <1>2, <1>5, <2>1, <2>2
    <3> QED
      BY <3>1 DEF Leads
  <2>3. CASE k >= i
    <3> DEFINE l == k + (j - i)
    <3>1. q[k] = p[l] /\ q[k + 1] = p[(k + 1) + (j - i)]
      BY <1>6, <2>1, <2>3
    <3>2. l \in 1 .. n - 1 /\ (k + 1) + (j - i) = l + 1
      BY <1>1, <1>2, <2>1
    <3> HIDE DEF l
    <3>3. p[l + 1] \in g.succ[p[l]] /\ v \in g.notKilled[p[l]]
      BY <3>2 DEF Leads
    <3> QED
      BY <3>1, <3>2, <3>3
  <2> QED
    BY <2>1, <2>2, <2>3
<1>8. v \in g.ueVar[q[m]]
  <2>1. q[m] = p[n]
    BY <1>2, <1>6
  <2> QED
    BY <2>1 DEF Leads
<1>9. Leads(g, v, q, m)
  BY <1>2, <1>3, <1>7, <1>8 DEF Leads
<1> QED
  BY <1>4, <1>9

LEMMA ShortPath ==
  ASSUME NEW g, IsFlowGraph(g), NEW b, NEW v \in Reached(g, b)
  PROVE  \E n \in 1 .. g.size : \E p : Leads(g, v, p, n) /\ p[1] = b
<1> DEFINE T == {n \in Nat : \E p : Leads(g, v, p, n) /\ p[1] = b}
<1>1. T \in SUBSET Nat /\ T # {}
  BY DEF Reached
<1>2. PICK n \in T : \A m \in T : n <= m
  <2> HIDE DEF T
  <2> QED
    BY <1>1, Least
<1>3. PICK p : Leads(g, v, p, n) /\ p[1] = b
  BY <1>2
<1>4. n \in Nat \ {0} /\ p \in [1 .. n -> Blocks(g)]
  BY <1>3 DEF Leads
<1>5. ASSUME NEW i \in 1 .. n, NEW j \in 1 .. n, i < j
      PROVE  p[i] # p[j]
  <2> SUFFICES ASSUME p[i] = p[j] PROVE FALSE
    OBVIOUS
  <2>1. PICK q : Leads(g, v, q, n - (j - i)) /\ q[1] = p[1]
    BY <1>3, <1>5, Detour
  <2>2. n - (j - i) \in Nat /\ n - (j - i) < n
    BY <1>4, <1>5, <2>1 DEF Leads
  <2>3. n - (j - i) \in T
    BY <1>3, <2>1, <2>2
  <2> QED
    BY <1>2, <1>4, <2>2, <2>3
<1>6. \A i, j \in 1 .. n : p[i] = p[j] => i = j
  BY <1>4, <1>5
<1>7. p \in Injection(1 .. n, Blocks(g))
  BY <1>4, <1>6 DEF Injection, IsInjective
<1>8. g.size \in Nat \ {0}
  BY DEF IsFlowGraph
<1>9. IsFiniteSet(Blocks(g)) /\ Cardinality(Blocks(g)) = g.size
  <2>1. 0 \in Int /\ g.size - 1 \in Int /\ ~(0 > g.size - 1) /\ g.size - 1 - 0 + 1 = g.size
    BY <1>8
  <2> QED
    BY <2>1, FS_Interval DEF Blocks
<1>10. Cardinality(1 .. n) <= g.size
  BY <1>7, <1>9, FS_Injection
<1>11. Cardinality(1 .. n) = n
  <2>1. 1 \in Int /\ n \in Int /\ ~(1 > n) /\ n - 1 + 1 = n
    BY <1>4
  <2> QED
    BY <2>1, FS_Interval
<1> QED
  BY <1>3, <1>4, <1>8, <1>10, <1>11

LEMMA PathsAre ==
  ASSUME NEW g, IsFlowGraph(g), NEW b \in Blocks(g)
  PROVE  PathLiveIn(g)[b] = Reached(g, b)
<1>1. PathLiveIn(g)[b] =
        {v \in Vars : \E p \in Paths(g) :
           /\ p[1] = b
           /\ v \in g.ueVar[p[Len(p)]]
           /\ \A i \in 1 .. Len(p) - 1 : v \in g.notKilled[p[i]]}
  BY DEF PathLiveIn
<1>2. ASSUME NEW n \in Nat, NEW p \in [1 .. n -> Blocks(g)]
      PROVE  Len(p) = n
  OBVIOUS
<1>3. g.size \in Nat \ {0}
  BY DEF IsFlowGraph
<1>4. ASSUME NEW v \in Reached(g, b) PROVE v \in PathLiveIn(g)[b]
  <2>1. PICK n \in 1 .. g.size : \E p : Leads(g, v, p, n) /\ p[1] = b
    BY ShortPath
  <2>2. PICK p : Leads(g, v, p, n) /\ p[1] = b
    BY <2>1
  <2>3. n \in Nat /\ p \in [1 .. n -> Blocks(g)] /\ Len(p) = n
    BY <1>2, <2>2 DEF Leads
  <2>4. p \in Paths(g)
    BY <2>1, <2>2, <2>3 DEF Paths, Leads
  <2> QED
    BY <1>1, <2>2, <2>3, <2>4 DEF Leads, Reached
<1>5. ASSUME NEW v \in PathLiveIn(g)[b] PROVE v \in Reached(g, b)
  <2>1. PICK p \in Paths(g) : /\ p[1] = b
                              /\ v \in g.ueVar[p[Len(p)]]
                              /\ \A i \in 1 .. Len(p) - 1 : v \in g.notKilled[p[i]]
    BY <1>1, <1>5
  <2>2. PICK n \in 1 .. g.size : p \in [1 .. n -> Blocks(g)]
    BY <2>1 DEF Paths
  <2>3. Len(p) = n /\ n \in Nat \ {0}
    BY <1>2, <1>3, <2>2
  <2>4. Leads(g, v, p, n)
    BY <2>1, <2>2, <2>3 DEF Leads, Paths
  <2> QED
    BY <1>1, <1>5, <2>1, <2>3, <2>4 DEF Reached
<1> QED
  BY <1>1, <1>4, <1>5 DEF Reached

(* A returned call of either function has found what the paths of the flow *)
(* graph define: a variable is in LIVEIN of a block exactly if some path   *)
(* from it leads, past blocks that do not kill it, to one that exposes it. *)
THEOREM ExactCorrect == Safety => []ExactWhenReturned
<1>1. IInv => ExactWhenReturned
  <2> SUFFICES ASSUME IInv, pc = "returned" PROVE liveIn = PathLiveIn(graph)
    BY DEF ExactWhenReturned
  <2>1. IsFlowGraph(graph) /\ liveIn \in [Blocks(graph) -> SUBSET Vars]
    BY DEF IInv, TypeOK
  <2>2. IsSolution(graph, current)
    BY DEF IInv, Solved, SolvedWhenReturned
  <2>3. Below(graph, current, ByPaths(graph))
    BY <2>1, PathsSolve DEF IInv, BelowEverySolution
  <2>4. ASSUME NEW b \in Blocks(graph) PROVE liveIn[b] = Reached(graph, b)
    <3>1. liveIn[b] \subseteq Reached(graph, b)
      BY <2>3 DEF Below, current, ByPaths
    <3>2. ASSUME NEW v \in Reached(graph, b) PROVE v \in liveIn[b]
      <4>1. PICK n \in Nat : \E p : Leads(graph, v, p, n) /\ p[1] = b
        BY DEF Reached
      <4>2. PICK p : Leads(graph, v, p, n) /\ p[1] = b
        BY <4>1
      <4>3. v \in current.in[b]
        BY <2>1, <2>2, <4>2, LiveOnPath
      <4> QED
        BY <4>3 DEF current
    <3> QED
      BY <3>1, <3>2
  <2>5. \A b \in Blocks(graph) : liveIn[b] = PathLiveIn(graph)[b]
    BY <2>1, <2>4, PathsAre
  <2>6. DOMAIN PathLiveIn(graph) = Blocks(graph)
    BY DEF PathLiveIn
  <2>7. PathLiveIn(graph) = [b \in Blocks(graph) |-> PathLiveIn(graph)[b]]
    BY DEF PathLiveIn
  <2> QED
    BY <2>1, <2>5, <2>7
<1> QED
  BY InvariantHolds, <1>1, PTL

=============================================================================
