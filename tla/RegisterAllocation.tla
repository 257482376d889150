------------------------- MODULE RegisterAllocation -------------------------
(***************************************************************************)
(* What the constructor of gas::RegisterManager does with finished code:   *)
(* it makes a Cfg of its own (CfgBuild), has it run computeWorkList once   *)
(* (CfgLiveness), and allocates registers from the live sets               *)
(* (RegisterManager).  The three modules run one after the other on        *)
(* shared state: the code, the flow graph and the liveOut map.             *)
(***************************************************************************)
EXTENDS LiveRanges

CONSTANTS Programs, NumRegisters, FloatVars

ASSUME CompiledAssumption == \A p \in Programs : WellFormed(p)
ASSUME RegistersAssumption == NumRegisters \in Nat

VARIABLES code, stage, at, blockIndex, notKilled, succ, prevBlockId,
          alreadyHandled,
          graph, liveIn, liveOut, pc, cursor, changed, worklist,
          task, loc, vertices, edges, colorVec, colors

buildVars == <<stage, at, blockIndex, notKilled, succ, prevBlockId,
               alreadyHandled>>
liveVars == <<graph, liveIn, liveOut, pc, cursor, changed, worklist>>
allocVars == <<task, loc, vertices, edges, colorVec, colors>>
vars == <<code, buildVars, liveVars, allocVars>>

B == INSTANCE CfgBuild
L == INSTANCE CfgLiveness WITH Graphs <- {}   \* the graph comes from B
R == INSTANCE RegisterManager WITH Analysed <- {}

(* The later objects do not exist yet.                                     *)
Init ==
  /\ B!Init
  /\ graph = <<>>
  /\ liveIn = <<>>
  /\ liveOut = <<>>
  /\ pc = "no Cfg"
  /\ cursor = 0
  /\ changed = FALSE
  /\ worklist = {}
  /\ task = "no live sets"
  /\ loc = 1
  /\ vertices = <<>>
  /\ edges = <<>>
  /\ colorVec = <<>>
  /\ colors = <<>>

build == B!Next /\ UNCHANGED <<liveVars, allocVars>>

(* The Cfg is complete: its maps are empty.                                *)
startLiveness ==
  /\ stage = "built"
  /\ pc = "no Cfg"
  /\ graph' = B!flowGraph
  /\ liveIn' = [b \in L!Blocks(B!flowGraph) |-> {}]
  /\ liveOut' = [b \in L!Blocks(B!flowGraph) |-> {}]
  /\ pc' = "constructed"
  /\ UNCHANGED <<code, buildVars, cursor, changed, worklist, allocVars>>

callWorkList ==
  /\ pc = "constructed"
  /\ L!callWorkList
  /\ UNCHANGED <<code, buildVars, allocVars>>

live ==
  /\ pc \in L!Running
  /\ L!Step
  /\ UNCHANGED <<code, buildVars, allocVars>>

startAllocation ==
  /\ pc = "returned"
  /\ task = "no live sets"
  /\ task' = "interference"
  /\ vertices' = [f \in R!Functions |-> {}]
  /\ edges' = [f \in R!Functions |-> {}]
  /\ colorVec' = [f \in R!Functions |-> <<>>]
  /\ colors' = [f \in R!Functions |-> <<>>]
  /\ UNCHANGED <<code, buildVars, liveVars, loc>>

allocate ==
  /\ task \in {"interference", "coloring"}
  /\ R!Next
  /\ UNCHANGED <<buildVars, graph, liveIn, pc, cursor, changed, worklist>>

Next == build \/ startLiveness \/ callWorkList \/ live \/ startAllocation
        \/ allocate

(* One thread runs the constructor to its end.                             *)
Spec == Init /\ [][Next]_vars /\ WF_vars(Next)

-----------------------------------------------------------------------------
(* Code in which the liveness the analysis can see is the liveness the     *)
(* machine has: what a line reads is visible to it, an operand is read or  *)
(* is the target, and every variable is in the store.  (The converters also*)
(* emit x = x, array accesses, results of calls that never enter the store,*)
(* and, for int x = (y = 1), a line that has y as operand and reads a      *)
(* literal.)                                                               *)
Visible(p) ==
  \A i \in Lines(p) :
    LET l == p.lines[i]
    IN /\ l.index = {}
       /\ Reads(l) \cap Writes(l) = {}
       /\ Operands(l) \subseteq Reads(l) \cup Writes(l)
       /\ Reads(l) \cup Writes(l) \subseteq p.store

(* Every line that writes a variable is reached from an entry by going     *)
(* down only: it is in each set of lines that holds the entries and what a *)
(* line of the set, further up, leads to.  So it is where the converters   *)
(* jump back only to repeat a loop and nothing is assigned behind a return.*)
Descends(p, X) ==
  \A i \in Lines(p) :
    \/ p.lines[i].op = "ENTRY"
    \/ \E j \in X : j < i /\ i \in LineSuccessors(p, j)
    => i \in X

WritesReached(p) ==
  \A X \in SUBSET Lines(p) :
    Descends(p, X) => {i \in Lines(p) : Writes(p.lines[i]) # {}} \subseteq X

(* The queries for single lines answer what the executions of the program  *)
(* define: before line i exactly the variables are live that some          *)
(* execution from i reads before writing them; likewise after it.          *)
QueriesExact ==
  pc = "returned" /\ task = "no live sets" /\ Visible(code) =>
    \A v \in Vars :
      LET before == NeededFrom(code, v)
          after == NeededAfter(code, v)
      IN \A i \in Lines(code) :
           /\ v \in liveSetAt(code, liveOut, i) <=> i \in before
           /\ v \in liveSetAfter(code, liveOut, i) <=> i \in after

(* The live range of a variable is the smallest range of lines that holds  *)
(* every line before which its value is needed, around loops and across    *)
(* calls as well; a variable that is never needed has none.                *)
LiveRangesExact ==
  pc = "returned" /\ task = "no live sets" /\ Visible(code) =>
    LET range == getVariableLiveRangeMap(code, liveOut)
    IN /\ ~RangesThrow(code, liveOut)
       /\ \A v \in code.store :
            LET needed == NeededFrom(code, v)
            IN /\ v \in DOMAIN range <=> needed # {}
               /\ needed # {} =>
                    /\ needed \subseteq range[v].first .. range[v].behind - 1
                    /\ {range[v].first, range[v].behind - 1} \subseteq needed

(* "Live set including the given line": what the line itself reads is live *)
(* at the line.  Holds for visible programs; the code breaks it for x = x, *)
(* whose target is erased after its operands were inserted, and for the    *)
(* index of an array access.                                               *)
LiveSetIncludesLine ==
  pc = "returned" /\ task = "no live sets" =>
    \A i \in Lines(code) :
      Reads(code.lines[i]) \subseteq liveSetAt(code, liveOut, i)

(* Writing a variable never destroys another one that is still needed:     *)
(* whatever line i writes to a register, no other variable of the function *)
(* that is needed after i lives in that register.                          *)
NoClobber ==
  task = "done" /\ Visible(code) =>
    \A w \in Vars : \A i \in NeededAfter(code, w) :
      LET f == FunctionAt(code, i)
      IN \A v \in Writes(code.lines[i]) \ {w} :
           R!InRegister(f, v) /\ R!InRegister(f, w) =>
             colors[f][v] # colors[f][w]

(* Allocation gives up only on code that may read a variable of the        *)
(* function before anything was stored in it.                              *)
AbortsOnlyUninitialised ==
  task = "aborted" =>
    \E v \in Vars : \E i \in NeededFrom(code, v) :
      code.lines[i].op = "ENTRY"

(* The constructor comes to an end, with an allocation or an exception.    *)
Terminates == <>(task \in {"done", "aborted"})
=============================================================================
