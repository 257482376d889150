-------------------------- MODULE RegisterManager --------------------------
(***************************************************************************)
(* The register allocation half of gas::RegisterManager: one interference  *)
(* graph per function, built while walking over the code with the live     *)
(* sets of a Cfg, then coloured greedily, vertices of small degree first.  *)
(* A colour below NumRegisters is a register; all others become the one    *)
(* colour NumRegisters, which means the variable lives on the stack.       *)
(*                                                                         *)
(* The code and the liveOut map of the Cfg are inputs; nothing here        *)
(* changes them.  One step is one line, or one vertex to colour.           *)
(***************************************************************************)
EXTENDS LiveQueries, FiniteSets

CONSTANTS NumRegisters,   \* numOfRegForColoring
          FloatVars,      \* variables of type FLOAT; they get no register
          Analysed        \* pairs of a program and the liveOut map of its Cfg

ASSUME NumRegistersAssumption == NumRegisters \in Nat
ASSUME AnalysedAssumption == \A p \in Analysed : WellFormed(p.code)

VARIABLES code, liveOut,
          task,           \* "interference", "coloring", "done" or "aborted"
          loc,            \* the line generateInterferenceGraphs is at
          vertices,       \* function |-> variables with a vertex
          edges,          \* function |-> interfering pairs, sets of two
          colorVec,       \* function |-> colours handed out so far
          colors          \* functionGraphColorsMap, capped colours

vars == <<code, liveOut, task, loc, vertices, edges, colorVec, colors>>
inputs == <<code, liveOut>>

Tasks == {"interference", "coloring", "done", "aborted"}

Functions ==
  {code.lines[i].dest : i \in {j \in Lines(code) : code.lines[j].op = "ENTRY"}}

(* The state in which generateInterferenceGraphs starts.                   *)
Init ==
  /\ \E p \in Analysed : code = p.code /\ liveOut = p.liveOut
  /\ task = "interference"
  /\ loc = 1
  /\ vertices = [f \in Functions |-> {}]
  /\ edges = [f \in Functions |-> {}]
  /\ colorVec = [f \in Functions |-> <<>>]
  /\ colors = [f \in Functions |-> <<>>]

-----------------------------------------------------------------------------
(* generateInterferenceGraphs                                              *)

(* The variables the target of the line is joined to.                      *)
LiveWithByBlock(l) == liveOut[l.bb] \ FloatVars   \* mutant: block by block

LiveWith(l) == liveSetAt(code, liveOut, loc) \ FloatVars

HasVertexAlways(l) == containsTargetVar(l)         \* mutant

HasVertex(l) == containsTargetVar(l) /\ l.target \notin FloatVars

nextTask == IF loc = Len(code.lines) THEN "coloring" ELSE "interference"
nextLoc == IF loc = Len(code.lines) THEN loc ELSE loc + 1

skipLine ==
  /\ task = "interference"
  /\ ~HasVertex(code.lines[loc])
  /\ loc' = nextLoc
  /\ task' = nextTask
  /\ UNCHANGED <<inputs, vertices, edges, colorVec, colors>>

Known(f, l) == vertices[f] \cup {l.target}

(* The target gets a vertex if it has none; vertexMap.at throws for a live *)
(* variable that has none yet, and nobody catches it.                      *)
joinTarget ==
  LET l == code.lines[loc]
      f == FunctionAt(code, loc)
  IN /\ task = "interference"
     /\ HasVertex(l)
     /\ IF LiveWith(l) \subseteq Known(f, l)
        THEN /\ vertices' = [vertices EXCEPT ![f] = Known(f, l)]
             /\ edges' = [edges EXCEPT ![f] =
                            @ \cup {{l.target, v} : v \in LiveWith(l)}]
             /\ loc' = nextLoc
             /\ task' = nextTask
        ELSE /\ task' = "aborted"
             /\ UNCHANGED <<vertices, edges, loc>>
     /\ UNCHANGED <<inputs, colorVec, colors>>

-----------------------------------------------------------------------------
(* graphColoring                                                           *)

Neighbours(f, v) == {u \in vertices[f] : {u, v} \in edges[f] /\ u # v}

(* Number of neighbours; the edge set of the graph holds no duplicates.    *)
outDegree(f, v) == Cardinality(Neighbours(f, v))

Uncolored(f) == vertices[f] \ DOMAIN colorVec[f]

(* smallestFirstOrdering sorts by degree; std::sort leaves the order of    *)
(* vertices of the same degree open.                                       *)
ComesNext(f, v) ==
  /\ v \in Uncolored(f)
  /\ \A u \in Uncolored(f) : outDegree(f, v) <= outDegree(f, u)

(* sequential_vertex_coloring gives a vertex the smallest colour that none *)
(* of its coloured neighbours has.                                         *)
UsedAround(f, v) ==
  {colorVec[f][u] : u \in Neighbours(f, v) \cap DOMAIN colorVec[f]}

(* Mutant: a colour that is taken will do.                                 *)
IsSmallestUsed(c, used) == \A d \in 0 .. c - 1 : d \in used

IsSmallestFree(c, used) == c \notin used /\ \A d \in 0 .. c - 1 : d \in used

colorVertex(f, v) ==
  /\ task = "coloring"
  /\ ComesNext(f, v)
  /\ \E c \in 0 .. Cardinality(vertices[f]) :
       /\ IsSmallestFree(c, UsedAround(f, v))
       /\ colorVec' = [colorVec EXCEPT ![f] =
                         [u \in DOMAIN colorVec[f] \cup {v} |->
                            IF u = v THEN c ELSE colorVec[f][u]]]
  /\ UNCHANGED <<inputs, task, loc, vertices, edges, colors>>

(* All vertices of all functions have a colour: the maps are filled.       *)
Capped(c) == IF c > NumRegisters THEN NumRegisters ELSE c

storeColors ==
  /\ task = "coloring"
  /\ \A f \in Functions : Uncolored(f) = {}
  /\ colors' = [f \in Functions |->
                  [v \in vertices[f] |-> Capped(colorVec[f][v])]]
  /\ task' = "done"
  /\ UNCHANGED <<inputs, loc, vertices, edges, colorVec>>

-----------------------------------------------------------------------------
Next == \/ skipLine
        \/ joinTarget
        \/ \E f \in Functions : \E v \in vertices[f] : colorVertex(f, v)
        \/ storeColors

Spec == Init /\ [][Next]_vars

(* getLocationForVariable: a register, or the variable's place on the stack.*)
isColorOrStack(c) == c <= NumRegisters             \* mutant: off by one
isColorBelowLast(c) == c + 1 < NumRegisters        \* mutant: the other way

isColor(c) == c < NumRegisters
InRegister(f, v) == v \in vertices[f] /\ isColor(colors[f][v])

-----------------------------------------------------------------------------
TypeOK ==
  /\ WellFormed(code)
  /\ task \in Tasks
  /\ loc \in Lines(code)
  /\ vertices \in [Functions -> SUBSET (Vars \ FloatVars)]
  /\ edges \in [Functions -> SUBSET SUBSET Vars]
  /\ DOMAIN colorVec = Functions
  /\ \A f \in Functions :
       /\ DOMAIN colorVec[f] \subseteq vertices[f]
       /\ \A v \in DOMAIN colorVec[f] : colorVec[f][v] \in Nat

(* Interfering variables that have been coloured have different colours,   *)
(* whatever order the sort produced.                                       *)
ProperColoring ==
  \A f \in Functions : \A u, v \in DOMAIN colorVec[f] :
    u # v /\ {u, v} \in edges[f] => colorVec[f][u] # colorVec[f][v]

(* Two variables of a function that end up in the same register never      *)
(* interfere; capping the colours merges only variables on the stack.      *)
RegistersSeparate ==
  task = "done" =>
    \A f \in Functions : \A u, v \in vertices[f] :
      InRegister(f, u) /\ u # v /\ {u, v} \in edges[f] =>
        colors[f][u] # colors[f][v]

(* A variable that gets no register has at least as many neighbours as     *)
(* there are registers: graphColoring never spills without the pressure    *)
(* that would justify it, in whatever order it takes the vertices.         *)
SpilledUnderPressure ==
  task = "done" =>
    \A f \in Functions : \A v \in vertices[f] :
      ~InRegister(f, v) => outDegree(f, v) >= NumRegisters
=============================================================================
