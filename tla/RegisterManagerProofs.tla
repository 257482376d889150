----------------------- MODULE RegisterManagerProofs ------------------------
(***************************************************************************)
(* Proofs about register allocation, for programs of any size, any live    *)
(* sets and any number of registers: the colouring is proper at every      *)
(* moment and for every order in which the vertices may be sorted, and     *)
(* capping the colours does not let two interfering variables share a      *)
(* register.                                                               *)
(***************************************************************************)
EXTENDS RegisterManager, FiniteSetTheorems, WellFoundedInduction, TLAPS

(* Both ends of an edge are vertices of the function's graph at any time,  *)
(* also when vertexMap.at has thrown.                                      *)
EdgesBetweenVertices ==
  \A f \in Functions : \A e \in edges[f] : e \subseteq vertices[f]

FinitelyMany == \A f \in Functions : IsFiniteSet(vertices[f])

(* The greedy bound: a colour is at most the degree of its vertex.         *)
WithinDegree ==
  \A f \in Functions : \A v \in DOMAIN colorVec[f] :
    colorVec[f][v] <= outDegree(f, v)

(* When the maps are filled every vertex has its colour, capped.           *)
ColorsStored ==
  task = "done" =>
    \A f \in Functions :
      /\ DOMAIN colorVec[f] = vertices[f]
      /\ colors[f] = [v \in vertices[f] |-> Capped(colorVec[f][v])]

(* Colouring starts when the graphs are complete: until then nothing has a *)
(* colour.                                                                 *)
ColoredLater ==
  task \in {"interference", "aborted"} =>
    \A f \in Functions : DOMAIN colorVec[f] = {}

IInv ==
  /\ TypeOK
  /\ EdgesBetweenVertices
  /\ FinitelyMany
  /\ ProperColoring
  /\ WithinDegree
  /\ ColoredLater
  /\ ColorsStored

-----------------------------------------------------------------------------
(* A line of a well-formed program is a line.                              *)
LEMMA LineType ==
  ASSUME TypeOK, task = "interference"
  PROVE  /\ code.lines[loc] \in Line
         /\ nextLoc \in Lines(code)
         /\ nextTask \in {"coloring", "interference"}
<1>1. code.lines \in Seq(Line) /\ loc \in 1 .. Len(code.lines)
  BY DEF TypeOK, WellFormed, Lines
<1>2. code.lines[loc] \in Line
  BY <1>1
<1>3. nextLoc \in Lines(code)
  BY <1>1 DEF nextLoc, Lines
<1> QED
  BY <1>2, <1>3 DEF nextTask

(* Only inputs count for what the functions of the program are.            *)
LEMMA SameProgram ==
  ASSUME UNCHANGED inputs
  PROVE  Functions' = Functions /\ (WellFormed(code)' <=> WellFormed(code))
BY DEF inputs, Functions, WellFormed, Lines

LEMMA SameDegrees ==
  ASSUME UNCHANGED <<vertices, edges>>, NEW f, NEW v
  PROVE  outDegree(f, v)' = outDegree(f, v)
BY DEF outDegree, Neighbours

(* The smallest colour that is free around a vertex is at most its degree: *)
(* all smaller ones are taken, each by a neighbour of its own.             *)
LEMMA SmallestFreeBound ==
  ASSUME NEW f, NEW v, NEW c \in Nat, IsFiniteSet(vertices[f]),
         IsSmallestFree(c, UsedAround(f, v))
  PROVE  c <= outDegree(f, v)
<1> DEFINE below == 0 .. c - 1
           N == Neighbours(f, v)
           holder == [d \in below |->
                        CHOOSE u \in N \cap DOMAIN colorVec[f] : colorVec[f][u] = d]
<1>1. IsFiniteSet(N)
  BY FS_Subset DEF Neighbours
<1>2. \A d \in below : holder[d] \in N /\ colorVec[f][holder[d]] = d
  <2> SUFFICES ASSUME NEW d \in below
               PROVE  holder[d] \in N /\ colorVec[f][holder[d]] = d
    OBVIOUS
  <2>1. \E u \in N \cap DOMAIN colorVec[f] : colorVec[f][u] = d
    BY DEF IsSmallestFree, UsedAround
  <2> QED
    BY <2>1
<1>3. holder \in Injection(below, N)
  <2> HIDE DEF N
  <2>1. holder \in [below -> N]
    BY <1>2
  <2>2. \A d, e \in below : holder[d] = holder[e] => d = e
    BY <1>2
  <2> HIDE DEF holder, below
  <2> QED
    BY <2>1, <2>2 DEF Injection, IsInjective
<1>4. Cardinality(below) <= Cardinality(N)
  BY <1>1, <1>3, FS_Injection
<1>5. Cardinality(below) = c
  BY FS_Interval
<1> QED
  BY <1>4, <1>5 DEF outDegree

(* The state in which generateInterferenceGraphs starts, wherever code and *)
(* live sets come from.                                                    *)
Started ==
  /\ WellFormed(code)
  /\ task = "interference"
  /\ loc = 1
  /\ vertices = [f \in Functions |-> {}]
  /\ edges = [f \in Functions |-> {}]
  /\ colorVec = [f \in Functions |-> <<>>]

LEMMA StartedHolds == Started => IInv
<1> SUFFICES ASSUME Started PROVE IInv
  OBVIOUS
<1>1. WellFormed(code)
  BY DEF Started
<1>2. loc \in Lines(code)
  <2>1. code.lines \in Seq(Line) /\ code.lines # <<>>
    BY <1>1 DEF WellFormed
  <2> QED
    BY <2>1 DEF Started, Lines
<1>3. \A f \in Functions : /\ vertices[f] = {} /\ edges[f] = {}
                           /\ DOMAIN colorVec[f] = {}
  BY DEF Started
<1>4. TypeOK
  BY <1>1, <1>2, <1>3 DEF Started, TypeOK, Tasks
<1>5. EdgesBetweenVertices /\ ProperColoring /\ ColoredLater /\ ColorsStored
  BY <1>3 DEF Started, EdgesBetweenVertices, ProperColoring, ColoredLater,
              ColorsStored
<1>6. FinitelyMany /\ WithinDegree
  BY <1>3, FS_EmptySet DEF FinitelyMany, WithinDegree
<1> QED
  BY <1>4, <1>5, <1>6 DEF IInv

LEMMA InitHolds == Init => IInv
<1>1. Init => Started
  BY AnalysedAssumption DEF Init, Started
<1> QED
  BY <1>1, StartedHolds

-----------------------------------------------------------------------------
LEMMA SkipLinePreserves == IInv /\ skipLine => IInv'
<1> SUFFICES ASSUME IInv, skipLine PROVE IInv'
  OBVIOUS
<1>1. Functions' = Functions /\ WellFormed(code)'
  BY SameProgram DEF skipLine, IInv, TypeOK
<1>2. TypeOK' /\ task' \in {"coloring", "interference"}
  BY <1>1, LineType DEF skipLine, IInv, TypeOK, Tasks, inputs, Lines
<1>3. EdgesBetweenVertices' /\ FinitelyMany' /\ ProperColoring'
  BY <1>1 DEF skipLine, IInv, EdgesBetweenVertices, FinitelyMany, ProperColoring
<1>5. WithinDegree'
  BY <1>1, SameDegrees DEF skipLine, IInv, WithinDegree
<1>4. ColoredLater' /\ ColorsStored'
  BY <1>1, <1>2 DEF skipLine, IInv, ColoredLater, ColorsStored
<1> QED
  BY <1>2, <1>3, <1>4, <1>5 DEF IInv

LEMMA JoinTargetPreserves == IInv /\ joinTarget => IInv'
<1> SUFFICES ASSUME IInv, joinTarget PROVE IInv'
  OBVIOUS
<1> DEFINE l == code.lines[loc]
           f == FunctionAt(code, loc)
<1>1. Functions' = Functions /\ WellFormed(code)'
  BY SameProgram DEF joinTarget, IInv, TypeOK
<1>2. l.target \in Vars \ FloatVars
  BY LineType DEF joinTarget, IInv, HasVertex, containsTargetVar, Line
<1>3. CASE LiveWith(l) \subseteq Known(f, l)
  <2>1. /\ vertices' = [vertices EXCEPT ![f] = Known(f, l)]
        /\ edges' = [edges EXCEPT ![f] =
                       @ \cup {{l.target, v} : v \in LiveWith(l)}]
        /\ loc' = nextLoc /\ task' = nextTask
        /\ UNCHANGED <<inputs, colorVec, colors>>
    BY <1>3 DEF joinTarget
  <2>2. task' \in {"coloring", "interference"} /\ loc' \in Lines(code)'
    BY <2>1, LineType DEF joinTarget, IInv, inputs, Lines
  <2>3. vertices' \in [Functions -> SUBSET (Vars \ FloatVars)]
    BY <2>1, <1>2 DEF IInv, TypeOK, Known
  <2>4. \A g \in Functions : vertices[g] \subseteq vertices'[g]
    BY <2>1 DEF IInv, TypeOK, Known
  <2>5. \A g \in Functions : \A e \in edges'[g] : e \subseteq vertices'[g]
    <3> SUFFICES ASSUME NEW g \in Functions, NEW e \in edges'[g]
                 PROVE  e \subseteq vertices'[g]
      OBVIOUS
    <3>1. CASE e \in edges[g]
      BY <3>1, <2>4 DEF IInv, EdgesBetweenVertices
    <3>2. CASE e \notin edges[g]
      <4>1. g = f /\ e \in {{l.target, v} : v \in LiveWith(l)}
        BY <3>2, <2>1 DEF IInv, TypeOK
      <4>2. vertices'[g] = Known(f, l)
        BY <4>1, <2>1 DEF IInv, TypeOK
      <4> QED
        BY <4>1, <4>2, <1>3 DEF Known
    <3> QED
      BY <3>1, <3>2
  <2>6. edges' \in [Functions -> SUBSET SUBSET Vars]
    <3>1. edges' \in [Functions -> SUBSET SUBSET Vars] <=>
            \A g \in Functions : \A e \in edges'[g] : e \subseteq Vars
      BY <2>1 DEF IInv, TypeOK
    <3> QED
      BY <3>1, <2>3, <2>5
  <2>7. \A g \in Functions : DOMAIN colorVec[g] = {}
    BY DEF joinTarget, IInv, ColoredLater
  <2>8. TypeOK'
    BY <1>1, <2>1, <2>2, <2>3, <2>6, <2>7 DEF IInv, TypeOK, Tasks
  <2>9. EdgesBetweenVertices' /\ ProperColoring' /\ ColoredLater' /\ ColorsStored'
    BY <1>1, <2>1, <2>2, <2>5, <2>7
       DEF EdgesBetweenVertices, ProperColoring, ColoredLater, ColorsStored
  <2>10. FinitelyMany'
    <3> SUFFICES ASSUME NEW g \in Functions PROVE IsFiniteSet(vertices'[g])
      BY <1>1 DEF FinitelyMany
    <3>1. IsFiniteSet(vertices[g])
      BY DEF IInv, FinitelyMany
    <3>2. IsFiniteSet(vertices[g] \cup {l.target})
      BY <3>1, FS_AddElement
    <3>3. vertices'[g] \in {vertices[g], vertices[g] \cup {l.target}}
      BY <2>1 DEF IInv, TypeOK, Known
    <3> QED
      BY <3>1, <3>2, <3>3
  <2>11. WithinDegree'
    BY <1>1, <2>1, <2>7 DEF WithinDegree
  <2> QED
    BY <2>8, <2>9, <2>10, <2>11 DEF IInv
<1>4. CASE ~(LiveWith(l) \subseteq Known(f, l))
  <2>1. task' = "aborted" /\ UNCHANGED <<inputs, vertices, edges, loc, colorVec, colors>>
    BY <1>4 DEF joinTarget
  <2>2. TypeOK'
    BY <1>1, <2>1 DEF IInv, TypeOK, Tasks, inputs, Lines
  <2>3. EdgesBetweenVertices' /\ ProperColoring' /\ ColoredLater' /\ ColorsStored'
    BY <1>1, <2>1
       DEF joinTarget, IInv, EdgesBetweenVertices, ProperColoring, ColoredLater,
           ColorsStored
  <2>4. FinitelyMany' /\ WithinDegree'
    BY <1>1, <2>1, SameDegrees DEF IInv, FinitelyMany, WithinDegree
  <2> QED
    BY <2>2, <2>3, <2>4 DEF IInv
<1> QED
  BY <1>3, <1>4

-----------------------------------------------------------------------------
(* The colour that a vertex gets differs from those of all its neighbours, *)
(* and the other vertices keep theirs.                                     *)
LEMMA ColorVertexPreserves ==
  ASSUME NEW f \in Functions, NEW v \in vertices[f], IInv, colorVertex(f, v)
  PROVE  IInv'
<1>1. Functions' = Functions /\ WellFormed(code)'
  BY SameProgram DEF colorVertex, IInv, TypeOK
<1>2. PICK c \in 0 .. Cardinality(vertices[f]) :
        /\ IsSmallestFree(c, UsedAround(f, v))
        /\ colorVec' = [colorVec EXCEPT ![f] =
                          [u \in DOMAIN colorVec[f] \cup {v} |->
                             IF u = v THEN c ELSE colorVec[f][u]]]
  BY DEF colorVertex
<1>3. c \in Nat /\ c \notin UsedAround(f, v)
  BY <1>2 DEF IsSmallestFree
<1>4. v \notin DOMAIN colorVec[f]
  BY DEF colorVertex, ComesNext, Uncolored
<1>5. /\ DOMAIN colorVec' = Functions
      /\ \A g \in Functions : g # f => colorVec'[g] = colorVec[g]
      /\ colorVec'[f] = [u \in DOMAIN colorVec[f] \cup {v} |->
                           IF u = v THEN c ELSE colorVec[f][u]]
  BY <1>2 DEF IInv, TypeOK
<1>6. UNCHANGED <<code, loc, task, vertices, edges>> /\ task = "coloring"
  BY DEF colorVertex, inputs
<1>7. TypeOK'
  <2>1. \A g \in Functions :
          /\ DOMAIN colorVec'[g] \subseteq vertices[g]
          /\ \A u \in DOMAIN colorVec'[g] : colorVec'[g][u] \in Nat
    BY <1>3, <1>5 DEF IInv, TypeOK
  <2> QED
    BY <2>1, <1>1, <1>5, <1>6 DEF IInv, TypeOK, Lines
<1>8. ProperColoring'
  <2> SUFFICES ASSUME NEW g \in Functions,
                      NEW u \in DOMAIN colorVec'[g], NEW w \in DOMAIN colorVec'[g],
                      u # w, {u, w} \in edges[g]
               PROVE  colorVec'[g][u] # colorVec'[g][w]
    BY <1>1, <1>6 DEF ProperColoring
  <2>1. CASE g # f \/ (u # v /\ w # v)
    BY <2>1, <1>5 DEF IInv, ProperColoring
  <2>2. \A x \in DOMAIN colorVec[f] :
          x # v /\ {x, v} \in edges[f] => colorVec[f][x] # c
    <3> SUFFICES ASSUME NEW x \in DOMAIN colorVec[f], x # v, {x, v} \in edges[f]
                 PROVE  colorVec[f][x] # c
      OBVIOUS
    <3>1. x \in Neighbours(f, v)
      BY DEF Neighbours, IInv, TypeOK
    <3> QED
      BY <3>1, <1>3 DEF UsedAround
  <2>3. CASE g = f /\ u = v
    <3>1. w \in DOMAIN colorVec[f] /\ {w, v} = {u, w}
      BY <2>3, <1>5
    <3> QED
      BY <3>1, <2>2, <2>3, <1>5
  <2>4. CASE g = f /\ w = v
    <3>1. u \in DOMAIN colorVec[f] /\ {u, v} = {u, w}
      BY <2>4, <1>5
    <3> QED
      BY <3>1, <2>2, <2>4, <1>5
  <2> QED
    BY <2>1, <2>3, <2>4
<1>9. EdgesBetweenVertices' /\ FinitelyMany' /\ ColoredLater' /\ ColorsStored'
  BY <1>1, <1>6 DEF IInv, EdgesBetweenVertices, FinitelyMany, ColoredLater,
                    ColorsStored
<1>10. WithinDegree'
  <2>1. c <= outDegree(f, v)
    BY <1>2, <1>3, SmallestFreeBound DEF IInv, FinitelyMany
  <2> SUFFICES ASSUME NEW g \in Functions, NEW u \in DOMAIN colorVec'[g]
               PROVE  colorVec'[g][u] <= outDegree(g, u)
    BY <1>1, <1>6, SameDegrees DEF WithinDegree
  <2>2. CASE g = f /\ u = v
    BY <2>1, <2>2, <1>5
  <2>3. CASE ~(g = f /\ u = v)
    <3>1. u \in DOMAIN colorVec[g] /\ colorVec'[g][u] = colorVec[g][u]
      BY <2>3, <1>5
    <3> QED
      BY <3>1 DEF IInv, WithinDegree
  <2> QED
    BY <2>2, <2>3
<1> QED
  BY <1>7, <1>8, <1>9, <1>10 DEF IInv

LEMMA StoreColorsPreserves == IInv /\ storeColors => IInv'
<1> SUFFICES ASSUME IInv, storeColors PROVE IInv'
  OBVIOUS
<1>1. Functions' = Functions /\ WellFormed(code)'
  BY SameProgram DEF storeColors, IInv, TypeOK
<1>2. TypeOK'
  BY <1>1 DEF storeColors, IInv, TypeOK, Tasks, inputs, Lines
<1>3. EdgesBetweenVertices' /\ FinitelyMany'
  BY <1>1 DEF storeColors, IInv, EdgesBetweenVertices, FinitelyMany
<1>4. ProperColoring'
  <2>1. ProperColoring /\ UNCHANGED <<vertices, edges, colorVec>>
    BY DEF storeColors, IInv
  <2> QED
    BY <1>1, <2>1 DEF ProperColoring
<1>5. WithinDegree'
  BY <1>1, SameDegrees DEF storeColors, IInv, WithinDegree
<1>6. ColoredLater'
  BY DEF storeColors, ColoredLater
<1>7. ColorsStored'
  <2>1. \A f \in Functions : DOMAIN colorVec[f] = vertices[f]
    BY DEF storeColors, Uncolored, IInv, TypeOK
  <2> QED
    BY <1>1, <2>1 DEF storeColors, ColorsStored, Capped
<1> QED
  BY <1>2, <1>3, <1>4, <1>5, <1>6, <1>7 DEF IInv

LEMMA StepPreserves == IInv /\ [Next]_vars => IInv'
<1> SUFFICES ASSUME IInv, [Next]_vars PROVE IInv'
  OBVIOUS
<1>1. CASE skipLine
  BY <1>1, SkipLinePreserves
<1>2. CASE joinTarget
  BY <1>2, JoinTargetPreserves
<1>3. CASE \E f \in Functions : \E v \in vertices[f] : colorVertex(f, v)
  BY <1>3, ColorVertexPreserves
<1>4. CASE storeColors
  BY <1>4, StoreColorsPreserves
<1>5. CASE UNCHANGED vars
  <2>1. Functions' = Functions /\ WellFormed(code)'
    BY <1>5, SameProgram DEF vars, inputs, IInv, TypeOK
  <2>2. WithinDegree'
    BY <1>5, <2>1, SameDegrees DEF vars, IInv, WithinDegree
  <2> QED
    BY <1>5, <2>1, <2>2
       DEF vars, IInv, TypeOK, Lines, EdgesBetweenVertices, FinitelyMany,
           ProperColoring, ColoredLater, ColorsStored
<1> QED
  BY <1>1, <1>2, <1>3, <1>4, <1>5 DEF Next

(* The invariant behind the theorems below.                                *)
THEOREM InvariantHolds == Spec => []IInv
BY InitHolds, StepPreserves, PTL DEF Spec

(* Every variable has its type; in particular no FLOAT gets a vertex.      *)
THEOREM TypeCorrect == Spec => []TypeOK
<1>1. IInv => TypeOK
  BY DEF IInv
<1> QED
  BY <1>1, InvariantHolds, PTL

(* graphColoring never gives two neighbours the same colour, whatever      *)
(* order std::sort leaves the vertices of equal degree in.                 *)
THEOREM ColoringCorrect == Spec => []ProperColoring
<1>1. IInv => ProperColoring
  BY DEF IInv
<1> QED
  BY <1>1, InvariantHolds, PTL

LEMMA RegistersFollow == IInv => RegistersSeparate
<1> SUFFICES ASSUME IInv, task = "done", NEW f \in Functions,
                    NEW u \in vertices[f], NEW v \in vertices[f],
                    InRegister(f, u), u # v, {u, v} \in edges[f]
             PROVE  colors[f][u] # colors[f][v]
  BY DEF RegistersSeparate
<1>1. DOMAIN colorVec[f] = vertices[f]
  BY DEF IInv, ColorsStored
<1>2. colorVec[f][u] \in Nat /\ colorVec[f][v] \in Nat
  BY <1>1 DEF IInv, TypeOK
<1>3. colorVec[f][u] # colorVec[f][v]
  BY <1>1 DEF IInv, ProperColoring
<1>4. /\ colors[f][u] = Capped(colorVec[f][u])
      /\ colors[f][v] = Capped(colorVec[f][v])
  BY DEF IInv, ColorsStored
<1>5. colors[f][u] < NumRegisters
  BY DEF InRegister, isColor
<1> QED
  BY <1>2, <1>3, <1>4, <1>5, NumRegistersAssumption DEF Capped

(* Two interfering variables never share a register, for any number of     *)
(* registers: the colour that capping hands out to many is not a register. *)
THEOREM RegistersCorrect == Spec => []RegistersSeparate
BY InvariantHolds, RegistersFollow, PTL

(* A variable without a register has at least NumRegisters neighbours, for *)
(* any number of registers and any order of the vertices.                  *)
THEOREM SpillingJustified == Spec => []SpilledUnderPressure
<1>1. IInv => SpilledUnderPressure
  <2> SUFFICES ASSUME IInv, task = "done", NEW f \in Functions,
                      NEW v \in vertices[f], ~InRegister(f, v)
               PROVE  outDegree(f, v) >= NumRegisters
    BY DEF SpilledUnderPressure
  <2>1. /\ v \in DOMAIN colorVec[f]
        /\ colors[f][v] = Capped(colorVec[f][v])
    BY DEF IInv, ColorsStored
  <2>2. colorVec[f][v] \in Nat /\ colorVec[f][v] <= outDegree(f, v)
    BY <2>1 DEF IInv, TypeOK, WithinDegree
  <2>3. ~(colors[f][v] < NumRegisters)
    BY DEF InRegister, isColor
  <2>4. outDegree(f, v) \in Nat
    <3>1. IsFiniteSet(Neighbours(f, v))
      BY FS_Subset DEF IInv, FinitelyMany, Neighbours
    <3> QED
      BY <3>1, FS_CardinalityType DEF outDegree
  <2> QED
    BY <2>1, <2>2, <2>3, <2>4, NumRegistersAssumption DEF Capped
<1> QED
  BY <1>1, InvariantHolds, PTL

-----------------------------------------------------------------------------
(* Induction over natural numbers, without the number: a set of them has a *)
(* least element, and a greatest one if it is bounded.                     *)
Descending == {p \in Nat \X Nat : p[1] < p[2]}

LEMMA Least ==
  ASSUME NEW T \in SUBSET Nat, T # {}
  PROVE  \E x \in T : \A y \in T : x <= y
<1>1. Descending = OpToRel(<, Nat)
  BY Zenon DEF Descending, OpToRel
<1>2. IsWellFoundedOn(Descending, Nat)
  BY <1>1, NatLessThanWellFounded, Zenon
<1>3. PICK x \in T : \A y \in T : ~(<<y, x>> \in Descending)
  BY <1>2, WFMin, Zenon
<1>4. ASSUME NEW y \in T PROVE x <= y
  <2>1. ~(y < x)
    BY <1>3 DEF Descending
  <2> QED
    BY <2>1
<1> QED
  BY <1>4

LEMMA Greatest ==
  ASSUME NEW n \in Nat, NEW T \in SUBSET (1 .. n), T # {}
  PROVE  \E x \in T : \A y \in T : y <= x
<1> DEFINE U == {n - x : x \in T}
<1>1. U \in SUBSET Nat /\ U # {}
  <2>1. \A x \in T : x \in 1 .. n
    OBVIOUS
  <2>2. \A x \in 1 .. n : n - x \in Nat
    OBVIOUS
  <2> QED
    BY <2>1, <2>2
<1>2. PICK u \in U : \A w \in U : u <= w
  <2> HIDE DEF U
  <2> QED
    BY <1>1, Least
<1>3. PICK x \in T : u = n - x
  BY <1>2
<1>4. ASSUME NEW y \in T PROVE y <= x
  <2>1. n - y \in U /\ x \in 1 .. n /\ y \in 1 .. n
    OBVIOUS
  <2>2. n - x <= n - y
    BY <1>2, <1>3, <2>1
  <2> QED
    BY <2>1, <2>2
<1> QED
  BY <1>4

(* Every line belongs to a function of the program.                        *)
LEMMA FunctionIsThere ==
  ASSUME NEW p, WellFormed(p), NEW i \in Lines(p)
  PROVE  \E e \in Lines(p) : p.lines[e].op = "ENTRY" /\ FunctionAt(p, i) = p.lines[e].dest
<1> DEFINE entries == {j \in 1 .. i : p.lines[j].op = "ENTRY"}
           e == CHOOSE j \in entries : \A k \in entries : k <= j
<1>1. i \in Nat \ {0} /\ p.lines[1].op = "ENTRY" /\ 1 .. i \subseteq Lines(p)
  BY DEF WellFormed, Lines
<1>2. entries \in SUBSET (1 .. i) /\ 1 \in entries
  BY <1>1
<1>3. \E j \in entries : \A k \in entries : k <= j
  <2> HIDE DEF entries
  <2> QED
    BY <1>1, <1>2, Greatest
<1>4. e \in entries
  BY <1>3
<1>5. e \in Lines(p) /\ p.lines[e].op = "ENTRY"
  BY <1>1, <1>4
<1>6. FunctionAt(p, i) = p.lines[e].dest
  BY DEF FunctionAt
<1> QED
  BY <1>5, <1>6

(* What generateInterferenceGraphs has joined: the target of each line it  *)
(* has passed is a vertex, next to everything live at that line.           *)
JoinedAt(i) ==
  LET l == code.lines[i]
      f == FunctionAt(code, i)
  IN HasVertex(l) =>
       /\ l.target \in vertices[f]
       /\ \A v \in liveSetAt(code, liveOut, i) \ FloatVars : {l.target, v} \in edges[f]

HasPassed(i) == task \in {"coloring", "done"} \/ i < loc

Joined == \A i \in Lines(code) : HasPassed(i) => JoinedAt(i)

LEMMA PassedNow ==
  ASSUME IInv, task = "interference", UNCHANGED inputs,
         loc' = nextLoc, task' = nextTask,
         NEW i \in Lines(code), HasPassed(i)'
  PROVE  HasPassed(i) \/ i = loc
<1>1. loc \in 1 .. Len(code.lines) /\ Lines(code) = 1 .. Len(code.lines)
  BY DEF IInv, TypeOK, Lines
<1>2. CASE loc = Len(code.lines)
  BY <1>1, <1>2 DEF HasPassed
<1>3. CASE loc # Len(code.lines)
  BY <1>1, <1>3 DEF HasPassed, nextLoc, nextTask
<1> QED
  BY <1>2, <1>3

LEMMA JoinedStep == IInv /\ Joined /\ [Next]_vars => Joined'
<1> SUFFICES ASSUME IInv, Joined, [Next]_vars PROVE Joined'
  OBVIOUS
<1>0. UNCHANGED inputs
  BY DEF Next, vars, skipLine, joinTarget, colorVertex, storeColors, inputs
<1>1. CASE skipLine
  <2> SUFFICES ASSUME NEW i \in Lines(code), HasPassed(i)'
               PROVE  JoinedAt(i)'
    BY <1>0 DEF Joined, inputs, Lines
  <2>1. HasPassed(i) \/ i = loc
    BY <1>0, <1>1, PassedNow DEF skipLine
  <2>2. JoinedAt(i)
    BY <1>1, <2>1 DEF skipLine, Joined, JoinedAt
  <2> QED
    BY <1>0, <1>1, <2>2 DEF skipLine, JoinedAt, inputs
<1>2. CASE joinTarget
  <2> DEFINE l == code.lines[loc]
             f == FunctionAt(code, loc)
  <2>1. CASE LiveWith(l) \subseteq Known(f, l)
    <3>1. /\ vertices' = [vertices EXCEPT ![f] = Known(f, l)]
          /\ edges' = [edges EXCEPT ![f] =
                         @ \cup {{l.target, v} : v \in LiveWith(l)}]
          /\ loc' = nextLoc /\ task' = nextTask /\ task = "interference"
      BY <1>2, <2>1 DEF joinTarget
    <3>2. f \in Functions
      BY FunctionIsThere DEF IInv, TypeOK, Functions
    <3>3. DOMAIN vertices = Functions /\ DOMAIN edges = Functions
      BY DEF IInv, TypeOK
    <3> HIDE DEF f
    <3>4. \A g \in Functions : vertices[g] \subseteq vertices'[g] /\ edges[g] \subseteq edges'[g]
      BY <3>1, <3>2, <3>3 DEF Known
    <3>5. /\ l.target \in vertices'[f]
          /\ \A v \in LiveWith(l) : {l.target, v} \in edges'[f]
      BY <3>1, <3>2, <3>3 DEF Known
    <3> SUFFICES ASSUME NEW i \in Lines(code), HasPassed(i)'
                 PROVE  JoinedAt(i)'
      BY <1>0 DEF Joined, inputs, Lines
    <3>6. HasPassed(i) \/ i = loc
      BY <1>0, <3>1, PassedNow
    <3>7. FunctionAt(code, i) \in Functions
      BY FunctionIsThere DEF IInv, TypeOK, Functions
    <3>8. CASE HasPassed(i)
      <4>1. JoinedAt(i)
        BY <3>8 DEF Joined
      <4> QED
        BY <1>0, <4>1, <3>4, <3>7 DEF JoinedAt, inputs
    <3>9. CASE i = loc
      BY <1>0, <3>5, <3>9 DEF JoinedAt, inputs, LiveWith, f
    <3> QED
      BY <3>6, <3>8, <3>9
  <2>2. CASE ~(LiveWith(l) \subseteq Known(f, l))
    <3>1. task' = "aborted" /\ UNCHANGED <<inputs, vertices, edges, loc>>
      BY <1>2, <2>2 DEF joinTarget
    <3> QED
      BY <3>1 DEF Joined, HasPassed, JoinedAt, inputs, Lines
  <2> QED
    BY <2>1, <2>2
<1>3. CASE \/ \E f \in Functions : \E v \in vertices[f] : colorVertex(f, v)
           \/ storeColors \/ UNCHANGED vars
  <2>1. /\ UNCHANGED <<inputs, vertices, edges, loc>>
        /\ task' = task \/ task = "coloring"
    BY <1>3 DEF colorVertex, storeColors, vars, inputs
  <2> QED
    BY <2>1 DEF Joined, HasPassed, JoinedAt, inputs, Lines
<1> QED
  BY <1>1, <1>2, <1>3 DEF Next

LEMMA StartedJoined == Started => Joined
<1> SUFFICES ASSUME Started, NEW i \in Lines(code), HasPassed(i) PROVE FALSE
  BY DEF Joined
<1>1. i \in Nat \ {0}
  BY DEF Started, Lines
<1> QED
  BY <1>1 DEF Started, HasPassed

(* The interference graphs that are coloured leave nothing out: whatever   *)
(* is live at a line with a target of its own is next to that target.      *)
AllJoined ==
  task \in {"coloring", "done"} => \A i \in Lines(code) : JoinedAt(i)

THEOREM GraphsComplete == Spec => []AllJoined
<1>1. Init => Joined
  <2>1. Init => Started
    BY AnalysedAssumption DEF Init, Started
  <2> QED
    BY <2>1, StartedJoined
<1>2. IInv /\ Joined /\ [Next]_vars => Joined'
  BY JoinedStep
<1>3. Joined => AllJoined
  BY DEF Joined, HasPassed, AllJoined
<1> QED
  BY <1>1, <1>2, <1>3, InvariantHolds, PTL DEF Spec


-----------------------------------------------------------------------------
(* When vertexMap.at throws, a variable is live at the line whose target   *)
(* was being joined, and has no vertex.                                    *)
Missing(w) ==
  LET l == code.lines[loc]
  IN /\ HasVertex(l)
     /\ w \in liveSetAt(code, liveOut, loc) \ FloatVars
     /\ w # l.target
     /\ w \notin vertices[FunctionAt(code, loc)]

StoppedByMissing == task = "aborted" => \E w : Missing(w)

LEMMA StoppedStep == IInv /\ StoppedByMissing /\ [Next]_vars => StoppedByMissing'
<1> SUFFICES ASSUME IInv, StoppedByMissing, [Next]_vars, task' = "aborted"
             PROVE  (\E w : Missing(w))'
  BY DEF StoppedByMissing
<1>1. CASE joinTarget
  <2>1. task' # nextTask
    BY DEF nextTask
  <2>2. /\ ~(LiveWith(code.lines[loc]) \subseteq Known(FunctionAt(code, loc), code.lines[loc]))
        /\ HasVertex(code.lines[loc])
        /\ UNCHANGED <<inputs, vertices, loc>>
    BY <1>1, <2>1 DEF joinTarget
  <2>3. \E w : Missing(w)
    BY <2>2 DEF LiveWith, Known, Missing
  <2> QED
    BY <2>2, <2>3 DEF Missing, inputs
<1>2. CASE UNCHANGED vars
  <2>1. \E w : Missing(w)
    BY <1>2 DEF StoppedByMissing, vars
  <2> QED
    BY <1>2, <2>1 DEF Missing, vars
<1>3. CASE skipLine \/ storeColors \/ \E f \in Functions : \E v \in vertices[f] : colorVertex(f, v)
  BY <1>3 DEF skipLine, storeColors, colorVertex, nextTask
<1> QED
  BY <1>1, <1>2, <1>3 DEF Next

LEMMA MissingNotStored ==
  ASSUME IInv, Joined, NEW w, Missing(w), NEW i \in 1 .. loc,
         FunctionAt(code, i) = FunctionAt(code, loc)
  PROVE  w \notin Writes(code.lines[i])
<1> SUFFICES ASSUME w \in Writes(code.lines[i]) PROVE FALSE
  OBVIOUS
<1>1. loc \in 1 .. Len(code.lines) /\ Lines(code) = 1 .. Len(code.lines)
  BY DEF IInv, TypeOK, Lines
<1>2. i \in Lines(code) /\ i # loc /\ i < loc
  BY <1>1 DEF Missing, Writes
<1>3. JoinedAt(i)
  BY <1>2 DEF Joined, HasPassed
<1>4. HasVertex(code.lines[i])
  BY DEF HasVertex, containsTargetVar, Missing, Writes
<1> QED
  BY <1>3, <1>4 DEF JoinedAt, Missing, Writes

(* The lines of the function that the walk has come past store nothing in  *)
(* some variable that is live where it stopped.                            *)
NothingStored ==
  task = "aborted" =>
    \E w \in liveSetAt(code, liveOut, loc) \ FloatVars :
      \A i \in 1 .. loc :
        FunctionAt(code, i) = FunctionAt(code, loc) => w \notin Writes(code.lines[i])

(* Allocation never stops for want of a vertex that a line above should    *)
(* have given: when vertexMap.at throws, some variable is live at the line *)
(* that none of the lines above it in the function writes.                 *)
THEOREM AbortsOnlyUnstored == Spec => []NothingStored
<1>1. Init => StoppedByMissing
  BY DEF Init, StoppedByMissing
<1>2. Init => Joined
  <2>1. Init => Started
    BY AnalysedAssumption DEF Init, Started
  <2> QED
    BY <2>1, StartedJoined
<1>3. IInv /\ Joined /\ StoppedByMissing => NothingStored
  <2> SUFFICES ASSUME IInv, Joined, NEW w, Missing(w)
               PROVE  \A i \in 1 .. loc :
                        FunctionAt(code, i) = FunctionAt(code, loc) =>
                          w \notin Writes(code.lines[i])
    BY DEF StoppedByMissing, NothingStored, Missing
  <2> QED
    BY MissingNotStored
<1> QED
  BY <1>1, <1>2, <1>3, StoppedStep, JoinedStep, InvariantHolds, PTL DEF Spec
=============================================================================
