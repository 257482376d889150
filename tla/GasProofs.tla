----------------------------- MODULE GasProofs -----------------------------
EXTENDS Gas, TLAPS, SequenceTheorems, WellFoundedInduction

(***************************************************************************)
(* Proofs about the generated code, for code of any length, any functions, *)
(* labels, variables and arrays that satisfy GasAssumption.                *)
(*                                                                         *)
(* First the layout of the frames, about LayoutSpec: LayoutInv is the      *)
(* inductive invariant, for types, slots and parameters.                   *)
(*                                                                         *)
(* Then the form of the code that Gas emits.  CodeInv is inductive: while  *)
(* the lines are converted, every instruction emitted so far is owned by   *)
(* one function or, where nothing leads to it, by none, labels stand in    *)
(* the code of their function, and the saves and restores around calls,    *)
(* inserted later, keep all of this.  CodeCorrect is its consequence for   *)
(* the finished code.                                                      *)
(*                                                                         *)
(* Last its execution.  StackInv says that what is saved on the stack is a *)
(* chain of frames, each with the frame pointer of its caller and a return *)
(* address behind a call; CallsInGraphCorrect follows from it and from     *)
(* CodeInv.                                                                *)
(***************************************************************************)

(* The ENTRY of f has been passed.                                         *)
Started(f) ==
  \E j \in 1 .. Len(code.lines) :
    /\ code.lines[j].op = "ENTRY" /\ code.lines[j].dest = f
    /\ j < at \/ (j = at /\ nextArray # 0)

UnstartedEmpty ==
  \A f \in Functions :
    ~Started(f) => /\ \A o \in Owners : Offset(f, o) = 0
                   /\ functionVariables[f] = <<>>

CurrentStarted ==
  IF at = 1 /\ nextArray = 0 THEN currentFunctionLabel = NoLabel
  ELSE currentFunctionLabel \in Functions /\ Started(currentFunctionLabel)

SpaceCounted == curLocalOffset <= -4 /\ stackSpace = -4 - curLocalOffset

(* An owner at this offset, in a frame that ends at bottom: an owner       *)
(* without a size may lie one word further down.                           *)
InFrame(o, offset, bottom) ==
  offset <= -4 /\ (bottom <= offset \/ (Unsized(o) /\ offset = bottom - 4))

CurrentAbove ==
  currentFunctionLabel \in Functions =>
    \A o \in Placed(currentFunctionLabel) :
      InFrame(o, Offset(currentFunctionLabel, o), curLocalOffset + 4)

FinishedReserved ==
  \A f \in Functions :
    f # currentFunctionLabel \/ nextArray = -1 =>
      \A o \in Placed(f) : InFrame(o, Offset(f, o), -functionStackSpace[f])

ParamsCounted ==
  /\ curParamOffset >= 8
  /\ \A f \in Functions : \A i \in 1 .. Len(functionVariables[f]) :
       variableStackOffset[<<f, functionVariables[f][i]>>] >= 8
  /\ currentFunctionLabel \in Functions =>
       ((\A j \in 1 .. Len(functionVariables[currentFunctionLabel]) :
           getSize(TypeOf[functionVariables[currentFunctionLabel][j]]) > 0) =>
        curParamOffset = 8 + 4 * Len(functionVariables[currentFunctionLabel]))

SlotsInv == SpaceCounted /\ CurrentAbove /\ FinishedReserved /\ SlotsDisjoint

ParamsInv == ParamsCounted /\ ParametersWherePushed

LayoutInv == TypeOK /\ UnstartedEmpty /\ CurrentStarted /\ SlotsInv /\ ParamsInv

-----------------------------------------------------------------------------
(* The parts of a program that the loops walk over.                        *)
LEMMA ProgramFacts ==
  ASSUME TypeOK
  PROVE  /\ Len(code.lines) \in Nat \ {0}
         /\ code.lines[1].op = "ENTRY"
         /\ \A i \in 1 .. Len(code.lines) :
              /\ code.lines[i].target \in Vars \cup {NoVar}
              /\ code.lines[i].op = "ENTRY" => code.lines[i].dest \in Functions
         /\ \A i, j \in 1 .. Len(code.lines) :
              /\ code.lines[i].op = "ENTRY" /\ code.lines[j].op = "ENTRY"
              /\ code.lines[i].dest = code.lines[j].dest
              => i = j
         /\ code.arrays \in Seq([array : Arrays, line : Nat])
         /\ Len(code.arrays) \in Nat
<1>1. IsProgram(code)
  BY LayoutAssumption DEF TypeOK
<1>2. code.arrays \in Seq([array : Arrays, line : Nat])
  BY <1>1 DEF IsProgram
<1>3. Len(code.arrays) \in Nat
  BY <1>2
<1> QED
  BY <1>1, <1>2, <1>3 DEF IsProgram

LEMMA SizeType ==
  ASSUME NEW v \in Vars
  PROVE  getSize(TypeOf[v]) \in {0, 4}
BY DEF getSize

(* The array of the entry at hand.                                         *)
LEMMA ArrayType ==
  ASSUME TypeOK, AtArray
  PROVE  arrDecl.array \in Arrays
<1>1. nextArray \in 1 .. Len(code.arrays)
  BY DEF AtArray
<1>a. code.arrays \in Seq([array : Arrays, line : Nat])
  BY ProgramFacts
<1>2. code.arrays[nextArray] \in [array : Arrays, line : Nat]
  BY <1>1, <1>a, ElementOfSeq
<1> QED
  BY <1>2 DEF arrDecl

LEMMA LineType ==
  ASSUME TypeOK, AtLine
  PROVE  /\ at \in 1 .. Len(code.lines)
         /\ codeLine = code.lines[at]
         /\ codeLine.target \in Vars \cup {NoVar}
         /\ codeLine.op = "ENTRY" => codeLine.dest \in Functions
<1>1. at \in 1 .. Len(code.lines)
  BY ProgramFacts DEF AtLine, TypeOK
<1> QED
  BY <1>1, ProgramFacts DEF codeLine

-----------------------------------------------------------------------------
(* Once the first line, an ENTRY, has been passed there is a function.     *)
Current == currentFunctionLabel \in Functions

LEMMA CurrentAtLine ==
  ASSUME TypeOK, CurrentStarted, AtLine, codeLine.op # "ENTRY"
  PROVE  Current
<1>1. at # 1
  BY LineType, ProgramFacts
<1> QED
  BY <1>1 DEF CurrentStarted, Current

LEMMA CurrentAtArray ==
  ASSUME TypeOK, CurrentStarted, nextArray # 0 \/ at # 1
  PROVE  Current
BY DEF CurrentStarted, Current

LEMMA InitType == LayoutInit => TypeOK
<1> SUFFICES ASSUME LayoutInit
             PROVE  TypeOK
  OBVIOUS
<1>1. IsProgram(code)
  BY LayoutAssumption DEF LayoutInit
<1>2. Len(code.lines) \in Nat \ {0}
  BY <1>1 DEF IsProgram
<1>3. code.arrays \in Seq([array : Arrays, line : Nat])
  BY <1>1 DEF IsProgram
<1>4. Len(code.arrays) \in Nat
  BY <1>3
<1>5. code \in Programs /\ at \in 1 .. Len(code.lines) + 1
  BY <1>2 DEF LayoutInit
<1>6. nextArray \in -1 .. Len(code.arrays) + 1
  BY <1>4 DEF LayoutInit
<1>10. currentFunctionLabel \in Functions \cup {NoLabel} /\ funcArg \in BOOLEAN
  BY DEF LayoutInit
<1>7. /\ stackSpace \in Nat /\ curLocalOffset \in Int /\ curParamOffset \in Nat
  BY DEF LayoutInit, initLocalOffset, initParamOffset
<1>8. /\ variableStackOffset \in [Functions \X Vars -> Int]
      /\ arrayStackOffset \in [Functions \X Arrays -> Int]
  BY DEF LayoutInit
<1>9. /\ functionVariables \in [Functions -> Seq(Vars)]
      /\ functionStackSpace \in [Functions -> Nat]
  BY DEF LayoutInit
<1> QED
  BY <1>5, <1>6, <1>7, <1>8, <1>9, <1>10 DEF TypeOK

(* TypeOK in the pieces that different actions change.                     *)
LoopsOK ==
  /\ code \in Programs
  /\ at \in 1 .. Len(code.lines) + 1
  /\ nextArray \in -1 .. Len(code.arrays) + 1

CountersOK ==
  /\ currentFunctionLabel \in Functions \cup {NoLabel}
  /\ funcArg \in BOOLEAN
  /\ stackSpace \in Nat
  /\ curLocalOffset \in Int /\ curParamOffset \in Nat

MapsOK ==
  /\ variableStackOffset \in [Functions \X Vars -> Int]
  /\ arrayStackOffset \in [Functions \X Arrays -> Int]
  /\ functionVariables \in [Functions -> Seq(Vars)]
  /\ functionStackSpace \in [Functions -> Nat]

LEMMA TypeParts == TypeOK <=> LoopsOK /\ CountersOK /\ MapsOK
BY DEF TypeOK, LoopsOK, CountersOK, MapsOK

LEMMA LoopsStep ==
  ASSUME TypeOK, [LayoutNext]_layoutVars
  PROVE  LoopsOK'
<1>1. Len(code.lines) \in Nat \ {0} /\ Len(code.arrays) \in Nat
  BY ProgramFacts
<1>2. LoopsOK
  BY TypeParts
<1> QED
  BY <1>1, <1>2 DEF LoopsOK, LayoutNext, enterFunction, placeParameter, placeLocal,
     passLine, placeArray, placeArrayAgain, passArray, nextLine, addLastFunction, AtLine,
     AtArray, layoutVars
LEMMA CountersStep ==
  ASSUME TypeOK, CurrentStarted, [LayoutNext]_layoutVars
  PROVE  CountersOK'
<1>1. CountersOK
  BY TypeParts
<1>2. CASE enterFunction
  BY <1>2, LineType DEF enterFunction, CountersOK, initLocalOffset, initParamOffset
<1>3. CASE placeParameter \/ placeLocal
  <2>1. codeLine.target \in Vars
    BY <1>3, LineType DEF placeParameter, placeLocal, IsNewTarget
  <2>2. getSize(TypeOf[codeLine.target]) \in Nat
    BY <2>1, SizeType
  <2>3. CASE placeParameter
    BY <1>1, <2>2, <2>3 DEF CountersOK, placeParameter
  <2>4. CASE placeLocal
    <3>1. funcArg' \in BOOLEAN
      BY <2>4 DEF placeLocal
    <3>2. stackSpace' \in Nat /\ curLocalOffset' \in Int
      BY <1>1, <2>2, <2>4 DEF CountersOK, placeLocal
    <3> QED
      BY <1>1, <2>4, <3>1, <3>2 DEF CountersOK, placeLocal
  <2> QED
    BY <1>3, <2>3, <2>4
<1> QED
  BY <1>1, <1>2, <1>3 DEF LayoutNext, CountersOK, passLine, placeArray,
     placeArrayAgain, passArray, nextLine, addLastFunction, layoutVars

LEMMA MapsStep ==
  ASSUME TypeOK, CurrentStarted, [LayoutNext]_layoutVars
  PROVE  MapsOK'
<1>1. MapsOK /\ CountersOK
  BY TypeParts
<1>2. CASE enterFunction
  <2>1. functionVariables' \in [Functions -> Seq(Vars)]
    BY <1>1, <1>2, LineType DEF enterFunction, MapsOK
  <2>2. functionStackSpace' \in [Functions -> Nat]
    BY <1>1, <1>2 DEF enterFunction, MapsOK, CountersOK
  <2> QED
    BY <1>1, <1>2, <2>1, <2>2 DEF enterFunction, MapsOK
<1>3. CASE placeParameter
  <2>1. codeLine.target \in Vars /\ currentFunctionLabel \in Functions
    BY <1>3, LineType, CurrentAtLine DEF placeParameter, IsNewTarget, Current
  <2>2. functionVariables' \in [Functions -> Seq(Vars)]
    BY <1>1, <1>3, <2>1 DEF MapsOK, placeParameter
  <2>3. variableStackOffset' \in [Functions \X Vars -> Int]
    BY <1>1, <1>3, <2>1 DEF MapsOK, CountersOK, placeParameter
  <2> QED
    BY <1>1, <1>3, <2>2, <2>3 DEF MapsOK, placeParameter
<1>6. CASE placeLocal
  <2>1. codeLine.target \in Vars /\ currentFunctionLabel \in Functions
    BY <1>6, LineType, CurrentAtLine DEF placeLocal, IsNewTarget, Current
  <2>2. variableStackOffset' \in [Functions \X Vars -> Int]
    BY <1>1, <1>6, <2>1 DEF MapsOK, CountersOK, placeLocal
  <2> QED
    BY <1>1, <1>6, <2>2 DEF MapsOK, placeLocal
<1>4. CASE placeArray \/ placeArrayAgain
  <2>1. arrDecl.array \in Arrays /\ currentFunctionLabel \in Functions
    BY <1>4, ArrayType, CurrentAtArray DEF placeArray, placeArrayAgain, AtArray, Current
  <2>2. arrayStackOffset' \in [Functions \X Arrays -> Int]
    BY <1>1, <1>4, <2>1 DEF MapsOK, CountersOK, placeArray, placeArrayAgain
  <2> QED
    BY <1>1, <1>4, <2>2 DEF MapsOK, placeArray, placeArrayAgain
<1>5. CASE addLastFunction
  BY <1>1, <1>5 DEF MapsOK, CountersOK, addLastFunction
<1> QED
  BY <1>1, <1>2, <1>3, <1>4, <1>5, <1>6 DEF LayoutNext, MapsOK, passLine, passArray,
     nextLine, layoutVars

LEMMA NextType ==
  ASSUME TypeOK, CurrentStarted, [LayoutNext]_layoutVars
  PROVE  TypeOK'
BY LoopsStep, CountersStep, MapsStep DEF TypeOK, LoopsOK, CountersOK, MapsOK

-----------------------------------------------------------------------------
(* A step does one of four things to the slots: it leaves them alone, or   *)
(* takes the next one below, for an owner q or for nothing, or starts a    *)
(* function that has none, or records the space of the last function.      *)
SlotsKept ==
  /\ \A f \in Functions : \A o \in Owners :
       \/ Offset(f, o)' = Offset(f, o)
       \/ f = currentFunctionLabel /\ Offset(f, o) = 0 /\ Offset(f, o)' > 0
  /\ UNCHANGED <<currentFunctionLabel, curLocalOffset, stackSpace, functionStackSpace>>

NewSlot(q) ==
  /\ Current
  /\ \A f \in Functions : \A o \in Owners :
       \/ Offset(f, o)' = Offset(f, o)
       \/ f = currentFunctionLabel /\ o = q /\ Offset(f, o)' = curLocalOffset
  /\ curLocalOffset' = curLocalOffset - OwnSize(q)
  /\ stackSpace' = stackSpace + OwnSize(q)
  /\ UNCHANGED <<currentFunctionLabel, functionStackSpace>>

LEMMA SizesPositive ==
  ASSUME NEW o \in Owners
  PROVE  OwnSize(o) \in {0, 4}
BY SizeType DEF OwnSize

LEMMA OffsetType ==
  ASSUME TypeOK, NEW f \in Functions, NEW o \in Owners
  PROVE  Offset(f, o) \in Int
BY DEF TypeOK, Offset, Owners

LEMMA OffsetsAlone ==
  ASSUME UNCHANGED <<variableStackOffset, arrayStackOffset>>,
         NEW f \in Functions, NEW o \in Owners
  PROVE  Offset(f, o)' = Offset(f, o)
BY DEF Offset

LEMMA VariablePlaced ==
  ASSUME TypeOK, Current, NEW v \in Vars, NEW n,
         variableStackOffset' =
           [variableStackOffset EXCEPT ![<<currentFunctionLabel, v>>] = n],
         UNCHANGED arrayStackOffset,
         NEW f \in Functions, NEW o \in Owners
  PROVE  Offset(f, o)' = IF f = currentFunctionLabel /\ o = v THEN n ELSE Offset(f, o)
BY DEF TypeOK, Offset, Owners, Current

LEMMA ArrayPlaced ==
  ASSUME TypeOK, Current, NEW a \in Arrays, NEW n,
         arrayStackOffset' = [arrayStackOffset EXCEPT ![<<currentFunctionLabel, a>>] = n],
         UNCHANGED variableStackOffset,
         NEW f \in Functions, NEW o \in Owners
  PROVE  Offset(f, o)' = IF f = currentFunctionLabel /\ o = a THEN n ELSE Offset(f, o)
BY LayoutAssumption DEF TypeOK, Offset, Owners, Current

LEMMA ParameterKeepsSlots ==
  ASSUME TypeOK, CurrentStarted, ParamsCounted, placeParameter
  PROVE  SlotsKept
<1> DEFINE v == codeLine.target
<1>1. v \in Vars /\ Current
  BY LineType, CurrentAtLine DEF placeParameter, IsNewTarget
<1>2. Offset(currentFunctionLabel, v) = 0 /\ curParamOffset > 0
  BY <1>1 DEF placeParameter, IsNewTarget, Offset, ParamsCounted, TypeOK
<1>3. ASSUME NEW f \in Functions, NEW o \in Owners
      PROVE  Offset(f, o)' = IF f = currentFunctionLabel /\ o = v THEN curParamOffset
                             ELSE Offset(f, o)
  <2>1. /\ variableStackOffset' =
              [variableStackOffset EXCEPT ![<<currentFunctionLabel, v>>] = curParamOffset]
        /\ UNCHANGED arrayStackOffset
    BY DEF placeParameter
  <2> HIDE DEF v
  <2> QED
    BY <1>1, <1>3, <2>1, VariablePlaced
<1> QED
  BY <1>2, <1>3 DEF SlotsKept, placeParameter

LEMMA LocalTakesSlot ==
  ASSUME TypeOK, CurrentStarted, placeLocal
  PROVE  codeLine.target \in Owners /\ NewSlot(codeLine.target)
<1> DEFINE v == codeLine.target
<1>1. v \in Vars /\ Current
  BY LineType, CurrentAtLine DEF placeLocal, IsNewTarget
<1>2. OwnSize(v) = getSize(TypeOf[v])
  BY <1>1 DEF OwnSize
<1>3. ASSUME NEW f \in Functions, NEW o \in Owners
      PROVE  Offset(f, o)' = IF f = currentFunctionLabel /\ o = v THEN curLocalOffset
                             ELSE Offset(f, o)
  <2>1. /\ variableStackOffset' =
              [variableStackOffset EXCEPT ![<<currentFunctionLabel, v>>] = curLocalOffset]
        /\ UNCHANGED arrayStackOffset
    BY DEF placeLocal
  <2> HIDE DEF v
  <2> QED
    BY <1>1, <1>3, <2>1, VariablePlaced
<1> QED
  BY <1>1, <1>2, <1>3 DEF NewSlot, placeLocal, Owners

LEMMA ArrayTakesSlot ==
  ASSUME TypeOK, CurrentStarted, placeArray \/ placeArrayAgain
  PROVE  arrDecl.array \in Owners /\ NewSlot(arrDecl.array)
<1> DEFINE a == arrDecl.array
<1>1. a \in Arrays /\ Current
  BY ArrayType, CurrentAtArray DEF placeArray, placeArrayAgain, AtArray
<1>2. OwnSize(a) = 4
  BY <1>1, LayoutAssumption DEF OwnSize
<1>3. ASSUME NEW f \in Functions, NEW o \in Owners
      PROVE  \/ Offset(f, o)' = Offset(f, o)
             \/ f = currentFunctionLabel /\ o = a /\ Offset(f, o)' = curLocalOffset
  <2>1. CASE UNCHANGED <<variableStackOffset, arrayStackOffset>>
    BY <2>1, OffsetsAlone
  <2>2. CASE /\ UNCHANGED variableStackOffset
             /\ arrayStackOffset' =
                  [arrayStackOffset EXCEPT ![<<currentFunctionLabel, a>>] = curLocalOffset]
    BY <1>1, <2>2, ArrayPlaced
  <2> QED
    BY <2>1, <2>2 DEF placeArray, placeArrayAgain
<1> QED
  BY <1>1, <1>2, <1>3 DEF NewSlot, placeArray, placeArrayAgain, Owners
-----------------------------------------------------------------------------
(* What a function has in its frame after each kind of step.               *)
LEMMA PlacedKept ==
  ASSUME TypeOK', SlotsKept, NEW f \in Functions, NEW o \in Placed(f)'
  PROVE  o \in Placed(f) /\ Offset(f, o)' = Offset(f, o)
<1>1. o \in Owners /\ Offset(f, o)' < 0
  BY DEF Placed
<1>2. Offset(f, o)' \in Int
  BY <1>1 DEF TypeOK, Offset, Owners
<1>3. Offset(f, o)' = Offset(f, o)
  BY <1>1, <1>2 DEF SlotsKept
<1> QED
  BY <1>1, <1>3 DEF Placed

LEMMA PlacedNew ==
  ASSUME NEW q \in Owners, NewSlot(q), NEW f \in Functions, NEW o \in Placed(f)'
  PROVE  \/ f = currentFunctionLabel /\ o = q /\ Offset(f, o)' = curLocalOffset
         \/ o \in Placed(f) /\ Offset(f, o)' = Offset(f, o)
<1>1. o \in Owners /\ Offset(f, o)' < 0
  BY DEF Placed
<1>2. \/ Offset(f, o)' = Offset(f, o)
      \/ f = currentFunctionLabel /\ o = q /\ Offset(f, o)' = curLocalOffset
  BY <1>1 DEF NewSlot
<1> QED
  BY <1>1, <1>2 DEF Placed

(* The invariants about slots, under a step that leaves them alone ...     *)
LEMMA KeptStep ==
  ASSUME TypeOK', SlotsInv, SlotsKept, nextArray' = -1 => nextArray = -1
  PROVE  SlotsInv'
<1>1. SpaceCounted'
  BY DEF SlotsInv, SlotsKept, SpaceCounted
<1>2. CurrentAbove'
  BY PlacedKept DEF SlotsInv, SlotsKept, CurrentAbove
<1>3. FinishedReserved'
  BY PlacedKept DEF SlotsInv, SlotsKept, FinishedReserved
<1>4. SlotsDisjoint'
  BY PlacedKept DEF SlotsInv, SlotsDisjoint
<1> QED
  BY <1>1, <1>2, <1>3, <1>4 DEF SlotsInv

(* ... and under one that takes the next slot.                             *)
LEMMA NewSlotStep ==
  ASSUME TypeOK, TypeOK', SlotsInv, NEW q \in Owners, NewSlot(q),
         nextArray # -1, nextArray' # -1
  PROVE  SlotsInv'
<1>1. OwnSize(q) \in {0, 4} /\ curLocalOffset \in Int
  BY SizesPositive DEF TypeOK
<1>2. \A f \in Functions : \A o \in Owners : Offset(f, o) \in Int
  BY OffsetType
<1>3. SpaceCounted'
  BY <1>1 DEF SlotsInv, NewSlot, SpaceCounted, TypeOK
<1>4. CurrentAbove'
  <2> SUFFICES ASSUME NEW f \in Functions, f = currentFunctionLabel,
                      NEW o \in Placed(f)'
               PROVE  InFrame(o, Offset(f, o)', curLocalOffset' + 4)
    BY DEF CurrentAbove, NewSlot, Current
  <2>1. curLocalOffset' = curLocalOffset - OwnSize(q)
    BY DEF NewSlot
  <2>2. CASE o = q /\ Offset(f, o)' = curLocalOffset
    BY <1>1, <2>1, <2>2 DEF SlotsInv, SpaceCounted, InFrame, Unsized
  <2>3. CASE o \in Placed(f) /\ Offset(f, o)' = Offset(f, o)
    <3>1. o \in Placed(f) /\ Offset(f, o)' = Offset(f, o)
      BY <2>3
    <3>2. InFrame(o, Offset(f, o), curLocalOffset + 4)
      BY <3>1 DEF SlotsInv, CurrentAbove
    <3>3. Offset(f, o) \in Int
      BY <1>2, <3>1 DEF Placed
    <3> QED
      BY <1>1, <2>1, <3>1, <3>2, <3>3 DEF InFrame
  <2> QED
    BY <2>2, <2>3, PlacedNew
<1>5. FinishedReserved'
  BY PlacedNew DEF SlotsInv, NewSlot, FinishedReserved
<1>6. SlotsDisjoint'
  <2> SUFFICES ASSUME NEW f \in Functions, NEW o \in Placed(f)', NEW p \in Placed(f)',
                      o # p
               PROVE  \/ Offset(f, o)' + 4 <= Offset(f, p)'
                      \/ Offset(f, p)' + 4 <= Offset(f, o)'
                      \/ Offset(f, o)' = Offset(f, p)' /\ (Unsized(o) \/ Unsized(p))
    BY DEF SlotsDisjoint
  <2> DEFINE Old(k) == k \in Placed(f) /\ Offset(f, k)' = Offset(f, k)
             New(k) == f = currentFunctionLabel /\ k = q /\ Offset(f, k)' = curLocalOffset
  <2>1. (Old(o) \/ New(o)) /\ (Old(p) \/ New(p)) /\ ~(New(o) /\ New(p))
    BY PlacedNew
  <2>2. CASE Old(o) /\ Old(p)
    BY <2>2 DEF SlotsInv, SlotsDisjoint
  <2>3. ASSUME NEW k \in Placed(f)', Old(k), f = currentFunctionLabel
        PROVE  \/ curLocalOffset + 4 <= Offset(f, k)'
               \/ Offset(f, k)' = curLocalOffset /\ Unsized(k)
    <3>1. InFrame(k, Offset(f, k)', curLocalOffset + 4)
      BY <2>3 DEF SlotsInv, CurrentAbove
    <3> QED
      BY <1>1, <3>1 DEF InFrame
  <2>4. CASE New(o) /\ Old(p)
    BY <2>3, <2>4
  <2>5. CASE Old(o) /\ New(p)
    BY <2>3, <2>5
  <2> QED
    BY <2>1, <2>2, <2>4, <2>5
<1> QED
  BY <1>3, <1>4, <1>5, <1>6 DEF SlotsInv
-----------------------------------------------------------------------------
(* A function that has started stays started; an ENTRY starts one that has *)
(* not, for its label is on no other line.                                 *)
LEMMA StartedKept ==
  ASSUME TypeOK, [LayoutNext]_layoutVars, NEW f \in Functions, Started(f)
  PROVE  Started(f)'
<1>1. at \in Int /\ nextArray \in Int /\ Len(code.lines) \in Nat /\ Len(code.arrays) \in Nat
  BY ProgramFacts DEF TypeOK
<1>2. code' = code
  BY DEF LayoutNext, enterFunction, placeParameter, placeLocal, passLine, placeArray,
     placeArrayAgain, passArray, nextLine, addLastFunction, layoutVars
<1>3. \/ at' = at + 1
      \/ at' = at /\ (nextArray # 0 => nextArray' # 0)
  BY <1>1 DEF LayoutNext, enterFunction, placeParameter, placeLocal, passLine, placeArray,
     placeArrayAgain, passArray, nextLine, addLastFunction, layoutVars, AtArray, AtLine
<1>4. PICK j \in 1 .. Len(code.lines) :
        /\ code.lines[j].op = "ENTRY" /\ code.lines[j].dest = f
        /\ j < at \/ (j = at /\ nextArray # 0)
  BY DEF Started
<1>5. j < at' \/ (j = at' /\ nextArray' # 0)
  BY <1>1, <1>3, <1>4
<1> QED
  BY <1>2, <1>4, <1>5 DEF Started

LEMMA EntryStarts ==
  ASSUME TypeOK, enterFunction, NEW f, f = codeLine.dest
  PROVE  f \in Functions /\ ~Started(f) /\ Started(f)'
<1>1. /\ at \in 1 .. Len(code.lines) /\ codeLine = code.lines[at]
      /\ codeLine.op = "ENTRY" /\ codeLine.dest \in Functions /\ nextArray = 0
  BY LineType DEF enterFunction, AtLine
<1>a. \A j \in 1 .. Len(code.lines) :
        code.lines[j].op = "ENTRY" /\ code.lines[j].dest = f => j = at
  BY <1>1, ProgramFacts
<1>b. at \in Int
  BY DEF TypeOK
<1>2. ~Started(f)
  BY <1>1, <1>a, <1>b DEF Started
<1>3. code' = code /\ at' = at /\ nextArray' = 1
  BY DEF enterFunction
<1> QED
  BY <1>1, <1>2, <1>3 DEF Started

LEMMA CurrentStartedStep ==
  ASSUME TypeOK, CurrentStarted, [LayoutNext]_layoutVars
  PROVE  CurrentStarted'
<1>1. at \in Nat \ {0} /\ nextArray \in Int /\ Len(code.lines) \in Nat
  BY ProgramFacts DEF TypeOK
<1>2. CASE enterFunction
  <2>1. PICK f : f = codeLine.dest
    OBVIOUS
  <2>2. f \in Functions /\ Started(f)'
    BY <1>2, <2>1, EntryStarts
  <2>3. currentFunctionLabel' = f /\ nextArray' = 1
    BY <1>2, <2>1 DEF enterFunction
  <2> QED
    BY <2>2, <2>3 DEF CurrentStarted, Started
<1>3. CASE UNCHANGED layoutVars
  BY <1>3 DEF layoutVars, CurrentStarted, Started
<1>4. CASE ~enterFunction /\ LayoutNext
  <2>1. currentFunctionLabel' = currentFunctionLabel
    BY <1>4 DEF LayoutNext, placeParameter, placeLocal, passLine, placeArray,
       placeArrayAgain, passArray, nextLine, addLastFunction
  <2>2. at # 1 \/ nextArray # 0
    <3>1. CASE at = 1 /\ nextArray = 0
      <4>1. codeLine.op = "ENTRY" /\ at # Len(code.lines) + 1
        BY <1>1, <3>1, ProgramFacts DEF codeLine
      <4>2. ~placeParameter /\ ~placeLocal /\ ~passLine
        BY <4>1 DEF placeParameter, placeLocal, passLine, IsNewTarget
      <4>3. ~placeArray /\ ~placeArrayAgain /\ ~passArray
        <5>1. ~AtArray
          BY <3>1 DEF AtArray
        <5> QED
          BY <5>1 DEF placeArray, placeArrayAgain, passArray
      <4>4. ~nextLine /\ ~addLastFunction
        <5>1. Len(code.arrays) \in Nat
          BY ProgramFacts DEF TypeOK
        <5> QED
          BY <3>1, <4>1, <5>1 DEF nextLine, addLastFunction
      <4> QED
        BY <1>4, <4>2, <4>3, <4>4 DEF LayoutNext
    <3> QED
      BY <3>1
  <2>3. currentFunctionLabel \in Functions /\ Started(currentFunctionLabel)
    BY <2>2 DEF CurrentStarted
  <2>4. Started(currentFunctionLabel)'
    BY <2>1, <2>3, StartedKept DEF Started
  <2>5. at' # 1 \/ nextArray' # 0
    <3>1. CASE placeArray \/ placeArrayAgain \/ passArray
      BY <1>1, <3>1 DEF placeArray, placeArrayAgain, passArray, AtArray
    <3>2. CASE placeParameter \/ placeLocal \/ passLine \/ nextLine \/ addLastFunction
      BY <1>1, <3>2 DEF placeParameter, placeLocal, passLine, nextLine, addLastFunction
    <3> QED
      BY <1>4, <3>1, <3>2 DEF LayoutNext
  <2> QED
    BY <2>1, <2>3, <2>4, <2>5 DEF CurrentStarted
<1> QED
  BY <1>2, <1>3, <1>4
-----------------------------------------------------------------------------
(* Which of the kinds of step each action is.                              *)
LEMMA QuietKeepsSlots ==
  ASSUME \/ passLine \/ passArray \/ nextLine \/ UNCHANGED layoutVars
  PROVE  SlotsKept /\ (nextArray' = -1 => nextArray = -1)
<1>1. UNCHANGED <<variableStackOffset, arrayStackOffset, currentFunctionLabel,
                  curLocalOffset, stackSpace, functionStackSpace>>
  BY DEF passLine, passArray, nextLine, layoutVars
<1>2. SlotsKept
  BY <1>1, OffsetsAlone DEF SlotsKept
<1>3. CASE passArray
  <2>1. nextArray \in 1 .. Len(code.arrays) /\ nextArray' = nextArray + 1
    BY <1>3 DEF passArray, AtArray
  <2> QED
    BY <1>2, <2>1
<1> QED
  BY <1>2, <1>3 DEF passLine, nextLine, layoutVars

LEMMA UnstartedStep ==
  ASSUME TypeOK, CurrentStarted, UnstartedEmpty, ParamsCounted, [LayoutNext]_layoutVars
  PROVE  UnstartedEmpty'
<1> SUFFICES ASSUME NEW f \in Functions, ~Started(f)'
             PROVE  /\ \A o \in Owners : Offset(f, o)' = 0
                    /\ functionVariables'[f] = <<>>
  BY DEF UnstartedEmpty, Owners
<1>1. ~Started(f)
  BY StartedKept
<1>2. (\A o \in Owners : Offset(f, o) = 0) /\ functionVariables[f] = <<>>
  BY <1>1 DEF UnstartedEmpty
<1>3. f # currentFunctionLabel
  BY <1>1, LayoutAssumption DEF CurrentStarted
<1>4. functionVariables \in [Functions -> Seq(Vars)]
  BY DEF TypeOK
<1>5. CASE enterFunction
  BY <1>2, <1>4, <1>5, OffsetsAlone DEF enterFunction
<1>6. CASE placeParameter
  BY <1>2, <1>3, <1>4, <1>6, ParameterKeepsSlots DEF placeParameter, SlotsKept
<1>7. CASE placeLocal
  BY <1>2, <1>3, <1>7, LocalTakesSlot DEF placeLocal, NewSlot
<1>8. CASE placeArray \/ placeArrayAgain
  BY <1>2, <1>3, <1>8, ArrayTakesSlot DEF placeArray, placeArrayAgain, NewSlot
<1>9. CASE passLine \/ passArray \/ nextLine \/ addLastFunction \/ UNCHANGED layoutVars
  BY <1>2, <1>9, OffsetsAlone
  DEF passLine, passArray, nextLine, addLastFunction, layoutVars
<1> QED
  BY <1>5, <1>6, <1>7, <1>8, <1>9 DEF LayoutNext

(* The function at hand is finished: its slots are within stackSpace.      *)
LEMMA EnterStep ==
  ASSUME TypeOK, TypeOK', CurrentStarted, UnstartedEmpty, SlotsInv, enterFunction
  PROVE  SlotsInv'
<1>1. PICK d : d = codeLine.dest
  OBVIOUS
<1>2. d \in Functions /\ ~Started(d)
  BY <1>1, EntryStarts
<1>3. /\ currentFunctionLabel' = d /\ nextArray' = 1 /\ nextArray = 0
      /\ curLocalOffset' = -4 /\ stackSpace' = 0
      /\ UNCHANGED <<variableStackOffset, arrayStackOffset>>
  BY <1>1 DEF enterFunction, initLocalOffset, AtLine
<1>4. \A f \in Functions : Placed(f)' = Placed(f)
  BY <1>3, OffsetsAlone DEF Placed
<1>5. \A f \in Functions : \A o \in Placed(f) :
        Offset(f, o)' = Offset(f, o) /\ Offset(f, o) \in Int
  BY <1>3, OffsetsAlone, OffsetType DEF Placed
<1>6. Placed(d) = {}
  BY <1>2 DEF UnstartedEmpty, Placed
<1>7. SpaceCounted'
  BY <1>3 DEF SpaceCounted
<1>8. CurrentAbove'
  <2> SUFFICES ASSUME NEW o \in Placed(d)'
               PROVE  FALSE
    BY <1>3 DEF CurrentAbove, Placed
  <2> QED
    BY <1>2, <1>4, <1>6
<1>9. FinishedReserved'
  <2> SUFFICES ASSUME NEW f \in Functions, NEW o \in Placed(f)'
               PROVE  InFrame(o, Offset(f, o)', -functionStackSpace'[f])
    BY DEF FinishedReserved
  <2>1. o \in Placed(f) /\ Offset(f, o)' = Offset(f, o) /\ Offset(f, o) \in Int
    BY <1>4, <1>5
  <2>2. CASE f = currentFunctionLabel
    <3>1. functionStackSpace'[f] = stackSpace
      BY <2>2 DEF enterFunction
    <3>2. InFrame(o, Offset(f, o), curLocalOffset + 4)
      BY <2>1, <2>2 DEF SlotsInv, CurrentAbove
    <3>3. stackSpace = -4 - curLocalOffset /\ curLocalOffset \in Int
      BY DEF SlotsInv, SpaceCounted, TypeOK
    <3>4. -functionStackSpace'[f] = curLocalOffset + 4
      BY <3>1, <3>3
    <3> QED
      BY <2>1, <3>2, <3>4
  <2>3. CASE f # currentFunctionLabel
    <3>1. functionStackSpace'[f] = functionStackSpace[f]
      BY <2>3 DEF enterFunction
    <3> QED
      BY <2>1, <2>3, <3>1 DEF SlotsInv, FinishedReserved
  <2> QED
    BY <2>2, <2>3
<1>10. SlotsDisjoint'
  BY <1>4, <1>5 DEF SlotsInv, SlotsDisjoint
<1> QED
  BY <1>7, <1>8, <1>9, <1>10 DEF SlotsInv

LEMMA LastStep ==
  ASSUME TypeOK, CurrentStarted, SlotsInv, addLastFunction
  PROVE  SlotsInv'
<1>1. /\ UNCHANGED <<variableStackOffset, arrayStackOffset, currentFunctionLabel,
                     curLocalOffset, stackSpace>>
      /\ nextArray = 0 /\ at # 1
  BY ProgramFacts DEF addLastFunction
<1>2. Current
  BY <1>1, CurrentAtArray
<1>3. \A f \in Functions : Placed(f)' = Placed(f)
  BY <1>1, OffsetsAlone DEF Placed
<1>4. \A f \in Functions : \A o \in Placed(f) :
        Offset(f, o)' = Offset(f, o) /\ Offset(f, o) \in Int
  BY <1>1, OffsetsAlone, OffsetType DEF Placed
<1>5. SpaceCounted'
  BY <1>1 DEF SlotsInv, SpaceCounted
<1>6. CurrentAbove'
  BY <1>1, <1>3, <1>4 DEF SlotsInv, CurrentAbove
<1>7. FinishedReserved'
  <2> SUFFICES ASSUME NEW f \in Functions, NEW o \in Placed(f)'
               PROVE  InFrame(o, Offset(f, o)', -functionStackSpace'[f])
    BY DEF FinishedReserved
  <2>1. o \in Placed(f) /\ Offset(f, o)' = Offset(f, o) /\ Offset(f, o) \in Int
    BY <1>3, <1>4
  <2>2. functionStackSpace \in [Functions -> Nat]
    BY DEF TypeOK
  <2>3. CASE f = currentFunctionLabel
    <3>1. functionStackSpace'[f] = stackSpace
      BY <2>2, <2>3 DEF addLastFunction
    <3>2. InFrame(o, Offset(f, o), curLocalOffset + 4)
      BY <2>1, <2>3 DEF SlotsInv, CurrentAbove
    <3>3. stackSpace = -4 - curLocalOffset /\ curLocalOffset \in Int
      BY DEF SlotsInv, SpaceCounted, TypeOK
    <3>4. -functionStackSpace'[f] = curLocalOffset + 4
      BY <3>1, <3>3
    <3> QED
      BY <2>1, <3>2, <3>4
  <2>4. CASE f # currentFunctionLabel
    <3>1. functionStackSpace'[f] = functionStackSpace[f]
      BY <2>2, <2>4 DEF addLastFunction
    <3> QED
      BY <2>1, <2>4, <3>1 DEF SlotsInv, FinishedReserved
  <2> QED
    BY <2>3, <2>4
<1>8. SlotsDisjoint'
  BY <1>3, <1>4 DEF SlotsInv, SlotsDisjoint
<1> QED
  BY <1>5, <1>6, <1>7, <1>8 DEF SlotsInv
-----------------------------------------------------------------------------
(* Parameters keep their offsets: only an owner without one gets one.      *)
Sized(p, n) == \A j \in 1 .. n : getSize(TypeOf[p[j]]) > 0

LEMMA ParamsAlone ==
  ASSUME ParamsInv,
         UNCHANGED <<variableStackOffset, functionVariables, curParamOffset,
                     currentFunctionLabel>>
  PROVE  ParamsInv'
BY DEF ParamsInv, ParamsCounted, ParametersWherePushed

LEMMA ParamsEnter ==
  ASSUME TypeOK, ParamsInv, enterFunction
  PROVE  ParamsInv'
<1>1. PICK d : d = codeLine.dest
  OBVIOUS
<1>2. d \in Functions
  BY <1>1, EntryStarts
<1>3. /\ currentFunctionLabel' = d /\ curParamOffset' = 8
      /\ variableStackOffset' = variableStackOffset
      /\ functionVariables' = [functionVariables EXCEPT ![d] = <<>>]
  BY <1>1 DEF enterFunction, initParamOffset
<1>4. functionVariables'[d] = <<>> /\ Len(functionVariables'[d]) = 0
  BY <1>2, <1>3 DEF TypeOK
<1>5. \A f \in Functions : f # d => functionVariables'[f] = functionVariables[f]
  BY <1>3 DEF TypeOK
<1>6. ParamsCounted'
  <2>1. ASSUME NEW f \in Functions, NEW i \in 1 .. Len(functionVariables'[f])
        PROVE  variableStackOffset'[<<f, functionVariables'[f][i]>>] >= 8
    BY <1>3, <1>4, <1>5, <2>1 DEF ParamsInv, ParamsCounted
  <2> QED
    BY <1>3, <1>4, <2>1 DEF ParamsCounted
<1>7. ParametersWherePushed'
  <2> SUFFICES ASSUME NEW f \in Functions, NEW i \in 1 .. Len(functionVariables'[f]),
                      \A j \in 1 .. i : getSize(TypeOf[functionVariables'[f][j]]) > 0
               PROVE  variableStackOffset'[<<f, functionVariables'[f][i]>>] = 8 + 4 * (i - 1)
    BY DEF ParametersWherePushed
  <2>1. f # d
    BY <1>4
  <2> QED
    BY <1>3, <1>5, <2>1 DEF ParamsInv, ParametersWherePushed
<1> QED
  BY <1>6, <1>7 DEF ParamsInv

LEMMA ParamsLocal ==
  ASSUME TypeOK, CurrentStarted, ParamsInv, placeLocal
  PROVE  ParamsInv'
<1> DEFINE v == codeLine.target
<1>1. v \in Vars /\ Current /\ variableStackOffset[<<currentFunctionLabel, v>>] = 0
  BY LineType, CurrentAtLine DEF placeLocal, IsNewTarget
<1>2. /\ UNCHANGED <<functionVariables, curParamOffset, currentFunctionLabel>>
      /\ variableStackOffset' =
           [variableStackOffset EXCEPT ![<<currentFunctionLabel, v>>] = curLocalOffset]
  BY DEF placeLocal
<1> HIDE DEF v
<1>3. ASSUME NEW f \in Functions, NEW i \in 1 .. Len(functionVariables[f])
      PROVE  variableStackOffset'[<<f, functionVariables[f][i]>>]
               = variableStackOffset[<<f, functionVariables[f][i]>>]
  <2>1. functionVariables[f] \in Seq(Vars)
    BY DEF TypeOK
  <2>2. functionVariables[f][i] \in Vars
    BY <2>1, ElementOfSeq
  <2>3. variableStackOffset[<<f, functionVariables[f][i]>>] >= 8
    BY DEF ParamsInv, ParamsCounted
  <2>4. <<f, functionVariables[f][i]>> # <<currentFunctionLabel, v>>
    BY <1>1, <2>3
  <2> QED
    BY <1>1, <1>2, <2>2, <2>4 DEF TypeOK, Current
<1>4. ParamsCounted'
  BY <1>2, <1>3 DEF ParamsInv, ParamsCounted
<1>5. ParametersWherePushed'
  BY <1>2, <1>3 DEF ParamsInv, ParametersWherePushed
<1> QED
  BY <1>4, <1>5 DEF ParamsInv

LEMMA ParamsPlace ==
  ASSUME TypeOK, CurrentStarted, ParamsInv, placeParameter
  PROVE  ParamsInv'
<1> DEFINE v == codeLine.target
           c == currentFunctionLabel
           n == Len(functionVariables[c])
<1>1. v \in Vars /\ c \in Functions /\ variableStackOffset[<<c, v>>] = 0
  BY LineType, CurrentAtLine DEF placeParameter, IsNewTarget, Current
<1>2. /\ currentFunctionLabel' = c
      /\ curParamOffset' = curParamOffset + getSize(TypeOf[v])
      /\ variableStackOffset' = [variableStackOffset EXCEPT ![<<c, v>>] = curParamOffset]
      /\ functionVariables' =
           [functionVariables EXCEPT ![c] = Append(functionVariables[c], v)]
  BY DEF placeParameter
<1>3. functionVariables \in [Functions -> Seq(Vars)] /\ curParamOffset \in Nat
      /\ variableStackOffset \in [Functions \X Vars -> Int]
  BY DEF TypeOK
<1>4. getSize(TypeOf[v]) \in {0, 4}
  BY <1>1, SizeType
<1>5. curParamOffset >= 8
  BY DEF ParamsInv, ParamsCounted
<1> HIDE DEF v, c
<1>6. /\ functionVariables'[c] = Append(functionVariables[c], v)
      /\ Len(functionVariables'[c]) = n + 1 /\ n \in Nat
      /\ functionVariables'[c][n + 1] = v
      /\ \A i \in 1 .. n : functionVariables'[c][i] = functionVariables[c][i]
  <2>1. functionVariables[c] \in Seq(Vars)
    BY <1>1, <1>3
  <2>2. functionVariables'[c] = Append(functionVariables[c], v)
    BY <1>1, <1>2, <1>3
  <2> QED
    BY <1>1, <2>1, <2>2, AppendProperties
<1>7. \A f \in Functions : f # c => functionVariables'[f] = functionVariables[f]
  BY <1>2, <1>3
<1> HIDE DEF n
<1>8. variableStackOffset'[<<c, v>>] = curParamOffset
  BY <1>1, <1>2, <1>3
<1>9. ASSUME NEW f \in Functions, NEW i \in 1 .. Len(functionVariables[f])
      PROVE  variableStackOffset'[<<f, functionVariables[f][i]>>]
               = variableStackOffset[<<f, functionVariables[f][i]>>]
  <2>1. functionVariables[f] \in Seq(Vars)
    BY <1>3
  <2>2. functionVariables[f][i] \in Vars
    BY <2>1, ElementOfSeq
  <2>3. variableStackOffset[<<f, functionVariables[f][i]>>] >= 8
    BY DEF ParamsInv, ParamsCounted
  <2>4. <<f, functionVariables[f][i]>> # <<c, v>>
    BY <1>1, <2>3
  <2> QED
    BY <1>1, <1>2, <1>3, <2>2, <2>4
<1>10. Sized(functionVariables'[c], n + 1) =>
         /\ Sized(functionVariables[c], n) /\ getSize(TypeOf[v]) = 4
  BY <1>4, <1>6 DEF Sized
<1>11. Sized(functionVariables[c], n) => curParamOffset = 8 + 4 * n
  BY <1>1 DEF ParamsInv, ParamsCounted, Sized, n, c
<1>12. ParamsCounted'
  <2>1. curParamOffset' >= 8
    BY <1>2, <1>3, <1>4, <1>5
  <2>2. ASSUME NEW f \in Functions, NEW i \in 1 .. Len(functionVariables'[f])
        PROVE  variableStackOffset'[<<f, functionVariables'[f][i]>>] >= 8
    <3>1. CASE f = c /\ i = n + 1
      BY <1>5, <1>6, <1>8, <3>1
    <3>2. CASE f # c \/ i # n + 1
      <4>1. /\ i \in 1 .. Len(functionVariables[f])
            /\ functionVariables'[f][i] = functionVariables[f][i]
        BY <1>6, <1>7, <2>2, <3>2 DEF n
      <4> QED
        BY <1>9, <4>1 DEF ParamsInv, ParamsCounted
    <3> QED
      BY <3>1, <3>2
  <2>3. Sized(functionVariables'[c], n + 1) => curParamOffset' = 8 + 4 * (n + 1)
    BY <1>2, <1>6, <1>10, <1>11
  <2> QED
    BY <1>2, <1>6, <2>1, <2>2, <2>3 DEF ParamsCounted, Sized
<1>13. ParametersWherePushed'
  <2> SUFFICES ASSUME NEW f \in Functions, NEW i \in 1 .. Len(functionVariables'[f]),
                      \A j \in 1 .. i : getSize(TypeOf[functionVariables'[f][j]]) > 0
               PROVE  variableStackOffset'[<<f, functionVariables'[f][i]>>] = 8 + 4 * (i - 1)
    BY DEF ParametersWherePushed
  <2>1. CASE f = c /\ i = n + 1
    <3>1. Sized(functionVariables'[c], n + 1)
      BY <2>1 DEF Sized
    <3> QED
      BY <1>6, <1>8, <1>10, <1>11, <2>1, <3>1
  <2>2. CASE f # c \/ i # n + 1
    <3>1. /\ i \in 1 .. Len(functionVariables[f])
          /\ \A j \in 1 .. i : functionVariables'[f][j] = functionVariables[f][j]
      BY <1>6, <1>7, <2>2 DEF n
    <3>2. functionVariables'[f][i] = functionVariables[f][i]
      BY <3>1
    <3>3. variableStackOffset[<<f, functionVariables[f][i]>>] = 8 + 4 * (i - 1)
      BY <3>1 DEF ParamsInv, ParametersWherePushed
    <3> QED
      BY <1>9, <3>1, <3>2, <3>3
  <2> QED
    BY <2>1, <2>2
<1> QED
  BY <1>12, <1>13 DEF ParamsInv
-----------------------------------------------------------------------------
(* The invariant holds at first, and every step keeps it.                  *)
LEMMA InitInv == LayoutInit => LayoutInv
<1> SUFFICES ASSUME LayoutInit
             PROVE  LayoutInv
  OBVIOUS
<1>1. TypeOK
  BY InitType
<1>2. /\ \A f \in Functions : \A o \in Owners : Offset(f, o) = 0
      /\ \A f \in Functions : functionVariables[f] = <<>>
  BY DEF LayoutInit, Offset, Owners
<1>3. \A f \in Functions : Placed(f) = {} /\ Len(functionVariables[f]) = 0
  BY <1>2 DEF Placed
<1>4. UnstartedEmpty
  BY <1>2 DEF UnstartedEmpty
<1>5. CurrentStarted
  BY DEF CurrentStarted, LayoutInit
<1>6. SlotsInv
  <2>1. SpaceCounted
    BY DEF LayoutInit, SpaceCounted, initLocalOffset
  <2>2. CurrentAbove /\ FinishedReserved /\ SlotsDisjoint
    BY <1>3 DEF CurrentAbove, FinishedReserved, SlotsDisjoint
  <2> QED
    BY <2>1, <2>2 DEF SlotsInv
<1>7. ParamsInv
  <2>1. curParamOffset = 8 /\ currentFunctionLabel \notin Functions
    BY LayoutAssumption DEF LayoutInit, initParamOffset
  <2>2. ParamsCounted
    BY <1>3, <2>1 DEF ParamsCounted
  <2>3. ParametersWherePushed
    BY <1>3 DEF ParametersWherePushed
  <2> QED
    BY <2>2, <2>3 DEF ParamsInv
<1> QED
  BY <1>1, <1>4, <1>5, <1>6, <1>7 DEF LayoutInv

LEMMA NextInv ==
  ASSUME LayoutInv, [LayoutNext]_layoutVars
  PROVE  LayoutInv'
<1>1. TypeOK /\ UnstartedEmpty /\ CurrentStarted /\ SlotsInv /\ ParamsInv /\ ParamsCounted
  BY DEF LayoutInv, ParamsInv
<1>2. TypeOK'
  BY <1>1, NextType
<1>3. UnstartedEmpty' /\ CurrentStarted'
  BY <1>1, UnstartedStep, CurrentStartedStep
<1>4. SlotsInv' /\ ParamsInv'
  <2>1. CASE enterFunction
    BY <1>1, <1>2, <2>1, EnterStep, ParamsEnter
  <2>2. CASE placeParameter
    <3>1. nextArray' # -1
      BY <2>2 DEF placeParameter
    <3> QED
      BY <1>1, <1>2, <2>2, <3>1, ParameterKeepsSlots, KeptStep, ParamsPlace
  <2>3. CASE placeLocal
    <3>1. nextArray # -1 /\ nextArray' # -1
      BY <2>3 DEF placeLocal, AtLine
    <3>2. PICK q : q = codeLine.target
      OBVIOUS
    <3>3. q \in Owners /\ NewSlot(q)
      BY <1>1, <2>3, <3>2, LocalTakesSlot DEF NewSlot
    <3> QED
      BY <1>1, <1>2, <2>3, <3>1, <3>3, NewSlotStep, ParamsLocal
  <2>4. CASE placeArray \/ placeArrayAgain
    <3>1. nextArray # -1 /\ nextArray' # -1
      <4>1. nextArray \in 1 .. Len(code.arrays) /\ nextArray' = nextArray + 1
        BY <2>4 DEF placeArray, placeArrayAgain, AtArray
      <4> QED
        BY <4>1
    <3>2. PICK q : q = arrDecl.array
      OBVIOUS
    <3>3. q \in Owners /\ NewSlot(q)
      BY <1>1, <2>4, <3>2, ArrayTakesSlot DEF NewSlot
    <3>4. ParamsInv'
      BY <1>1, <2>4, ParamsAlone DEF placeArray, placeArrayAgain
    <3> QED
      BY <1>1, <1>2, <3>1, <3>3, <3>4, NewSlotStep
  <2>5. CASE addLastFunction
    <3>1. ParamsInv'
      BY <1>1, <2>5, ParamsAlone DEF addLastFunction
    <3> QED
      BY <1>1, <2>5, <3>1, LastStep
  <2>6. CASE passLine \/ passArray \/ nextLine \/ UNCHANGED layoutVars
    <3>1. ParamsInv'
      BY <1>1, <2>6, ParamsAlone DEF passLine, passArray, nextLine, layoutVars
    <3> QED
      BY <1>1, <1>2, <2>6, <3>1, QuietKeepsSlots, KeptStep
  <2> QED
    BY <2>1, <2>2, <2>3, <2>4, <2>5, <2>6 DEF LayoutNext
<1> QED
  BY <1>2, <1>3, <1>4 DEF LayoutInv

LEMMA InvHolds == LayoutSpec => []LayoutInv
BY InitInv, NextInv, PTL DEF LayoutSpec

-----------------------------------------------------------------------------
(* The maps, counters and loop positions of analyzeStackUsages stay in     *)
(* their ranges; in particular a target is never placed before the first   *)
(* function.                                                               *)
THEOREM TypeCorrect == LayoutSpec => []TypeOK
<1>1. LayoutInv => TypeOK
  BY DEF LayoutInv
<1> QED
  BY <1>1, InvHolds, PTL

(* No two owners of a function overlap in its frame, but that an owner of  *)
(* size 0, a BOOL, may share its word with others: never do two that have  *)
(* a size.                                                                 *)
THEOREM DisjointCorrect == LayoutSpec => []SlotsDisjoint
<1>1. LayoutInv => SlotsDisjoint
  BY DEF LayoutInv, SlotsInv
<1> QED
  BY <1>1, InvHolds, PTL

(* When the analysis returns, the space the prologue will reserve covers   *)
(* every slot of every function, but for a BOOL with nothing behind it,    *)
(* which lies in the very next word.                                       *)
THEOREM ReservedCorrect == LayoutSpec => []SlotsReserved
<1>1. LayoutInv => SlotsReserved
  <2> SUFFICES ASSUME LayoutInv, LayoutDone, NEW f \in Functions, NEW o \in Placed(f)
               PROVE  InFrame(o, Offset(f, o), -functionStackSpace[f])
    BY DEF SlotsReserved, InFrame
  <2> QED
    BY DEF LayoutInv, SlotsInv, FinishedReserved, LayoutDone
<1> QED
  BY <1>1, InvHolds, PTL

(* A parameter is looked for where the caller has pushed it.               *)
THEOREM ParametersCorrect == LayoutSpec => []ParametersWherePushed
<1>1. LayoutInv => ParametersWherePushed
  BY DEF LayoutInv, ParamsInv
<1> QED
  BY <1>1, InvHolds, PTL

(* What Gas does to offsets and reserved space is what analyzeStackUsages  *)
(* does: nothing touches them while lines are converted and code runs, so  *)
(* that the theorems about LayoutSpec hold of Spec.                        *)
THEOREM LayoutKeptByGas == Spec => LayoutSpec
<1>1. Init => LayoutInit
  BY DEF Init
<1>2. [Next]_vars => [LayoutNext]_layoutVars
  <2> SUFFICES ASSUME [Next]_vars PROVE LayoutNext \/ UNCHANGED layoutVars
    OBVIOUS
  <2>1. CASE layout
    BY <2>1 DEF layout
  <2>2. CASE startConversion \/ convert \/ start \/ execute \/ fault \/ halt
    BY <2>2 DEF startConversion, convert, start, execute, fault, halt
  <2>3. CASE UNCHANGED vars
    BY <2>3 DEF vars
  <2> QED
    BY <2>1, <2>2, <2>3 DEF Next
<1> QED
  BY <1>1, <1>2, PTL DEF Spec, LayoutSpec

-----------------------------------------------------------------------------
(* Sequences with a piece put in.                                          *)
Inserted(a, pos, s) == SubSeq(a, 1, pos) \o s \o SubSeq(a, pos + 1, Len(a))

InsertedFacts(a, pos, s, b) ==
  /\ Len(b) = Len(a) + Len(s)
  /\ \A k \in 1 .. pos : b[k] = a[k]
  /\ \A k \in 1 .. Len(s) : b[pos + k] = s[k]
  /\ \A k \in pos + 1 .. Len(a) : b[k + Len(s)] = a[k]

LEMMA Joined ==
  ASSUME NEW S, NEW u \in Seq(S), NEW w \in Seq(S)
  PROVE  /\ u \o w \in Seq(S) /\ Len(u \o w) = Len(u) + Len(w)
         /\ \A k \in 1 .. Len(u) : (u \o w)[k] = u[k]
         /\ \A k \in 1 .. Len(w) : (u \o w)[Len(u) + k] = w[k]
  OBVIOUS

LEMMA InsertedAt ==
  ASSUME NEW S, NEW a \in Seq(S), NEW s \in Seq(S), NEW pos \in 0 .. Len(a)
  PROVE  Inserted(a, pos, s) \in Seq(S) /\ InsertedFacts(a, pos, s, Inserted(a, pos, s))
<1> DEFINE u == SubSeq(a, 1, pos)
           w == SubSeq(a, pos + 1, Len(a))
           t == u \o s
           b == t \o w
<1>1. u \in Seq(S) /\ Len(u) = pos /\ \A k \in 1 .. pos : u[k] = a[k]
  OBVIOUS
<1>2. w \in Seq(S) /\ Len(w) = Len(a) - pos /\ \A k \in 1 .. Len(a) - pos : w[k] = a[pos + k]
  OBVIOUS
<1> HIDE DEF u, w
<1>3. /\ t \in Seq(S) /\ Len(t) = pos + Len(s)
      /\ \A k \in 1 .. pos : t[k] = u[k]
      /\ \A k \in 1 .. Len(s) : t[pos + k] = s[k]
  BY <1>1
<1> HIDE DEF t
<1>4. /\ b \in Seq(S) /\ Len(b) = Len(a) + Len(s)
      /\ \A k \in 1 .. pos + Len(s) : b[k] = t[k]
      /\ \A k \in 1 .. Len(a) - pos : b[pos + Len(s) + k] = w[k]
  <2>1. /\ b \in Seq(S) /\ Len(b) = Len(t) + Len(w)
        /\ \A k \in 1 .. Len(t) : b[k] = t[k]
        /\ \A k \in 1 .. Len(w) : b[Len(t) + k] = w[k]
    <3>1. t \in Seq(S) /\ w \in Seq(S)
      BY <1>2, <1>3
    <3> HIDE DEF b
    <3>2. b = t \o w
      BY DEF b
    <3> QED
      BY <3>1, <3>2, Joined
  <2>2. Len(s) \in Nat /\ Len(a) \in Nat /\ pos \in Nat
    OBVIOUS
  <2> HIDE DEF b
  <2>3. Len(t) = pos + Len(s) /\ Len(w) = Len(a) - pos
    BY <1>2, <1>3
  <2>4. (pos + Len(s)) + (Len(a) - pos) = Len(a) + Len(s)
    BY <2>2
  <2>5. Len(b) = Len(a) + Len(s)
    BY <2>1, <2>3, <2>4
  <2> QED
    BY <2>1, <2>3, <2>5
<1>5. b = Inserted(a, pos, s)
  BY DEF Inserted, u, t, w
<1> HIDE DEF b
<1>6. Len(s) \in Nat /\ Len(a) \in Nat /\ pos \in Nat
  OBVIOUS
<1>7. \A k \in 1 .. pos : b[k] = a[k]
  BY <1>1, <1>3, <1>4, <1>6
<1>8. \A k \in 1 .. Len(s) : b[pos + k] = s[k]
  <2> TAKE k \in 1 .. Len(s)
  <2>1. pos + k \in 1 .. pos + Len(s)
    BY <1>6
  <2> QED
    BY <1>3, <1>4, <2>1
<1>9. \A k \in pos + 1 .. Len(a) : b[k + Len(s)] = a[k]
  <2> TAKE k \in pos + 1 .. Len(a)
  <2> DEFINE j == k - pos
  <2>1. j \in 1 .. Len(a) - pos /\ k = pos + j /\ k + Len(s) = pos + Len(s) + j
    BY <1>6
  <2> HIDE DEF j
  <2> QED
    BY <1>2, <1>4, <2>1
<1> QED
  BY <1>4, <1>5, <1>7, <1>8, <1>9 DEF InsertedFacts

(* A piece at the end.                                                     *)
LEMMA InsertedLast ==
  ASSUME NEW S, NEW a \in Seq(S), NEW s \in Seq(S)
  PROVE  a \o s \in Seq(S) /\ InsertedFacts(a, Len(a), s, a \o s)
  BY DEF InsertedFacts

-----------------------------------------------------------------------------
(* The instructions that are emitted.                                      *)
RegisterNames == Registers \cup {""}

OperandKinds == {"reg", "mem", "imm", "fc", "none"}

MachineOperands == [k : OperandKinds, r : RegisterNames, n : Int]

Destinations == {""} \cup {code.lines[i].dest : i \in DOMAIN code.lines}

PlainNames ==
  {"MOV", "ADD", "SUB", "IMUL", "IDIV", "CDQ", "NEG", "NOT", "CMP", "PUSH", "SAVE",
   "RESTORE", "FLD", "FCHS", "FSTP", "FPOP", "FXCH", "FUCOMIP",
   "FADDP", "FSUBP", "FMULP", "FDIVP"}

Instructions ==
  [i : PlainNames \cup ConditionalJumps \cup {"LABEL", "CALL", "RET", "JMP"},
   a : MachineOperands, b : MachineOperands, dest : Destinations]

IsRegister(o, r) == o.k = "reg" /\ o.r = r

(* Keep EBP, and assign nothing to ESP.                                    *)
PlainInstructions ==
  {i \in Instructions :
     /\ i.i \in PlainNames
     /\ ~IsRegister(i.a, "EBP")
     /\ ~(i.i = "MOV" /\ IsRegister(i.a, "ESP"))}

SaveFrame == Ins("SAVE", Reg("EBP"), NoOp)
SetFrame == Ins("MOV", Reg("EBP"), Reg("ESP"))
DropFrame == Ins("MOV", Reg("ESP"), Reg("EBP"))
RestoreFrame == Ins("RESTORE", Reg("EBP"), NoOp)
LeaveFunction == Ins("RET", NoOp, NoOp)

FrameInstructions == {SaveFrame, SetFrame, DropFrame, RestoreFrame, LeaveFunction}

LabelOf(f, dest) ==
  \E j \in LabelLines(code) : code.lines[j].dest = dest /\ FunctionOf(j) = f

IsJump(f, i) == i.i \in ConditionalJumps \cup {"JMP"} /\ LabelOf(f, i.dest)
IsCall(f, i) ==
  i.i = "CALL" /\ <<f, i.dest>> \in StaticCallGraph.edge /\ i.dest \in Entered(code)
IsLabel(f, i) == i.i = "LABEL" /\ LabelOf(f, i.dest)
EntersFunction(i) == i.i = "LABEL" /\ i.dest \in Functions
Ends(i) == i.i \in {"RET", "JMP"}

(* What may stand in the code of function f.                               *)
Fits(f, i) ==
  \/ i \in PlainInstructions \cup FrameInstructions
  \/ IsJump(f, i) \/ IsCall(f, i) \/ IsLabel(f, i)
  \/ EntersFunction(i) /\ i.dest = f

GoesOn(i) == ~EntersFunction(i) /\ i \notin {SaveFrame, DropFrame, RestoreFrame}
Inside(i) == ~EntersFunction(i) /\ i \notin FrameInstructions \ {DropFrame}

Follows(i, j) ==
  /\ EntersFunction(i) => j = SaveFrame
  /\ i = SaveFrame => j = SetFrame
  /\ i = DropFrame => j = RestoreFrame
  /\ i = RestoreFrame => j = LeaveFunction
  /\ GoesOn(i) => Inside(j)

(* The function each instruction belongs to; NoLabel for code behind a     *)
(* return or a jump, up to the next label.                                 *)
Open(asm, own) == Len(asm) > 0 /\ own[Len(asm)] # NoLabel /\ ~Ends(asm[Len(asm)])

CodeOf(asm, own) ==
  /\ own \in [1 .. Len(asm) -> Functions \cup {NoLabel}]
  /\ \A k \in 1 .. Len(asm) : own[k] # NoLabel => Fits(own[k], asm[k])
  /\ \A k \in 1 .. Len(asm) : asm[k].i = "LABEL" => own[k] # NoLabel
  /\ \A k \in 1 .. Len(asm) - 1 :
       own[k] # NoLabel /\ ~Ends(asm[k]) =>
         own[k + 1] = own[k] /\ Follows(asm[k], asm[k + 1])

(* The code goes on in the function f.                                     *)
GoesOnIn(asm, own, f) ==
  Open(asm, own) => own[Len(asm)] = f /\ GoesOn(asm[Len(asm)])

LEMMA Names86 ==
  /\ "" \in RegisterNames /\ \A r \in Registers : r \in RegisterNames
  /\ "reg" \in OperandKinds /\ "mem" \in OperandKinds /\ "imm" \in OperandKinds
  /\ "fc" \in OperandKinds /\ "none" \in OperandKinds
  BY DEF RegisterNames, OperandKinds

LEMMA MakesOperand ==
  ASSUME NEW k \in OperandKinds, NEW r \in RegisterNames, NEW n \in Int
  PROVE  [k |-> k, r |-> r, n |-> n] \in MachineOperands
  BY DEF MachineOperands

LEMMA MakesPlace ==
  ASSUME NEW k \in OperandKinds, NEW r \in RegisterNames
  PROVE  [k |-> k, r |-> r, n |-> 0] \in MachineOperands
  BY DEF MachineOperands

LEMMA FrameTypes ==
  FrameInstructions \subseteq Instructions
<1>1. /\ Reg("EBP") \in MachineOperands /\ Reg("ESP") \in MachineOperands
      /\ NoOp \in MachineOperands /\ "" \in Destinations
  <2>1. "EBP" \in Registers /\ "ESP" \in Registers
    BY DEF Registers
  <2>2. "EBP" \in RegisterNames /\ "ESP" \in RegisterNames /\ "" \in RegisterNames
    BY <2>1, Names86
  <2>3. "" \in Destinations
    BY DEF Destinations
  <2> QED
    BY <2>2, <2>3, Names86, MakesPlace DEF Reg, NoOp
<1> DEFINE N == PlainNames \cup ConditionalJumps \cup {"LABEL", "CALL", "RET", "JMP"}
           D == Destinations
           O == MachineOperands
<1>2. "SAVE" \in N /\ "MOV" \in N /\ "RESTORE" \in N /\ "RET" \in N
  BY DEF PlainNames
<1>3. \A x \in N : \A a, b \in O : Ins(x, a, b) \in Instructions
  <2>1. Instructions = [i : N, a : O, b : O, dest : D]
    BY DEF Instructions
  <2>2. "" \in D
    BY <1>1
  <2> HIDE DEF N, D, O
  <2> QED
    BY <2>1, <2>2 DEF Ins
<1> HIDE DEF N
<1> QED
  BY <1>1, <1>2, <1>3
  DEF FrameInstructions, SaveFrame, SetFrame, DropFrame, RestoreFrame, LeaveFunction

LEMMA FramesDiffer ==
  /\ SaveFrame.i = "SAVE" /\ SetFrame.i = "MOV" /\ DropFrame.i = "MOV"
  /\ RestoreFrame.i = "RESTORE" /\ LeaveFunction.i = "RET"
  /\ SetFrame.a = Reg("EBP") /\ DropFrame.a = Reg("ESP") /\ Reg("EBP") # Reg("ESP")
  /\ SaveFrame.a = Reg("EBP") /\ RestoreFrame.a = Reg("EBP")
  /\ SetFrame.b = Reg("ESP") /\ DropFrame.b = Reg("EBP")
<1>1. Reg("EBP").r = "EBP" /\ Reg("ESP").r = "ESP"
  BY DEF Reg
<1> QED
  BY <1>1 DEF SaveFrame, SetFrame, DropFrame, RestoreFrame, LeaveFunction, Ins

LEMMA BeforeInside ==
  ASSUME NEW i, NEW j, Follows(i, j), Inside(j)
  PROVE  GoesOn(i)
<1>1. /\ SaveFrame # DropFrame /\ SetFrame # DropFrame /\ RestoreFrame # DropFrame
      /\ LeaveFunction # DropFrame
  BY FramesDiffer
<1> QED
  BY <1>1 DEF Follows, GoesOn, Inside, FrameInstructions

LEMMA PlainInside ==
  ASSUME NEW i \in PlainInstructions
  PROVE  Inside(i) /\ GoesOn(i) /\ ~Ends(i) /\ i.i # "LABEL" /\ i \in Instructions
<1>1. i.i \in PlainNames /\ i \in Instructions
  BY DEF PlainInstructions
<1>2. i.i # "LABEL" /\ i.i # "RET" /\ i.i # "JMP"
  BY <1>1 DEF PlainNames
<1>3. i # SaveFrame /\ i # SetFrame /\ i # RestoreFrame
  <2>1. IsRegister(Reg("EBP"), "EBP")
    BY DEF IsRegister, Reg
  <2>2. SaveFrame.a = Reg("EBP") /\ SetFrame.a = Reg("EBP") /\ RestoreFrame.a = Reg("EBP")
    BY DEF SaveFrame, SetFrame, RestoreFrame, Ins
  <2> QED
    BY <2>1, <2>2 DEF PlainInstructions
<1>4. i # DropFrame /\ i # LeaveFunction
  <2>1. IsRegister(Reg("ESP"), "ESP")
    BY DEF IsRegister, Reg
  <2>2. DropFrame.a = Reg("ESP") /\ DropFrame.i = "MOV" /\ LeaveFunction.i = "RET"
    BY DEF DropFrame, LeaveFunction, Ins
  <2> QED
    BY <1>2, <2>1, <2>2 DEF PlainInstructions
<1> QED
  BY <1>1, <1>2, <1>3, <1>4 DEF Inside, GoesOn, Ends, EntersFunction, FrameInstructions

(* A piece put into code, if it continues what is in front of it and is    *)
(* continued by what is behind.                                            *)
Piece(s, e) ==
  /\ Len(s) > 0
  /\ e # NoLabel => \A k \in 1 .. Len(s) : Fits(e, s[k])
  /\ e # NoLabel =>
       \A k \in 1 .. Len(s) - 1 : ~Ends(s[k]) /\ Follows(s[k], s[k + 1])
  /\ \A k \in 1 .. Len(s) : s[k].i = "LABEL" => e # NoLabel

Continues(asm, own, pos, s, e) ==
  /\ pos > 0 /\ own[pos] # NoLabel /\ ~Ends(asm[pos]) =>
       e = own[pos] /\ Follows(asm[pos], s[1])
  /\ pos < Len(asm) /\ e # NoLabel /\ ~Ends(s[Len(s)]) =>
       own[pos + 1] = e /\ Follows(s[Len(s)], asm[pos + 1])

LEMMA PutIn ==
  ASSUME NEW asm \in Seq(Instructions), NEW own, CodeOf(asm, own),
         NEW s \in Seq(Instructions), NEW e \in Functions \cup {NoLabel}, Piece(s, e),
         NEW pos \in 0 .. Len(asm), Continues(asm, own, pos, s, e),
         NEW new \in Seq(Instructions), InsertedFacts(asm, pos, s, new)
  PROVE  \E own2 : /\ CodeOf(new, own2)
                   /\ own2[Len(new)] = IF pos = Len(asm) THEN e ELSE own[Len(asm)]
<1> DEFINE n == Len(asm)
           m == Len(s)
           z == Len(new)
           own2 == [k \in 1 .. z |-> IF k <= pos THEN own[k]
                                     ELSE IF k <= pos + m THEN e ELSE own[k - m]]
<1>1. n \in Nat /\ m \in Nat /\ m > 0 /\ z = n + m /\ pos \in 0 .. n /\ z \in Nat
  BY DEF InsertedFacts, Piece
<1>2. /\ \A k \in 1 .. pos : new[k] = asm[k]
      /\ \A k \in 1 .. m : new[pos + k] = s[k]
      /\ \A k \in pos + 1 .. n : new[k + m] = asm[k]
  BY DEF InsertedFacts
<1>3. /\ own \in [1 .. n -> Functions \cup {NoLabel}]
      /\ \A k \in 1 .. n : own[k] # NoLabel => Fits(own[k], asm[k])
      /\ \A k \in 1 .. n : asm[k].i = "LABEL" => own[k] # NoLabel
      /\ \A k \in 1 .. n - 1 :
           own[k] # NoLabel /\ ~Ends(asm[k]) =>
             own[k + 1] = own[k] /\ Follows(asm[k], asm[k + 1])
  BY DEF CodeOf
<1>4. /\ e # NoLabel => \A k \in 1 .. m : Fits(e, s[k])
      /\ e # NoLabel => \A k \in 1 .. m - 1 : ~Ends(s[k]) /\ Follows(s[k], s[k + 1])
      /\ \A k \in 1 .. m : s[k].i = "LABEL" => e # NoLabel
  BY DEF Piece
<1>5. /\ pos > 0 /\ own[pos] # NoLabel /\ ~Ends(asm[pos]) =>
           e = own[pos] /\ Follows(asm[pos], s[1])
      /\ pos < n /\ e # NoLabel /\ ~Ends(s[m]) =>
           own[pos + 1] = e /\ Follows(s[m], asm[pos + 1])
  BY DEF Continues
<1> HIDE DEF n, m
<1>6. /\ \A k \in 1 .. pos : own2[k] = own[k]
      /\ \A k \in 1 .. m : own2[pos + k] = e
      /\ \A k \in pos + 1 .. n : own2[k + m] = own[k]
  <2>1. ASSUME NEW k \in 1 .. pos PROVE own2[k] = own[k]
    BY <1>1
  <2>2. ASSUME NEW k \in 1 .. m PROVE own2[pos + k] = e
    BY <1>1
  <2>3. ASSUME NEW k \in pos + 1 .. n PROVE own2[k + m] = own[k]
    <3> DEFINE j == k + m
    <3>1. j \in 1 .. z /\ ~(j <= pos) /\ ~(j <= pos + m) /\ j - m = k
      BY <1>1
    <3> HIDE DEF j
    <3>2. own2[j] = own[j - m]
      BY <3>1
    <3> QED
      BY <3>1, <3>2 DEF j
  <2> QED
    BY <2>1, <2>2, <2>3
<1>7. own2 \in [1 .. z -> Functions \cup {NoLabel}]
  <2>1. ASSUME NEW k \in 1 .. z, ~(k <= pos), ~(k <= pos + m)
        PROVE  own[k - m] \in Functions \cup {NoLabel}
    <3>1. k - m \in 1 .. n
      BY <1>1, <2>1
    <3> QED
      BY <1>3, <3>1
  <2>2. ASSUME NEW k \in 1 .. z, k <= pos PROVE own[k] \in Functions \cup {NoLabel}
    BY <1>1, <1>3, <2>2
  <2> QED
    BY <2>1, <2>2
<1> HIDE DEF z, own2
<1>8. ASSUME NEW k \in 1 .. z
      PROVE  \/ k \in 1 .. pos /\ k \in 1 .. n
             \/ \E j \in 1 .. m : k = pos + j
             \/ \E j \in pos + 1 .. n : k = j + m /\ j \in 1 .. n
  <2>1. CASE k <= pos
    BY <1>1, <2>1
  <2>2. CASE k > pos /\ k <= pos + m
    <3>1. k - pos \in 1 .. m /\ k = pos + (k - pos)
      BY <1>1, <2>2
    <3> QED
      BY <3>1
  <2>3. CASE k > pos + m
    <3>1. k - m \in pos + 1 .. n /\ k - m \in 1 .. n /\ k = (k - m) + m
      BY <1>1, <2>3
    <3> QED
      BY <3>1
  <2> QED
    BY <1>1, <2>1, <2>2, <2>3
<1>9. ASSUME NEW k \in 1 .. z
      PROVE  /\ own2[k] # NoLabel => Fits(own2[k], new[k])
             /\ new[k].i = "LABEL" => own2[k] # NoLabel
  <2>1. CASE k \in 1 .. pos /\ k \in 1 .. n
    BY <1>2, <1>3, <1>6, <2>1
  <2>2. CASE \E j \in 1 .. m : k = pos + j
    BY <1>2, <1>4, <1>6, <2>2
  <2>3. CASE \E j \in pos + 1 .. n : k = j + m /\ j \in 1 .. n
    BY <1>2, <1>3, <1>6, <2>3
  <2> QED
    BY <1>8, <2>1, <2>2, <2>3
<1>10. ASSUME NEW k \in 1 .. z - 1, own2[k] # NoLabel, ~Ends(new[k])
       PROVE  own2[k + 1] = own2[k] /\ Follows(new[k], new[k + 1])
  <2>1. CASE k < pos
    <3>1. k \in 1 .. pos /\ k + 1 \in 1 .. pos /\ k \in 1 .. n - 1
      BY <1>1, <2>1
    <3> QED
      BY <1>2, <1>3, <1>6, <1>10, <3>1
  <2>2. CASE k = pos
    <3>1. pos > 0 /\ k \in 1 .. pos /\ 1 \in 1 .. m
      BY <1>1, <2>2
    <3>2. own2[k] = own[pos] /\ new[k] = asm[pos] /\ own2[k + 1] = e /\ new[k + 1] = s[1]
      BY <1>2, <1>6, <2>2, <3>1
    <3> QED
      BY <1>5, <1>10, <3>1, <3>2
  <2>3. CASE k > pos /\ k < pos + m
    <3> DEFINE j == k - pos
    <3>1. j \in 1 .. m - 1 /\ j \in 1 .. m /\ j + 1 \in 1 .. m /\ k = pos + j /\ k + 1 = pos + (j + 1)
      BY <1>1, <2>3
    <3> HIDE DEF j
    <3>2. own2[k] = e /\ new[k] = s[j] /\ own2[k + 1] = e /\ new[k + 1] = s[j + 1]
      BY <1>2, <1>6, <3>1
    <3> QED
      BY <1>4, <1>10, <3>1, <3>2
  <2>4. CASE k = pos + m
    <3>1. pos < n /\ m \in 1 .. m /\ pos + 1 \in pos + 1 .. n /\ k + 1 = (pos + 1) + m
      BY <1>1, <2>4
    <3>2. own2[k] = e /\ new[k] = s[m] /\ own2[k + 1] = own[pos + 1] /\ new[k + 1] = asm[pos + 1]
      BY <1>2, <1>6, <2>4, <3>1
    <3> QED
      BY <1>5, <1>10, <3>1, <3>2
  <2>5. CASE k > pos + m
    <3> DEFINE j == k - m
    <3>1. /\ j \in pos + 1 .. n /\ j + 1 \in pos + 1 .. n /\ j \in 1 .. n - 1
          /\ k = j + m /\ k + 1 = (j + 1) + m
      BY <1>1, <2>5
    <3> HIDE DEF j
    <3>2. own2[k] = own[j] /\ new[k] = asm[j] /\ own2[k + 1] = own[j + 1] /\ new[k + 1] = asm[j + 1]
      BY <1>2, <1>6, <3>1
    <3> QED
      BY <1>3, <1>10, <3>1, <3>2
  <2> QED
    BY <1>1, <2>1, <2>2, <2>3, <2>4, <2>5
<1>11. own2[z] = IF pos = n THEN e ELSE own[n]
  <2>1. CASE pos = n
    <3>1. m \in 1 .. m /\ z = pos + m
      BY <1>1, <2>1
    <3> QED
      BY <1>6, <2>1, <3>1
  <2>2. CASE pos # n
    <3>1. n \in pos + 1 .. n /\ z = n + m
      BY <1>1, <2>2
    <3> QED
      BY <1>6, <2>2, <3>1
  <2> QED
    BY <2>1, <2>2
<1> QED
  BY <1>7, <1>9, <1>10, <1>11 DEF CodeOf, z, n

(* The code of f goes on, or is closed by a return or a jump.              *)
InCode(asm, f) == \E own : CodeOf(asm, own) /\ GoesOnIn(asm, own, f)
Closed(asm) == \E own : CodeOf(asm, own) /\ ~Open(asm, own)

LEMMA NothingPutIn ==
  ASSUME NEW asm \in Seq(Instructions), NEW pos \in 0 .. Len(asm),
         NEW new \in Seq(Instructions), InsertedFacts(asm, pos, <<>>, new)
  PROVE  new = asm
<1>1. Len(new) = Len(asm) /\ Len(asm) \in Nat
  BY DEF InsertedFacts
<1>2. ASSUME NEW k \in 1 .. Len(asm) PROVE new[k] = asm[k]
  <2>1. \A j \in pos + 1 .. Len(asm) : new[j + 0] = asm[j]
    BY DEF InsertedFacts
  <2>2. \A j \in 1 .. pos : new[j] = asm[j]
    BY DEF InsertedFacts
  <2>3. CASE k <= pos
    <3>1. k \in 1 .. pos
      BY <1>1, <2>3
    <3> QED
      BY <2>2, <3>1
  <2>4. CASE k > pos
    <3>1. k \in pos + 1 .. Len(asm) /\ k + 0 = k
      BY <1>1, <2>4
    <3> QED
      BY <2>1, <3>1
  <2> QED
    BY <1>1, <2>3, <2>4
<1> QED
  BY <1>1, <1>2, SeqEqual

LEMMA PlainPieces ==
  ASSUME NEW s \in Seq(PlainInstructions), NEW e, Len(s) > 0
  PROVE  Piece(s, e) /\ s \in Seq(Instructions)
<1>1. \A k \in 1 .. Len(s) : s[k] \in PlainInstructions
  OBVIOUS
<1>2. \A k \in 1 .. Len(s) : /\ Fits(e, s[k]) /\ s[k].i # "LABEL" /\ s[k] \in Instructions
                             /\ ~Ends(s[k]) /\ GoesOn(s[k]) /\ Inside(s[k])
  BY <1>1, PlainInside DEF Fits
<1>3. \A k \in 1 .. Len(s) - 1 : k \in 1 .. Len(s) /\ k + 1 \in 1 .. Len(s)
  OBVIOUS
<1>4. s \in Seq(Instructions)
  <2>1. PlainInstructions \subseteq Instructions
    BY DEF PlainInstructions
  <2> QED
    BY <2>1
<1>5. \A k \in 1 .. Len(s) - 1 : ~Ends(s[k]) /\ Follows(s[k], s[k + 1])
  BY <1>2, <1>3 DEF Follows, GoesOn
<1> QED
  BY <1>2, <1>4, <1>5 DEF Piece

(* Plain instructions may be put in wherever code goes on.                 *)
LEMMA PlainPut ==
  ASSUME NEW asm \in Seq(Instructions), NEW own, CodeOf(asm, own),
         NEW f \in Functions, GoesOnIn(asm, own, f),
         NEW s \in Seq(PlainInstructions), NEW pos \in 0 .. Len(asm),
         pos < Len(asm) => Inside(asm[pos + 1]),
         NEW new \in Seq(Instructions), InsertedFacts(asm, pos, s, new)
  PROVE  \E own2 : /\ CodeOf(new, own2) /\ GoesOnIn(new, own2, f)
                   /\ Open(new, own2) => Open(asm, own)
<1>1. CASE s = <<>>
  <2>1. new = asm
    BY <1>1, NothingPutIn
  <2> QED
    BY <2>1
<1>2. CASE s # <<>>
  <2> DEFINE n == Len(asm)
             m == Len(s)
             e == IF pos < n THEN own[pos + 1]
                  ELSE IF Open(asm, own) THEN f ELSE NoLabel
  <2>1. n \in Nat /\ m \in Nat /\ m > 0 /\ pos \in 0 .. n /\ Len(new) = n + m
    BY <1>2 DEF InsertedFacts
  <2>2. /\ own \in [1 .. n -> Functions \cup {NoLabel}]
        /\ \A k \in 1 .. n - 1 :
             own[k] # NoLabel /\ ~Ends(asm[k]) =>
               own[k + 1] = own[k] /\ Follows(asm[k], asm[k + 1])
    BY DEF CodeOf
  <2>3. Piece(s, e) /\ s \in Seq(Instructions)
    BY <2>1, PlainPieces
  <2>4. 1 \in 1 .. m /\ m \in 1 .. m
    BY <2>1
  <2>5. /\ Inside(s[1]) /\ GoesOn(s[m]) /\ ~Ends(s[m])
    <3>1. s[1] \in PlainInstructions /\ s[m] \in PlainInstructions
      BY <2>4
    <3> QED
      BY <3>1, PlainInside
  <2>6. e \in Functions \cup {NoLabel}
    <3>1. pos < n => pos + 1 \in 1 .. n
      BY <2>1
    <3> HIDE DEF n
    <3> QED
      BY <2>2, <3>1
  <2>7. ASSUME pos > 0, own[pos] # NoLabel, ~Ends(asm[pos])
        PROVE  e = own[pos] /\ Follows(asm[pos], s[1])
    <3>1. CASE pos < n
      <4>1. pos \in 1 .. n - 1
        BY <2>1, <2>7, <3>1
      <4>2. own[pos + 1] = own[pos] /\ Follows(asm[pos], asm[pos + 1]) /\ Inside(asm[pos + 1])
        BY <2>2, <2>7, <3>1, <4>1
      <4>3. GoesOn(asm[pos])
        BY <4>2, BeforeInside
      <4> QED
        BY <2>5, <3>1, <4>2, <4>3 DEF Follows, GoesOn
    <3>2. CASE pos = n
      <4>1. Open(asm, own)
        BY <2>7, <3>2 DEF Open
      <4>2. own[n] = f /\ GoesOn(asm[n])
        BY <4>1 DEF GoesOnIn
      <4> QED
        BY <2>1, <2>5, <3>2, <4>1, <4>2 DEF Follows, GoesOn
    <3> QED
      BY <2>1, <3>1, <3>2
  <2>8. Continues(asm, own, pos, s, e)
    BY <2>5, <2>7 DEF Continues, Follows, GoesOn
  <2> HIDE DEF e
  <2>9. PICK own2 : CodeOf(new, own2) /\ own2[Len(new)] = IF pos = n THEN e ELSE own[n]
    BY <2>3, <2>6, <2>8, PutIn
  <2>10. CASE pos = n
    <3>1. new[Len(new)] = s[m]
      BY <2>1, <2>4, <2>10 DEF InsertedFacts
    <3>2. Open(new, own2) => Open(asm, own) /\ e = f
      BY <2>1, <2>9, <2>10 DEF Open, e
    <3> QED
      BY <2>5, <2>9, <2>10, <3>1, <3>2 DEF GoesOnIn
  <2>11. CASE pos # n
    <3>1. new[Len(new)] = asm[n]
      <4>1. n \in pos + 1 .. n /\ Len(new) = n + m
        BY <2>1, <2>11
      <4> QED
        BY <4>1 DEF InsertedFacts
    <3>2. own2[Len(new)] = own[n] /\ n > 0
      BY <2>1, <2>9, <2>11
    <3> QED
      BY <2>9, <3>1, <3>2 DEF GoesOnIn, Open
  <2> QED
    BY <2>10, <2>11
<1> QED
  BY <1>1, <1>2

-----------------------------------------------------------------------------
(* Operands and the generator.                                             *)
LayoutKnown == TypeOK /\ colors \in [Vars -> Nat]

SafeOperands == {o \in MachineOperands : ~IsRegister(o, "EBP") /\ ~IsRegister(o, "ESP")}

DeclaredArrays ==
  [f : Functions \cup {NoLabel}, array : Arrays, length : MachineOperands]

LastOperators == LogicOps \cup {"NOP"}

GasStates ==
  [asm : Seq(Instructions), tmpToggle : BOOLEAN, lastOperator : LastOperators,
   resultAvailable : BOOLEAN, declaredArrays : Seq(DeclaredArrays),
   currentFunction : Functions \cup {NoLabel}, constantFloats : Seq(Int),
   failed : BOOLEAN]

(* The generator h comes from g by plain instructions at the end.          *)
Appends(g, h) ==
  /\ h \in GasStates
  /\ h.currentFunction = g.currentFunction /\ h.lastOperator = g.lastOperator
  /\ \E s \in Seq(PlainInstructions) : h.asm = g.asm \o s

AppendsSome(g, h) == Appends(g, h) /\ Len(h.asm) > Len(g.asm)

Loads(g, r) == Appends(g, r.g) /\ r.o \in SafeOperands

LEMMA PlainSubset ==
  PlainInstructions \subseteq Instructions
  BY DEF PlainInstructions

LEMMA Operands86 ==
  /\ \A r \in Registers \ {"EBP", "ESP"} : Reg(r) \in SafeOperands
  /\ \A r \in Registers : Reg(r) \in MachineOperands
  /\ \A n \in Int : Mem(n) \in SafeOperands /\ Imm(n) \in SafeOperands
                    /\ FloatConstant(n) \in SafeOperands
  /\ \A o \in SafeOperands : Deref(o) \in SafeOperands
  /\ NoOp \in SafeOperands
  /\ SafeOperands \subseteq MachineOperands
<1>2. \A r \in Registers : Reg(r) \in MachineOperands
  BY Names86, MakesPlace DEF Reg
<1>1. \A r \in Registers \ {"EBP", "ESP"} : Reg(r) \in SafeOperands
  BY <1>2 DEF SafeOperands, Reg, IsRegister
<1>3. "EBP" \in RegisterNames /\ "" \in RegisterNames
  <2>1. "EBP" \in Registers
    BY DEF Registers
  <2> QED
    BY <2>1, Names86
<1>4. ASSUME NEW n \in Int
      PROVE  Mem(n) \in SafeOperands /\ Imm(n) \in SafeOperands /\ FloatConstant(n) \in SafeOperands
  <2>1. Mem(n) \in MachineOperands /\ Mem(n).k = "mem"
    BY <1>3, Names86, MakesOperand DEF Mem
  <2>2. Imm(n) \in MachineOperands /\ Imm(n).k = "imm"
    BY <1>3, Names86, MakesOperand DEF Imm
  <2>3. FloatConstant(n) \in MachineOperands /\ FloatConstant(n).k = "fc"
    BY <1>3, Names86, MakesOperand DEF FloatConstant
  <2> QED
    BY <2>1, <2>2, <2>3 DEF SafeOperands, IsRegister
<1>5. ASSUME NEW o \in SafeOperands PROVE Deref(o) \in SafeOperands
  <2>1. o.r \in RegisterNames
    BY DEF SafeOperands, MachineOperands
  <2>2. Deref(o) \in MachineOperands /\ Deref(o).k = "mem"
    BY <2>1, Names86, MakesPlace DEF Deref
  <2> QED
    BY <2>2 DEF SafeOperands, IsRegister
<1>6. NoOp \in SafeOperands
  <2>1. NoOp \in MachineOperands /\ NoOp.k = "none"
    BY <1>3, Names86, MakesPlace DEF NoOp
  <2> QED
    BY <2>1 DEF SafeOperands, IsRegister
<1> QED
  BY <1>1, <1>2, <1>4, <1>5, <1>6 DEF SafeOperands

LEMMA Emits ==
  ASSUME NEW name \in PlainNames, NEW a \in SafeOperands, NEW b \in MachineOperands
  PROVE  Ins(name, a, b) \in PlainInstructions
<1>1. Ins(name, a, b) \in Instructions
  BY DEF Ins, Instructions, SafeOperands, Destinations
<1>2. Ins(name, a, b).i = name /\ Ins(name, a, b).a = a
  BY DEF Ins
<1> QED
  BY <1>1, <1>2 DEF PlainInstructions, SafeOperands

(* ESP is moved by a number of bytes.                                      *)
LEMMA EmitsMove ==
  ASSUME NEW name \in {"ADD", "SUB"}, NEW b \in MachineOperands
  PROVE  Ins(name, Reg("ESP"), b) \in PlainInstructions
<1>1. Reg("ESP") \in MachineOperands
  BY Operands86 DEF Registers
<1>2. Ins(name, Reg("ESP"), b) \in Instructions
  BY <1>1 DEF Ins, Instructions, Destinations, PlainNames
<1>3. Ins(name, Reg("ESP"), b).i = name /\ Ins(name, Reg("ESP"), b).a = Reg("ESP")
  BY DEF Ins
<1>4. ~IsRegister(Reg("ESP"), "EBP")
  BY DEF IsRegister, Reg
<1>5. name # "MOV" /\ name \in PlainNames
  BY DEF PlainNames
<1> QED
  BY <1>2, <1>3, <1>4, <1>5 DEF PlainInstructions

LEMMA TmpSafe ==
  ASSUME NEW g PROVE Tmp(g) \in SafeOperands
  BY Operands86 DEF Tmp, Registers

LEMMA AppendsItself ==
  ASSUME NEW g \in GasStates PROVE Appends(g, g)
<1>1. g.asm = g.asm \o <<>> /\ <<>> \in Seq(PlainInstructions)
  BY DEF GasStates
<1> QED
  BY <1>1 DEF Appends

LEMMA AppendsOn ==
  ASSUME NEW g \in GasStates, NEW h, NEW k, Appends(g, h), Appends(h, k)
  PROVE  /\ Appends(g, k) /\ Len(g.asm) <= Len(h.asm) /\ Len(h.asm) <= Len(k.asm)
         /\ AppendsSome(g, h) \/ AppendsSome(h, k) => AppendsSome(g, k)
<1>1. PICK s \in Seq(PlainInstructions) : h.asm = g.asm \o s
  BY DEF Appends
<1>2. PICK t \in Seq(PlainInstructions) : k.asm = h.asm \o t
  BY DEF Appends
<1>3. g.asm \in Seq(Instructions) /\ s \in Seq(Instructions) /\ t \in Seq(Instructions)
  BY PlainSubset DEF GasStates
<1>4. k.asm = g.asm \o (s \o t) /\ s \o t \in Seq(PlainInstructions)
  <2>1. s \o t \in Seq(PlainInstructions)
    BY Joined
  <2>2. (g.asm \o s) \o t = g.asm \o (s \o t)
    <3> DEFINE a == g.asm
    <3>1. a \in Seq(Instructions)
      BY <1>3
    <3> HIDE DEF a
    <3>2. (a \o s) \o t = a \o (s \o t)
      BY <1>3, <3>1, ConcatAssociative
    <3> QED
      BY <3>2 DEF a
  <2> QED
    BY <1>1, <1>2, <2>1, <2>2
<1>5. Len(h.asm) = Len(g.asm) + Len(s) /\ Len(k.asm) = Len(h.asm) + Len(t)
  BY <1>1, <1>2, <1>3
<1>6. Len(g.asm) \in Nat /\ Len(s) \in Nat /\ Len(t) \in Nat
  BY <1>3
<1>7. Len(g.asm) <= Len(h.asm) /\ Len(h.asm) <= Len(k.asm)
      /\ (Len(h.asm) > Len(g.asm) \/ Len(k.asm) > Len(h.asm) => Len(k.asm) > Len(g.asm))
  BY <1>5, <1>6
<1>8. Appends(g, k)
  BY <1>4 DEF Appends
<1> QED
  BY <1>7, <1>8 DEF AppendsSome

LEMMA Emitted ==
  ASSUME NEW g \in GasStates, NEW s \in Seq(PlainInstructions)
  PROVE  Appends(g, addMnemonics(g, s)) /\ (s # <<>> => AppendsSome(g, addMnemonics(g, s)))
<1> DEFINE h == addMnemonics(g, s)
<1>1. s \in Seq(Instructions) /\ g.asm \in Seq(Instructions)
  BY PlainSubset DEF GasStates
<1>2. g.asm \o s \in Seq(Instructions) /\ Len(g.asm \o s) = Len(g.asm) + Len(s)
      /\ Len(g.asm) \in Nat /\ Len(s) \in Nat /\ (s # <<>> => Len(s) > 0)
  BY <1>1
<1>3. h \in GasStates
  BY <1>2 DEF addMnemonics, GasStates
<1>4. h.asm = g.asm \o s
  BY <1>2 DEF addMnemonics, GasStates
<1>5. h.currentFunction = g.currentFunction /\ h.lastOperator = g.lastOperator
  BY <1>2 DEF addMnemonics, GasStates
<1>6. Appends(g, h)
  BY <1>3, <1>4, <1>5 DEF Appends
<1>7. s # <<>> => Len(h.asm) > Len(g.asm)
  BY <1>2, <1>4
<1> QED
  BY <1>6, <1>7 DEF AppendsSome

LEMMA EmittedOne ==
  ASSUME NEW g \in GasStates, NEW i \in PlainInstructions
  PROVE  AppendsSome(g, addMnemonic(g, i))
<1>1. <<i>> \in Seq(PlainInstructions) /\ <<i>> # <<>>
  OBVIOUS
<1> QED
  BY <1>1, Emitted DEF addMnemonic

LEMMA Toggled ==
  ASSUME NEW g \in GasStates PROVE Appends(g, toggled(g))
<1>1. toggled(g) \in GasStates
  BY DEF toggled, GasStates
<1>2. toggled(g).asm = g.asm
      /\ toggled(g).currentFunction = g.currentFunction
      /\ toggled(g).lastOperator = g.lastOperator
  BY DEF toggled, GasStates
<1> QED
  BY <1>1, <1>2, AppendsItself DEF Appends

LEMMA FloatCreated ==
  ASSUME NEW g \in GasStates, NEW n \in Int
  PROVE  /\ Appends(g, createFloatConstant(g, n))
         /\ Len(createFloatConstant(g, n).constantFloats) \in Int
<1>1. createFloatConstant(g, n) \in GasStates
  <2>1. Append(g.constantFloats, n) \in Seq(Int)
    BY DEF GasStates
  <2> QED
    BY <2>1 DEF createFloatConstant, GasStates
<1>2. /\ createFloatConstant(g, n).asm = g.asm
      /\ createFloatConstant(g, n).currentFunction = g.currentFunction
      /\ createFloatConstant(g, n).lastOperator = g.lastOperator
  BY DEF createFloatConstant, GasStates
<1>3. createFloatConstant(g, n).constantFloats \in Seq(Int)
  BY <1>1 DEF GasStates
<1>4. Len(createFloatConstant(g, n).constantFloats) \in Int
  BY <1>3
<1> QED
  BY <1>1, <1>2, <1>4, AppendsItself DEF Appends

LEMMA AppendsState ==
  ASSUME NEW g, NEW h, Appends(g, h) PROVE h \in GasStates
  BY DEF Appends

LEMMA VariableLocation ==
  ASSUME LayoutKnown, NEW f \in Functions, NEW v \in Vars
  PROVE  getLocationForVariable(f, v) \in SafeOperands
<1>1. variableStackOffset[<<f, v>>] \in Int
  BY DEF LayoutKnown, TypeOK
<1>2. getColor(v) \in Nat
  BY GasAssumption DEF getColor, LayoutKnown
<1>3. ASSUME NEW c \in Nat, c < NumRegisters PROVE getRegister(c) \in SafeOperands
  <2>1. c \in 0 .. 3
    BY <1>3, GasAssumption
  <2>2. <<"ECX", "EDX", "ESI", "EDI">>[c + 1] \in Registers \ {"EBP", "ESP"}
    <3>1. CASE c = 0 BY <3>1 DEF Registers
    <3>2. CASE c = 1 BY <3>2 DEF Registers
    <3>3. CASE c = 2 BY <3>3 DEF Registers
    <3>4. CASE c = 3 BY <3>4 DEF Registers
    <3> QED
      BY <2>1, <3>1, <3>2, <3>3, <3>4
  <2> QED
    BY <2>2, Operands86 DEF getRegister
<1> QED
  BY <1>1, <1>2, <1>3, Operands86 DEF getLocationForVariable, isColor

LEMMA ArrayLocation ==
  ASSUME LayoutKnown, NEW f \in Functions, NEW a \in Arrays
  PROVE  getLocationForArray(f, a) \in SafeOperands
<1>1. arrayStackOffset[<<f, a>>] \in Int
  BY DEF LayoutKnown, TypeOK
<1> QED
  BY <1>1, Operands86 DEF getLocationForArray

-----------------------------------------------------------------------------
(* What the converters emit inside a function.                             *)
InFunction(g) == g \in GasStates /\ g.currentFunction \in Functions

LEMMA AppendsIn ==
  ASSUME NEW g, InFunction(g), NEW h, Appends(g, h)
  PROVE  InFunction(h)
  BY DEF InFunction, Appends

LEMMA LoadedOperand ==
  ASSUME NEW g \in GasStates, NEW o \in SafeOperands, NEW reg \in SafeOperands
  PROVE  Loads(g, Loaded(g, o, reg))
<1>1. CASE reg = NoOp
  <2>1. Loaded(g, o, reg).g = g /\ Loaded(g, o, reg).o = o
    BY <1>1 DEF Loaded
  <2> QED
    BY <2>1, AppendsItself DEF Loads
<1>2. CASE reg # NoOp
  <2>1. Loaded(g, o, reg).g = addMnemonic(g, Ins("MOV", reg, o)) /\ Loaded(g, o, reg).o = reg
    BY <1>2 DEF Loaded
  <2>2. Ins("MOV", reg, o) \in PlainInstructions
    BY Emits, Operands86 DEF PlainNames
  <2>3. Appends(g, addMnemonic(g, Ins("MOV", reg, o)))
    BY <2>2, EmittedOne DEF AppendsSome
  <2> QED
    BY <2>1, <2>3 DEF Loads
<1> QED
  BY <1>1, <1>2

LEMMA ScalarLoads ==
  ASSUME LayoutKnown, NEW g, InFunction(g), NEW op \in Scalars, NEW reg \in SafeOperands
  PROVE  Loads(g, loadPlain(g, op, reg))
<1>1. g \in GasStates /\ g.currentFunction \in Functions
  BY DEF InFunction
<1>2. CASE op.k = "var"
  <2>1. op.v \in Vars
    BY <1>2 DEF Scalars
  <2>2. loadPlain(g, op, reg) = Loaded(g, getLocationForVariable(g.currentFunction, op.v), reg)
    BY <1>2 DEF loadPlain
  <2> QED
    BY <1>1, <2>1, <2>2, VariableLocation, LoadedOperand
<1>3. CASE op.k = "int"
  <2>1. op.n \in Int
    BY <1>3 DEF Scalars
  <2>2. loadPlain(g, op, reg) = Loaded(g, Imm(op.n), reg)
    BY <1>3 DEF loadPlain
  <2>3. Imm(op.n) \in SafeOperands
    BY <2>1, Operands86
  <2> QED
    BY <1>1, <2>2, <2>3, LoadedOperand
<1>4. CASE op.k = "float"
  <2> DEFINE c == createFloatConstant(g, op.n)
             o == FloatConstant(Len(c.constantFloats))
  <2>1. op.n \in Int
    BY <1>4 DEF Scalars
  <2>2. loadPlain(g, op, reg) = Loaded(c, o, reg)
    BY <1>4 DEF loadPlain
  <2>3. Appends(g, c) /\ Len(c.constantFloats) \in Int
    BY <1>1, <2>1, FloatCreated
  <2> HIDE DEF c
  <2>4. o \in SafeOperands
    BY <2>3, Operands86
  <2> HIDE DEF o
  <2>5. Loads(c, Loaded(c, o, reg))
    BY <2>3, <2>4, AppendsState, LoadedOperand
  <2>6. Appends(g, Loaded(c, o, reg).g)
    BY <1>1, <2>3, <2>5, AppendsOn DEF Loads
  <2> QED
    BY <2>2, <2>5, <2>6 DEF Loads
<1>5. op.k \in {"var", "int", "float"}
  BY DEF Scalars
<1> QED
  BY <1>2, <1>3, <1>4, <1>5

LEMMA ElementLoads ==
  ASSUME LayoutKnown, NEW g, InFunction(g), NEW op \in Operands, op.k = "elem",
         NEW reg \in SafeOperands
  PROVE  Loads(g, loadElement(g, op, reg)) /\ AppendsSome(g, loadElement(g, op, reg).g)
<1> DEFINE g1 == IF reg = NoOp THEN toggled(g) ELSE g
           r  == IF reg = NoOp THEN Tmp(g1) ELSE reg
           pos == loadPlain(g1, op.pos, NoOp)
           low == getLocationForArray(g.currentFunction, op.array)
           s == <<Ins("MOV", r, pos.o), Ins("IMUL", r, Imm(4)),
                  Ins("SUB", r, low), Ins("NEG", r, NoOp)>>
           a == addMnemonics(pos.g, s)
<1>1. g \in GasStates /\ g.currentFunction \in Functions
  BY DEF InFunction
<1>2. op.pos \in Scalars /\ op.array \in Arrays
  BY DEF Operands, Scalars
<1>3. Appends(g, g1)
  BY <1>1, Toggled, AppendsItself
<1>4. r \in SafeOperands
  BY TmpSafe
<1>5. low \in SafeOperands
  BY <1>1, <1>2, ArrayLocation
<1>6. loadElement(g, op, reg) = Loaded(a, Deref(r), reg)
  BY DEF loadElement
<1> HIDE DEF g1, r, low
<1>7. InFunction(g1)
  BY <1>3, AppendsIn
<1>8. Loads(g1, pos)
  BY <1>2, <1>7, ScalarLoads, Operands86
<1> HIDE DEF pos
<1>9. Appends(g, pos.g) /\ pos.o \in SafeOperands /\ pos.g \in GasStates
  BY <1>1, <1>3, <1>8, AppendsOn, AppendsState DEF Loads
<1>10. s \in Seq(PlainInstructions) /\ s # <<>>
  <2>1. /\ pos.o \in MachineOperands /\ low \in MachineOperands
        /\ NoOp \in MachineOperands /\ Imm(4) \in MachineOperands
    BY <1>5, <1>9, Operands86
  <2>2. "MOV" \in PlainNames /\ "IMUL" \in PlainNames /\ "SUB" \in PlainNames /\ "NEG" \in PlainNames
    BY DEF PlainNames
  <2>3. Ins("MOV", r, pos.o) \in PlainInstructions /\ Ins("IMUL", r, Imm(4)) \in PlainInstructions
    BY <1>4, <2>1, <2>2, Emits
  <2>4. Ins("SUB", r, low) \in PlainInstructions /\ Ins("NEG", r, NoOp) \in PlainInstructions
    BY <1>4, <2>1, <2>2, Emits
  <2> QED
    BY <2>3, <2>4
<1> HIDE DEF s
<1>11. AppendsSome(pos.g, a)
  BY <1>9, <1>10, Emitted
<1> HIDE DEF a
<1>12. a \in GasStates /\ AppendsSome(g, a)
  BY <1>1, <1>9, <1>11, AppendsOn, AppendsState DEF AppendsSome
<1>13. Loads(a, Loaded(a, Deref(r), reg))
  BY <1>4, <1>12, Operands86, LoadedOperand
<1> QED
  BY <1>1, <1>6, <1>12, <1>13, AppendsOn DEF Loads, AppendsSome

LEMMA OperandLoads ==
  ASSUME LayoutKnown, NEW g, InFunction(g), NEW op \in Operands, NEW reg \in SafeOperands
  PROVE  Loads(g, loadOperand(g, op, reg))
<1>1. CASE op.k = "elem"
  BY <1>1, ElementLoads DEF loadOperand
<1>2. CASE op.k # "elem"
  <2>1. op \in Scalars
    BY <1>2 DEF Operands
  <2> QED
    BY <1>2, <2>1, ScalarLoads DEF loadOperand
<1> QED
  BY <1>1, <1>2

LEMMA OperandStored ==
  ASSUME LayoutKnown, NEW g, InFunction(g), NEW v \in Vars, NEW o \in SafeOperands
  PROVE  AppendsSome(g, storeOperandFromRegister(g, v, o))
<1> DEFINE loc == getLocationForVariable(g.currentFunction, v)
           t == toggled(g)
           s == <<Ins("MOV", Tmp(t), o), Ins("MOV", loc, Tmp(t))>>
<1>1. g \in GasStates /\ g.currentFunction \in Functions
  BY DEF InFunction
<1>2. loc \in SafeOperands
  BY <1>1, VariableLocation
<1>3. "MOV" \in PlainNames
  BY DEF PlainNames
<1>4. \A a, b \in SafeOperands : Ins("MOV", a, b) \in PlainInstructions
  BY <1>3, Emits, Operands86
<1>5. storeOperandFromRegister(g, v, o) \in {addMnemonics(t, s), addMnemonic(g, Ins("MOV", loc, o))}
  BY DEF storeOperandFromRegister
<1>6. AppendsSome(g, addMnemonic(g, Ins("MOV", loc, o)))
  BY <1>1, <1>2, <1>4, EmittedOne
<1>7. AppendsSome(g, addMnemonics(t, s))
  <2>1. Appends(g, t) /\ t \in GasStates
    BY <1>1, Toggled, AppendsState
  <2>2. s \in Seq(PlainInstructions) /\ s # <<>>
    BY <1>2, <1>4, TmpSafe
  <2> HIDE DEF t, s
  <2>3. AppendsSome(t, addMnemonics(t, s))
    BY <2>1, <2>2, Emitted
  <2> QED
    BY <1>1, <2>1, <2>3, AppendsOn DEF AppendsSome
<1> QED
  BY <1>5, <1>6, <1>7

-----------------------------------------------------------------------------
(* Recursion over 0 .. n, and induction.                                   *)
Descending == {p \in Nat \X Nat : p[1] < p[2]}

LEMMA Least ==
  ASSUME NEW T \in SUBSET Nat, T # {}
  PROVE  \E x \in T : \A y \in T : x <= y
<1>1. Descending = OpToRel(<, Nat)
  BY Zenon DEF Descending, OpToRel
<1>2. IsWellFoundedOn(Descending, Nat)
  BY <1>1, NatLessThanWellFounded, Zenon
<1>3. PICK x \in T : \A y \in T : ~(<<y, x>> \in Descending)
  BY <1>2, WFMin, Zenon
<1>4. ASSUME NEW y \in T PROVE x <= y
  <2>1. ~(y < x)
    BY <1>3 DEF Descending
  <2> QED
    BY <2>1
<1> QED
  BY <1>4

LEMMA UpTo ==
  ASSUME NEW n \in Nat, NEW T, 0 \in T, \A k \in 1 .. n : k - 1 \in T => k \in T
  PROVE  \A k \in 0 .. n : k \in T
<1> DEFINE U == {k \in 0 .. n : k \notin T}
<1> SUFFICES ASSUME U # {} PROVE FALSE
  OBVIOUS
<1>1. U \in SUBSET Nat
  OBVIOUS
<1>2. PICK k \in U : \A j \in U : k <= j
  <2> HIDE DEF U
  <2> QED
    BY <1>1, Least
<1>3. k \in 1 .. n /\ k - 1 \in 0 .. n /\ ~(k <= k - 1) /\ k \notin T
  BY <1>2
<1>4. k - 1 \notin U
  <2> HIDE DEF U
  <2> QED
    BY <1>2, <1>3
<1>5. k - 1 \in T
  BY <1>3, <1>4
<1> QED
  BY <1>3, <1>5

Walks(n, S, a, step) ==
  {f \in [0 .. n -> S] : f[0] = a /\ \A k \in 1 .. n : f[k] = step[k][f[k - 1]]}

LEMMA StepsExist ==
  ASSUME NEW n \in Nat, NEW S, NEW a \in S, NEW step \in [1 .. n -> [S -> S]]
  PROVE  Walks(n, S, a, step) # {}
<1> DEFINE Solves(f, m) == f[0] = a /\ \A k \in 1 .. m : f[k] = step[k][f[k - 1]]
           T == {m \in 0 .. n : \E f \in [0 .. m -> S] : Solves(f, m)}
<1>1. 0 \in T
  <2> DEFINE f == [k \in 0 .. 0 |-> a]
  <2>1. f \in [0 .. 0 -> S]
    OBVIOUS
  <2>2. 0 \in 0 .. 0 /\ f[0] = a /\ \A k \in 1 .. 0 : FALSE
    OBVIOUS
  <2> HIDE DEF f
  <2>3. Solves(f, 0)
    BY <2>2
  <2> HIDE DEF Solves
  <2> QED
    BY <2>1, <2>3
<1>2. ASSUME NEW m \in 1 .. n, m - 1 \in T PROVE m \in T
  <2>1. PICK g \in [0 .. m - 1 -> S] : Solves(g, m - 1)
    BY <1>2
  <2> DEFINE f == [k \in 0 .. m |-> IF k = m THEN step[m][g[m - 1]] ELSE g[k]]
  <2>2. m - 1 \in 0 .. m - 1 /\ m \in 0 .. m /\ m \in 0 .. n
    OBVIOUS
  <2>3. step[m][g[m - 1]] \in S
    BY <2>2
  <2>4. \A k \in 0 .. m : k # m => k \in 0 .. m - 1
    OBVIOUS
  <2>5. f \in [0 .. m -> S]
    BY <2>3, <2>4
  <2>6. \A k \in 0 .. m - 1 : f[k] = g[k]
    OBVIOUS
  <2>7. f[m] = step[m][g[m - 1]]
    BY <2>2
  <2> HIDE DEF f
  <2>8. f[0] = a
    <3>1. 0 \in 0 .. m - 1
      OBVIOUS
    <3> QED
      BY <2>1, <2>6, <3>1
  <2>9. ASSUME NEW k \in 1 .. m PROVE f[k] = step[k][f[k - 1]]
    <3>1. CASE k = m
      <4>1. f[m - 1] = g[m - 1]
        BY <2>2, <2>6
      <4> QED
        BY <2>7, <3>1, <4>1
    <3>2. CASE k # m
      <4>1. k \in 1 .. m - 1 /\ k \in 0 .. m - 1 /\ k - 1 \in 0 .. m - 1
        BY <3>2
      <4>2. g[k] = step[k][g[k - 1]]
        BY <2>1, <4>1
      <4> QED
        BY <2>6, <4>1, <4>2
    <3> QED
      BY <3>1, <3>2
  <2>10. Solves(f, m)
    BY <2>8, <2>9
  <2> HIDE DEF Solves
  <2> QED
    BY <2>2, <2>5, <2>10
<1>3. n \in T
  <2> HIDE DEF T
  <2>1. \A k \in 1 .. n : k - 1 \in T => k \in T
    BY <1>2
  <2>2. \A k \in 0 .. n : k \in T
    BY <1>1, <2>1, UpTo
  <2> QED
    BY <2>2
<1> QED
  BY <1>3 DEF Walks

-----------------------------------------------------------------------------
(* Arrays, at the end of a line.                                           *)
LEMMA SameCode ==
  ASSUME NEW g \in GasStates, NEW h \in GasStates, h.asm = g.asm,
         h.currentFunction = g.currentFunction, h.lastOperator = g.lastOperator
  PROVE  Appends(g, h)
  BY AppendsItself DEF Appends

LEMMA ArrayListed ==
  ASSUME NEW g \in GasStates, NEW d \in Seq(DeclaredArrays)
  PROVE  Appends(g, [g EXCEPT !.declaredArrays = d])
<1> DEFINE h == [g EXCEPT !.declaredArrays = d]
<1>1. h \in GasStates
  BY DEF GasStates
<1>2. h.asm = g.asm
  BY DEF GasStates
<1>3. h.currentFunction = g.currentFunction /\ h.lastOperator = g.lastOperator
  BY DEF GasStates
<1> HIDE DEF h
<1> QED
  BY <1>1, <1>2, <1>3, SameCode DEF h

LEMMA ArrayDeclared ==
  ASSUME LayoutKnown, NEW g, InFunction(g), NEW array \in Arrays,
         code.arrayLength[array] \in Scalars
  PROVE  Appends(g, declareArray(g, array))
<1> DEFINE t == toggled(g)
           tmp == Tmp(t)
           low == getLocationForArray(g.currentFunction, array)
           s == addMnemonic(t, Ins("MOV", low, Reg("ESP")))
           l == loadOperand(s, code.arrayLength[array], NoOp)
           moves == <<Ins("MOV", tmp, l.o), Ins("IMUL", tmp, Imm(4)), Ins("SUB", Reg("ESP"), tmp)>>
           a == addMnemonics(l.g, moves)
           e == [f |-> g.currentFunction, array |-> array, length |-> l.o]
<1>1. g \in GasStates /\ g.currentFunction \in Functions
  BY DEF InFunction
<1>2. declareArray(g, array) = [a EXCEPT !.declaredArrays = Append(@, e)]
  BY DEF declareArray
<1>3. Appends(g, t) /\ t \in GasStates /\ InFunction(t)
  BY <1>1, Toggled, AppendsState, AppendsIn
<1>4. tmp \in SafeOperands /\ low \in SafeOperands
  BY <1>1, TmpSafe, ArrayLocation
<1>5. "MOV" \in PlainNames /\ "IMUL" \in PlainNames
  BY DEF PlainNames
<1>6. Reg("ESP") \in MachineOperands /\ Imm(4) \in MachineOperands
  BY Operands86 DEF Registers
<1> HIDE DEF t, tmp, low
<1>7. Ins("MOV", low, Reg("ESP")) \in PlainInstructions
  BY <1>4, <1>5, <1>6, Emits
<1>8. Appends(t, s) /\ InFunction(s)
  BY <1>3, <1>7, EmittedOne, AppendsIn DEF AppendsSome
<1> HIDE DEF s
<1>9. code.arrayLength[array] \in Operands
  BY DEF Operands
<1>10. Appends(s, l.g) /\ l.o \in SafeOperands
  BY <1>8, <1>9, OperandLoads, Operands86 DEF Loads
<1> HIDE DEF l
<1>11. moves \in Seq(PlainInstructions)
  <2>1. l.o \in MachineOperands /\ tmp \in MachineOperands
    BY <1>4, <1>10, Operands86
  <2>2. Ins("MOV", tmp, l.o) \in PlainInstructions /\ Ins("IMUL", tmp, Imm(4)) \in PlainInstructions
    BY <1>4, <1>5, <1>6, <2>1, Emits
  <2>3. Ins("SUB", Reg("ESP"), tmp) \in PlainInstructions
    BY <2>1, EmitsMove
  <2> QED
    BY <2>2, <2>3
<1> HIDE DEF moves
<1>12. Appends(l.g, a) /\ a \in GasStates
  BY <1>10, <1>11, AppendsState, Emitted
<1> HIDE DEF a
<1>13. Append(a.declaredArrays, e) \in Seq(DeclaredArrays)
  <2>1. e \in DeclaredArrays
    BY <1>1, <1>10, Operands86 DEF DeclaredArrays
  <2> HIDE DEF e
  <2>2. a.declaredArrays \in Seq(DeclaredArrays)
    BY <1>12 DEF GasStates
  <2> QED
    BY <2>1, <2>2
<1> HIDE DEF e
<1>14. Appends(a, [a EXCEPT !.declaredArrays = Append(@, e)])
  BY <1>12, <1>13, ArrayListed
<1>15. Appends(g, s) /\ Appends(g, l.g) /\ Appends(g, a)
  BY <1>1, <1>3, <1>8, <1>10, <1>12, AppendsOn
<1> QED
  BY <1>1, <1>2, <1>14, <1>15, AppendsOn

(* A fold of steps each of which appends plain instructions.               *)
LEMMA ArraysDeclared ==
  ASSUME LayoutKnown, NEW g, InFunction(g), NEW i,
         \A k \in DOMAIN code.arrays :
           code.arrays[k].array \in Arrays
           /\ code.arrayLength[code.arrays[k].array] \in Scalars,
         Len(code.arrays) \in Nat, DOMAIN code.arrays = 1 .. Len(code.arrays)
  PROVE  Appends(g, declareArrays(g, i))
<1> DEFINE n == Len(code.arrays)
           S == {h \in GasStates : Appends(g, h)}
           Wanted(h, k) == code.arrays[k].line = i /\ lookupDeclaredArray(h, code.arrays[k].array) = {}
           Step(h, k) == IF Wanted(h, k) THEN declareArray(h, code.arrays[k].array) ELSE h
           step == [k \in 1 .. n |-> [h \in S |-> Step(h, k)]]
           G(f) == [k \in 0 .. n |-> IF k = 0 THEN g ELSE Step(f[k - 1], k)]
           D == CHOOSE f : f = G(f)
<1>1. g \in S
  BY AppendsItself DEF InFunction
<1>2. ASSUME NEW k \in 1 .. n, NEW h \in S PROVE Step(h, k) \in S
  <2>1. InFunction(h) /\ Appends(g, h) /\ h \in GasStates
    BY AppendsIn
  <2>2. code.arrays[k].array \in Arrays /\ code.arrayLength[code.arrays[k].array] \in Scalars
    OBVIOUS
  <2>3. Appends(h, declareArray(h, code.arrays[k].array))
    BY <2>1, <2>2, ArrayDeclared
  <2>4. Appends(g, declareArray(h, code.arrays[k].array))
    BY <2>1, <2>3, AppendsOn DEF InFunction
  <2>5. declareArray(h, code.arrays[k].array) \in S
    BY <2>4, AppendsState
  <2> HIDE DEF S, Wanted
  <2> QED
    BY <2>5
<1>3. declareArrays(g, i) = D[n]
  BY DEF declareArrays
<1> HIDE DEF S, Step
<1>4. step \in [1 .. n -> [S -> S]]
  BY <1>2
<1>5. PICK f \in [0 .. n -> S] : f[0] = g /\ \A k \in 1 .. n : f[k] = step[k][f[k - 1]]
  <2>1. n \in Nat
    OBVIOUS
  <2> HIDE DEF n, step
  <2>2. Walks(n, S, g, step) # {}
    BY <1>1, <1>4, <2>1, StepsExist
  <2> QED
    BY <2>2 DEF Walks
<1>6. f = G(f)
  <2>1. ASSUME NEW k \in 0 .. n, k # 0 PROVE f[k] = Step(f[k - 1], k)
    <3>1. k \in 1 .. n /\ k - 1 \in 0 .. n
      BY <2>1
    <3>2. f[k - 1] \in S
      BY <1>5, <3>1
    <3>3. f[k] = step[k][f[k - 1]]
      BY <1>5, <3>1
    <3> QED
      BY <3>1, <3>2, <3>3
  <2> QED
    BY <1>5, <2>1
<1>7. D = G(D)
  <2> HIDE DEF G
  <2> QED
    BY <1>6
<1> HIDE DEF D
<1>8. D[n] \in S
  <2> DEFINE T == {k \in 0 .. n : D[k] \in S}
  <2>1. 0 \in T
    <3>1. D[0] = g
      BY <1>7
    <3> QED
      BY <1>1, <3>1
  <2>2. ASSUME NEW k \in 1 .. n, k - 1 \in T PROVE k \in T
    <3>1. k \in 0 .. n /\ k # 0
      OBVIOUS
    <3>2. D[k] = Step(D[k - 1], k)
      <4> HIDE DEF n
      <4> QED
        BY <1>7, <3>1
    <3> QED
      BY <1>2, <2>2, <3>2
  <2> HIDE DEF T, n
  <2>3. n \in Nat /\ n \in 0 .. n
    BY DEF n
  <2>4. n \in T
    BY <2>1, <2>2, <2>3, UpTo
  <2> QED
    BY <2>4 DEF T
<1> QED
  BY <1>3, <1>8 DEF S

LEMMA WithoutOne ==
  ASSUME NEW S, NEW d \in Seq(S), NEW k \in 1 .. Len(d)
  PROVE  RemoveAt(d, k) \in Seq(S) /\ Len(RemoveAt(d, k)) = Len(d) - 1
<1> DEFINE u == SubSeq(d, 1, k - 1)
           w == SubSeq(d, k + 1, Len(d))
<1>1. u \in Seq(S) /\ Len(u) = k - 1
  OBVIOUS
<1>2. w \in Seq(S) /\ Len(w) = Len(d) - k
  OBVIOUS
<1>3. RemoveAt(d, k) = u \o w
  BY DEF RemoveAt
<1>4. Len(d) \in Nat
  OBVIOUS
<1> HIDE DEF u, w
<1>5. u \o w \in Seq(S) /\ Len(u \o w) = Len(u) + Len(w)
  BY <1>1, <1>2, Joined
<1> QED
  BY <1>1, <1>2, <1>3, <1>4, <1>5

LEMMA ArrayFreed ==
  ASSUME NEW g \in GasStates, NEW l, NEW k \in 1 .. Len(g.declaredArrays)
  PROVE  /\ Appends(g, cleanUpArray(g, l, k))
         /\ Len(cleanUpArray(g, l, k).declaredArrays) >= Len(g.declaredArrays) - 1
<1> DEFINE d == g.declaredArrays[k]
           t1 == toggled(g)
           t == IF l.op = "RET" /\ Tmp(t1) = Reg("EAX") THEN toggled(t1) ELSE t1
           moves == <<Ins("MOV", Tmp(t), d.length), Ins("IMUL", Tmp(t), Imm(4)),
                      Ins("ADD", Reg("ESP"), Tmp(t))>>
           a == addMnemonics(t, moves)
           less == ScopeLess(code.arrayScope[d.array], l.scope)
<1>1. cleanUpArray(g, l, k) =
        IF less THEN g ELSE [a EXCEPT !.declaredArrays = RemoveAt(@, k)]
  BY DEF cleanUpArray
<1>2. g.declaredArrays \in Seq(DeclaredArrays)
  BY DEF GasStates
<1>3. d \in DeclaredArrays
  <2>1. \A s \in Seq(DeclaredArrays) : \A j \in 1 .. Len(s) : s[j] \in DeclaredArrays
    OBVIOUS
  <2> QED
    BY <1>2, <2>1
<1>4. d.length \in MachineOperands
  BY <1>3 DEF DeclaredArrays
<1>5. Appends(g, t1) /\ t1 \in GasStates /\ t1.declaredArrays = g.declaredArrays
  BY Toggled, AppendsState DEF toggled, GasStates
<1>6. Appends(t1, toggled(t1)) /\ toggled(t1) \in GasStates
      /\ toggled(t1).declaredArrays = t1.declaredArrays
  BY <1>5, Toggled, AppendsState DEF toggled, GasStates
<1> HIDE DEF t1, d, less
<1>7. Appends(g, t) /\ t \in GasStates /\ t.declaredArrays = g.declaredArrays
  BY <1>5, <1>6, AppendsOn
<1>8. moves \in Seq(PlainInstructions)
  <2>1. Tmp(t) \in SafeOperands /\ Tmp(t) \in MachineOperands /\ Imm(4) \in MachineOperands
    BY TmpSafe, Operands86
  <2>2. "MOV" \in PlainNames /\ "IMUL" \in PlainNames
    BY DEF PlainNames
  <2>3. Ins("MOV", Tmp(t), d.length) \in PlainInstructions /\ Ins("IMUL", Tmp(t), Imm(4)) \in PlainInstructions
    BY <1>4, <2>1, <2>2, Emits
  <2>4. Ins("ADD", Reg("ESP"), Tmp(t)) \in PlainInstructions
    BY <2>1, EmitsMove
  <2> QED
    BY <2>3, <2>4
<1> HIDE DEF t, moves
<1>9. Appends(t, a) /\ a \in GasStates /\ a.declaredArrays = t.declaredArrays
  <2>1. Appends(t, a)
    BY <1>7, <1>8, Emitted
  <2>2. a.declaredArrays = t.declaredArrays
    BY <1>7 DEF addMnemonics, GasStates
  <2> QED
    BY <2>1, <2>2, AppendsState
<1> HIDE DEF a
<1> DEFINE rest == RemoveAt(g.declaredArrays, k)
<1>10. rest \in Seq(DeclaredArrays) /\ Len(rest) = Len(g.declaredArrays) - 1
  BY <1>2, WithoutOne
<1>11. Len(g.declaredArrays) \in Nat
  BY <1>2
<1> DEFINE b == [a EXCEPT !.declaredArrays = rest]
<1>12. ~less => cleanUpArray(g, l, k) = b
  BY <1>1, <1>7, <1>9
<1> HIDE DEF rest
<1>13. Appends(a, b)
  BY <1>9, <1>10, ArrayListed
<1>14. b.declaredArrays = rest
  BY <1>9 DEF GasStates
<1> HIDE DEF b
<1>15. Appends(g, a) /\ Appends(g, b)
  BY <1>7, <1>9, <1>13, AppendsOn
<1>16. CASE less
  BY <1>1, <1>11, <1>16, AppendsItself
<1>17. CASE ~less
  BY <1>10, <1>11, <1>12, <1>14, <1>15, <1>17
<1> QED
  BY <1>16, <1>17

LEMMA ArraysFreed ==
  ASSUME NEW g \in GasStates, NEW l
  PROVE  Appends(g, cleanUpArrays(g, l))
<1> DEFINE n == Len(g.declaredArrays)
           S == {h \in GasStates : Appends(g, h)}
           Has(h, k) == Len(h.declaredArrays) >= n + 1 - k
           Step(h, k) == cleanUpArray(h, l, n + 1 - k)
           step == [k \in 1 .. n |-> [h \in S |-> IF Has(h, k) THEN Step(h, k) ELSE h]]
           G(f) == [k \in 0 .. n |-> IF k = 0 THEN g ELSE Step(f[k - 1], k)]
           D == CHOOSE f : f = G(f)
<1>1. g \in S /\ n \in Nat
  <2>1. n \in Nat
    BY DEF GasStates
  <2> QED
    BY <2>1, AppendsItself
<1>2. ASSUME NEW k \in 1 .. n, NEW h \in S, Has(h, k)
      PROVE  Step(h, k) \in S /\ Len(Step(h, k).declaredArrays) >= n - k
  <2>1. Appends(g, h) /\ h \in GasStates
    OBVIOUS
  <2>2. Len(h.declaredArrays) \in Nat
    BY <2>1 DEF GasStates
  <2> HIDE DEF n
  <2>3. n + 1 - k \in 1 .. Len(h.declaredArrays) /\ n + 1 - k \in Nat
    BY <1>1, <1>2, <2>2
  <2> DEFINE j == n + 1 - k
  <2> HIDE DEF j
  <2>4. /\ Appends(h, cleanUpArray(h, l, j))
        /\ Len(cleanUpArray(h, l, j).declaredArrays) >= Len(h.declaredArrays) - 1
    BY <2>1, <2>3, ArrayFreed DEF j
  <2>5. Appends(g, cleanUpArray(h, l, j)) /\ cleanUpArray(h, l, j) \in GasStates
    BY <2>1, <2>4, AppendsOn, AppendsState
  <2>6. Len(cleanUpArray(h, l, j).declaredArrays) \in Nat
    BY <2>5 DEF GasStates
  <2>7. Len(cleanUpArray(h, l, j).declaredArrays) >= n - k
    BY <1>1, <1>2, <2>2, <2>4, <2>6
  <2> QED
    BY <2>5, <2>7 DEF j
<1>3. cleanUpArrays(g, l) = D[n]
  BY DEF cleanUpArrays
<1>4. ASSUME NEW h \in S PROVE Len(h.declaredArrays) \in Nat
  BY DEF GasStates
<1> HIDE DEF S, Step
<1>5. step \in [1 .. n -> [S -> S]]
  BY <1>2
<1>6. PICK f \in [0 .. n -> S] : f[0] = g /\ \A k \in 1 .. n : f[k] = step[k][f[k - 1]]
  <2> HIDE DEF n, step
  <2>2. Walks(n, S, g, step) # {}
    BY <1>1, <1>5, StepsExist
  <2> QED
    BY <2>2 DEF Walks
<1>7. ASSUME NEW k \in 1 .. n, Has(f[k - 1], k) PROVE f[k] = Step(f[k - 1], k) /\ f[k - 1] \in S
  <2> HIDE DEF n, Has
  <2>1. k \in 1 .. n /\ k - 1 \in 0 .. n
    BY <1>1
  <2>2. f[k - 1] \in S
    BY <1>6, <2>1
  <2>3. f[k] = step[k][f[k - 1]]
    BY <1>6, <2>1
  <2> QED
    BY <1>7, <2>1, <2>2, <2>3
<1>8. ASSUME NEW k \in 0 .. n PROVE Len(f[k].declaredArrays) >= n - k
  <2> DEFINE T == {j \in 0 .. n : Len(f[j].declaredArrays) >= n - j}
  <2>1. 0 \in T
    BY <1>1, <1>6
  <2>2. ASSUME NEW j \in 1 .. n, j - 1 \in T PROVE j \in T
    <3> HIDE DEF n
    <3>1. n - (j - 1) = n + 1 - j
      BY <1>1
    <3>2. Has(f[j - 1], j)
      BY <2>2, <3>1
    <3>3. Len(f[j].declaredArrays) >= n - j
      BY <1>2, <1>7, <3>2
    <3> QED
      BY <1>1, <3>3
  <2> HIDE DEF T, n
  <2>3. k \in T
    BY <1>1, <2>1, <2>2, UpTo
  <2> QED
    BY <2>3 DEF T
<1>9. f = G(f)
  <2>1. ASSUME NEW k \in 0 .. n, k # 0 PROVE f[k] = Step(f[k - 1], k)
    <3> HIDE DEF n
    <3>1. k \in 1 .. n /\ k - 1 \in 0 .. n /\ n - (k - 1) = n + 1 - k
      BY <1>1, <2>1
    <3>2. Has(f[k - 1], k)
      BY <1>8, <3>1
    <3> QED
      BY <1>7, <3>1, <3>2
  <2> QED
    BY <1>6, <2>1
<1>10. D = G(D)
  <2> HIDE DEF G
  <2> QED
    BY <1>9
<1> HIDE DEF D
<1>11. D[n] \in S
  <2> DEFINE T == {k \in 0 .. n : D[k] \in S /\ Len(D[k].declaredArrays) >= n - k}
  <2>1. 0 \in T
    <3>1. D[0] = g
      BY <1>10
    <3> QED
      BY <1>1, <3>1
  <2>2. ASSUME NEW k \in 1 .. n, k - 1 \in T PROVE k \in T
    <3> HIDE DEF n
    <3>1. k \in 0 .. n /\ k # 0 /\ n - (k - 1) = n + 1 - k
      BY <1>1
    <3>2. D[k] = Step(D[k - 1], k)
      BY <1>10, <3>1
    <3>3. Has(D[k - 1], k) /\ D[k - 1] \in S
      BY <2>2, <3>1
    <3> QED
      BY <1>2, <3>1, <3>2, <3>3
  <2> HIDE DEF T, n
  <2>3. n \in 0 .. n
    BY <1>1
  <2>4. n \in T
    BY <1>1, <2>1, <2>2, <2>3, UpTo
  <2> QED
    BY <2>4 DEF T
<1> QED
  BY <1>3, <1>11 DEF S

-----------------------------------------------------------------------------
(* The parameters of a function, and of a call.                            *)
LEMMA MovesPlain ==
  ASSUME LayoutKnown, NEW f \in Functions
  PROVE  ParameterMoves(f) \in Seq(PlainInstructions)
<1> DEFINE list == functionVariables[f]
           n == Len(list)
           S == Seq(PlainInstructions)
           arg(k) == Mem(variableStackOffset[<<f, list[k]>>])
           target(k) == getLocationForVariable(f, list[k])
           Step(m, k) == IF target(k) # arg(k) THEN Append(m, Ins("MOV", target(k), arg(k))) ELSE m
           step == [k \in 1 .. n |-> [m \in S |-> Step(m, k)]]
           G(w) == [k \in 0 .. n |-> IF k = 0 THEN <<>> ELSE Step(w[k - 1], k)]
           D == CHOOSE w : w = G(w)
<1>1. list \in Seq(Vars) /\ n \in Nat
  BY DEF LayoutKnown, TypeOK
<1>2. ASSUME NEW k \in 1 .. n, NEW m \in S PROVE Step(m, k) \in S
  <2>1. list[k] \in Vars
    BY <1>1
  <2> HIDE DEF list
  <2>2. arg(k) \in MachineOperands
    <3>1. variableStackOffset[<<f, list[k]>>] \in Int
      BY <2>1 DEF LayoutKnown, TypeOK
    <3> QED
      BY <3>1, Operands86
  <2>3. target(k) \in SafeOperands
    BY <2>1, VariableLocation
  <2>4. Ins("MOV", target(k), arg(k)) \in PlainInstructions
    <3>1. "MOV" \in PlainNames
      BY DEF PlainNames
    <3> QED
      BY <2>2, <2>3, <3>1, Emits
  <2> HIDE DEF target, arg
  <2> QED
    BY <2>4
<1>3. ParameterMoves(f) = D[n]
  BY DEF ParameterMoves
<1>4. <<>> \in S
  OBVIOUS
<1> HIDE DEF S, Step, list
<1>5. step \in [1 .. n -> [S -> S]]
  BY <1>2
<1>6. PICK w \in [0 .. n -> S] : w[0] = <<>> /\ \A k \in 1 .. n : w[k] = step[k][w[k - 1]]
  <2> HIDE DEF n, step
  <2>2. Walks(n, S, <<>>, step) # {}
    BY <1>1, <1>4, <1>5, StepsExist
  <2> QED
    BY <2>2 DEF Walks
<1>7. w = G(w)
  <2>1. ASSUME NEW k \in 0 .. n, k # 0 PROVE w[k] = Step(w[k - 1], k)
    <3>1. k \in 1 .. n /\ k - 1 \in 0 .. n
      BY <1>1, <2>1
    <3>2. w[k - 1] \in S
      BY <1>6, <3>1
    <3>3. w[k] = step[k][w[k - 1]]
      BY <1>6, <3>1
    <3> QED
      BY <3>1, <3>2, <3>3
  <2> QED
    BY <1>6, <2>1
<1>8. D = G(D)
  <2> HIDE DEF G
  <2> QED
    BY <1>7
<1> HIDE DEF D
<1>9. D[n] \in S
  <2> DEFINE T == {k \in 0 .. n : D[k] \in S}
  <2>1. 0 \in T
    <3>1. D[0] = <<>>
      BY <1>1, <1>8
    <3> QED
      BY <1>1, <1>4, <3>1
  <2>2. ASSUME NEW k \in 1 .. n, k - 1 \in T PROVE k \in T
    <3> HIDE DEF n
    <3>1. k \in 0 .. n /\ k # 0
      BY <1>1
    <3>2. D[k] = Step(D[k - 1], k)
      BY <1>8, <3>1
    <3> QED
      BY <1>2, <2>2, <3>1, <3>2
  <2> HIDE DEF T, n
  <2>3. n \in 0 .. n
    BY <1>1
  <2>4. n \in T
    BY <1>1, <2>1, <2>2, <2>3, UpTo
  <2> QED
    BY <2>4 DEF T
<1> QED
  BY <1>3, <1>9 DEF S

LEMMA ArgumentsBounded ==
  ASSUME NEW f, Len(code.params[f]) \in Nat
  PROVE  lookupFunctionArgSize(f) \div 4 \in 0 .. Len(code.params[f])
         /\ lookupFunctionArgSize(f) \in Nat
<1> DEFINE n == Len(code.params[f])
           size(k) == getSize(code.params[f][k])
           step == [k \in 1 .. n |-> [m \in Nat |-> m + size(k)]]
           G(w) == [k \in 0 .. n |-> IF k = 0 THEN 0 ELSE w[k - 1] + size(k)]
           D == CHOOSE w : w = G(w)
<1>1. n \in Nat
  OBVIOUS
<1>2. ASSUME NEW k PROVE size(k) \in {0, 4}
  BY DEF getSize
<1>3. lookupFunctionArgSize(f) = D[n]
  BY DEF lookupFunctionArgSize
<1> HIDE DEF n, size
<1>4. step \in [1 .. n -> [Nat -> Nat]]
  <2>1. ASSUME NEW k \in 1 .. n, NEW m \in Nat PROVE m + size(k) \in Nat
    BY <1>2
  <2> QED
    BY <2>1
<1>5. PICK w \in [0 .. n -> Nat] : w[0] = 0 /\ \A k \in 1 .. n : w[k] = step[k][w[k - 1]]
  <2> HIDE DEF step
  <2>1. 0 \in Nat
    OBVIOUS
  <2>2. Walks(n, Nat, 0, step) # {}
    BY <1>1, <1>4, <2>1, StepsExist
  <2> QED
    BY <2>2 DEF Walks
<1>6. w = G(w)
  <2>1. ASSUME NEW k \in 0 .. n, k # 0 PROVE w[k] = w[k - 1] + size(k)
    <3>1. k \in 1 .. n /\ k - 1 \in 0 .. n
      BY <1>1, <2>1
    <3>2. w[k - 1] \in Nat
      BY <1>5, <3>1
    <3>3. w[k] = step[k][w[k - 1]]
      BY <1>5, <3>1
    <3> QED
      BY <3>1, <3>2, <3>3
  <2> QED
    BY <1>5, <2>1
<1>7. D = G(D)
  <2> HIDE DEF G
  <2> QED
    BY <1>6
<1> HIDE DEF D
<1>8. D[n] \in 0 .. 4 * n
  <2> DEFINE T == {k \in 0 .. n : D[k] \in 0 .. 4 * k}
  <2>1. 0 \in T
    <3>1. D[0] = 0
      BY <1>1, <1>7
    <3> QED
      BY <1>1, <3>1
  <2>2. ASSUME NEW k \in 1 .. n, k - 1 \in T PROVE k \in T
    <3>1. k \in 0 .. n /\ k # 0
      BY <1>1
    <3>2. D[k] = D[k - 1] + size(k)
      BY <1>7, <3>1
    <3>3. D[k - 1] \in 0 .. 4 * (k - 1) /\ size(k) \in {0, 4}
      BY <1>2, <2>2
    <3> HIDE DEF size
    <3>4. D[k] \in 0 .. 4 * k
      BY <1>1, <3>1, <3>2, <3>3
    <3> QED
      BY <3>1, <3>4
  <2> HIDE DEF T
  <2>3. n \in 0 .. n
    BY <1>1
  <2>4. n \in T
    BY <1>1, <2>1, <2>2, <2>3, UpTo
  <2> QED
    BY <2>4 DEF T
<1>9. D[n] \in Nat /\ D[n] \div 4 \in 0 .. n
  <2> DEFINE z == D[n]
  <2>1. z \in Nat /\ z <= 4 * n
    BY <1>1, <1>8
  <2> HIDE DEF z
  <2>2. z \div 4 \in 0 .. n
    BY <1>1, <2>1
  <2> QED
    BY <2>1, <2>2 DEF z
<1> QED
  BY <1>3, <1>9 DEF n

-----------------------------------------------------------------------------
(* The converters of single lines, but for those of jumps, labels, calls   *)
(* and returns, only append plain instructions.                            *)
LEMMA AppendsThen ==
  ASSUME NEW g, InFunction(g), NEW h, NEW k, Appends(g, h), Appends(h, k)
  PROVE  /\ Appends(g, k) /\ InFunction(h) /\ InFunction(k)
         /\ AppendsSome(g, h) \/ AppendsSome(h, k) => AppendsSome(g, k)
<1>1. g \in GasStates
  BY DEF InFunction
<1>2. Appends(g, k) /\ (AppendsSome(g, h) \/ AppendsSome(h, k) => AppendsSome(g, k))
  BY <1>1, AppendsOn
<1>3. InFunction(h)
  BY AppendsIn
<1> QED
  BY <1>2, <1>3, AppendsIn

LEMMA ThenEmits ==
  ASSUME NEW g, InFunction(g), NEW h, Appends(g, h), NEW s \in Seq(PlainInstructions)
  PROVE  /\ Appends(g, addMnemonics(h, s)) /\ InFunction(addMnemonics(h, s))
         /\ s # <<>> => AppendsSome(g, addMnemonics(h, s))
<1>1. h \in GasStates
  BY AppendsState
<1>2. Appends(h, addMnemonics(h, s)) /\ (s # <<>> => AppendsSome(h, addMnemonics(h, s)))
  BY <1>1, Emitted
<1> QED
  BY <1>2, AppendsThen

LEMMA ThenEmitsOne ==
  ASSUME NEW g, InFunction(g), NEW h, Appends(g, h), NEW i \in PlainInstructions
  PROVE  AppendsSome(g, addMnemonic(h, i)) /\ InFunction(addMnemonic(h, i))
<1>1. <<i>> \in Seq(PlainInstructions) /\ <<i>> # <<>>
  OBVIOUS
<1> QED
  BY <1>1, ThenEmits DEF addMnemonic

LEMMA ThenToggles ==
  ASSUME NEW g, InFunction(g), NEW h, Appends(g, h)
  PROVE  Appends(g, toggled(h)) /\ InFunction(toggled(h))
<1>1. h \in GasStates
  BY AppendsState
<1> QED
  BY <1>1, Toggled, AppendsThen

LEMMA ThenLoads ==
  ASSUME LayoutKnown, NEW g, InFunction(g), NEW h, Appends(g, h),
         NEW op \in Operands, NEW reg \in SafeOperands
  PROVE  /\ Appends(g, loadOperand(h, op, reg).g) /\ InFunction(loadOperand(h, op, reg).g)
         /\ loadOperand(h, op, reg).o \in SafeOperands
<1>1. InFunction(h)
  BY AppendsIn
<1>2. Loads(h, loadOperand(h, op, reg))
  BY <1>1, OperandLoads
<1> QED
  BY <1>2, AppendsThen DEF Loads

LEMMA ThenStores ==
  ASSUME LayoutKnown, NEW g, InFunction(g), NEW h, Appends(g, h),
         NEW v \in Vars, NEW o \in SafeOperands
  PROVE  AppendsSome(g, storeOperandFromRegister(h, v, o))
<1>1. InFunction(h)
  BY AppendsIn
<1>2. AppendsSome(h, storeOperandFromRegister(h, v, o))
  BY <1>1, OperandStored
<1> QED
  BY <1>2, AppendsThen DEF AppendsSome

LEMMA InFunctionAppends ==
  ASSUME NEW g, InFunction(g) PROVE Appends(g, g)
  BY AppendsItself DEF InFunction

LEMMA UnaryConverted ==
  ASSUME LayoutKnown, NEW g, InFunction(g), NEW l, NEW name \in {"NEG", "NOT", "PUSH"},
         l.arg1 \in Operands, l.target \in Vars \cup {NoVar}
  PROVE  AppendsSome(g, convertUnary(g, l, name))
<1> DEFINE t == toggled(g)
           o == IF l.target = NoVar THEN loadOperand(g, l.arg1, NoOp)
                ELSE loadOperand(t, l.arg1, Tmp(t))
           done == addMnemonic(o.g, Ins(name, o.o, NoOp))
<1>1. convertUnary(g, l, name) =
        IF l.target = NoVar THEN done ELSE storeOperandFromRegister(done, l.target, o.o)
  BY DEF convertUnary
<1>2. Appends(g, g) /\ Appends(g, t)
  BY InFunctionAppends, ThenToggles
<1>3. Tmp(t) \in SafeOperands /\ NoOp \in SafeOperands
  BY TmpSafe, Operands86
<1> HIDE DEF t
<1>4. Appends(g, o.g) /\ o.o \in SafeOperands
  BY <1>2, <1>3, ThenLoads
<1> HIDE DEF o
<1>5. Ins(name, o.o, NoOp) \in PlainInstructions
  <2>1. name \in PlainNames
    BY DEF PlainNames
  <2>2. NoOp \in MachineOperands
    BY <1>3, Operands86
  <2> QED
    BY <1>4, <2>1, <2>2, Emits
<1>6. AppendsSome(g, done)
  BY <1>4, <1>5, ThenEmitsOne
<1> HIDE DEF done
<1>7. l.target # NoVar => AppendsSome(g, storeOperandFromRegister(done, l.target, o.o))
  BY <1>4, <1>6, ThenStores DEF AppendsSome
<1> QED
  BY <1>1, <1>6, <1>7

LEMMA IntArithmeticConverted ==
  ASSUME LayoutKnown, NEW g, InFunction(g), NEW l, l.op \in ArithmeticOps,
         l.arg1 \in Operands, l.arg2 \in Operands, l.target \in Vars
  PROVE  AppendsSome(g, convertIntArithmetic(g, l))
<1> DEFINE reg0 == loadOperand(g, l.arg1, NoOp)
           t    == toggled(reg0.g)
           tmp  == Tmp(t)
           s    == <<Ins("MOV", tmp, reg0.o)>>
                   \o IF l.op = "DIV" THEN <<Ins("CDQ", NoOp, NoOp)>> ELSE <<>>
           moved == addMnemonics(t, s)
           reg1 == loadOperand(moved, l.arg2, NoOp)
           name == IF l.op = "MUL" THEN "IMUL" ELSE l.op
           i    == IF l.op = "DIV" THEN Ins("IDIV", reg1.o, NoOp) ELSE Ins(name, tmp, reg1.o)
           done == addMnemonic(reg1.g, i)
<1>1. convertIntArithmetic(g, l) = storeOperandFromRegister(done, l.target, tmp)
  BY DEF convertIntArithmetic
<1>2. NoOp \in SafeOperands /\ NoOp \in MachineOperands
  BY Operands86
<1>3. Appends(g, reg0.g) /\ reg0.o \in SafeOperands
  BY <1>2, InFunctionAppends, ThenLoads
<1> HIDE DEF reg0
<1>4. Appends(g, t) /\ tmp \in SafeOperands
  BY <1>3, ThenToggles, TmpSafe
<1> HIDE DEF t, tmp
<1>5. "MOV" \in PlainNames /\ "CDQ" \in PlainNames /\ "IDIV" \in PlainNames
  BY DEF PlainNames
<1>6. s \in Seq(PlainInstructions)
  <2>1. Ins("MOV", tmp, reg0.o) \in PlainInstructions
    BY <1>3, <1>4, <1>5, Emits, Operands86
  <2>2. Ins("CDQ", NoOp, NoOp) \in PlainInstructions
    BY <1>2, <1>5, Emits
  <2> QED
    BY <2>1, <2>2
<1> HIDE DEF s
<1>7. Appends(g, moved)
  BY <1>4, <1>6, ThenEmits
<1> HIDE DEF moved
<1>8. Appends(g, reg1.g) /\ reg1.o \in SafeOperands
  BY <1>2, <1>7, ThenLoads
<1> HIDE DEF reg1
<1>9. i \in PlainInstructions
  <2>1. Ins("IDIV", reg1.o, NoOp) \in PlainInstructions
    BY <1>2, <1>5, <1>8, Emits
  <2>2. l.op # "DIV" => name \in PlainNames
    BY DEF PlainNames, ArithmeticOps
  <2>3. l.op # "DIV" => Ins(name, tmp, reg1.o) \in PlainInstructions
    BY <1>4, <1>8, <2>2, Emits, Operands86
  <2> QED
    BY <2>1, <2>3
<1> HIDE DEF i
<1>10. Appends(g, done)
  BY <1>8, <1>9, ThenEmitsOne DEF AppendsSome
<1> HIDE DEF done
<1> QED
  BY <1>1, <1>4, <1>10, ThenStores

LEMMA IntAssignConverted ==
  ASSUME LayoutKnown, NEW g, InFunction(g), NEW l,
         l.arg1 \in Operands, l.arg2 \in Operands,
         ~convertIntAssign(g, l).failed
  PROVE  Appends(g, convertIntAssign(g, l))
<1> DEFINE undeclared == l.arg1.k = "elem" /\ lookupDeclaredArray(g, l.arg1.array) = {}
           to   == loadOperand(g, l.arg1, NoOp)
           t    == toggled(to.g)
           from == IF l.arg2.k = "elem" /\ isAddress(to.o)
                   THEN loadOperand(t, l.arg2, Tmp(t))
                   ELSE loadOperand(to.g, l.arg2, NoOp)
           via  == toggled(from.g)
           s == <<Ins("MOV", Tmp(via), from.o), Ins("MOV", to.o, Tmp(via))>>
           one == Ins("MOV", to.o, from.o)
<1>1. convertIntAssign(g, l) =
        IF undeclared THEN Failed(g)
        ELSE IF isAddress(from.o) /\ isAddress(to.o) THEN addMnemonics(via, s)
        ELSE addMnemonic(from.g, one)
  BY DEF convertIntAssign
<1>2. ~undeclared
  <2>1. Failed(g).failed
    BY DEF Failed, InFunction, GasStates
  <2> HIDE DEF undeclared, to, from, via, s, one
  <2> QED
    BY <1>1, <2>1
<1> HIDE DEF undeclared
<1>3. NoOp \in SafeOperands /\ "MOV" \in PlainNames
  BY Operands86 DEF PlainNames
<1>4. Appends(g, to.g) /\ to.o \in SafeOperands
  BY <1>3, InFunctionAppends, ThenLoads
<1> HIDE DEF to
<1>5. Appends(g, t) /\ Tmp(t) \in SafeOperands
  BY <1>4, ThenToggles, TmpSafe
<1> HIDE DEF t
<1>6. Appends(g, from.g) /\ from.o \in SafeOperands
  BY <1>3, <1>4, <1>5, ThenLoads
<1> HIDE DEF from
<1>7. Appends(g, via) /\ Tmp(via) \in SafeOperands
  BY <1>6, ThenToggles, TmpSafe
<1> HIDE DEF via
<1>8. s \in Seq(PlainInstructions)
  <2>1. Ins("MOV", Tmp(via), from.o) \in PlainInstructions
    BY <1>3, <1>6, <1>7, Emits, Operands86
  <2>2. Ins("MOV", to.o, Tmp(via)) \in PlainInstructions
    BY <1>3, <1>4, <1>7, Emits, Operands86
  <2> QED
    BY <2>1, <2>2
<1>9. one \in PlainInstructions
  BY <1>3, <1>4, <1>6, Emits, Operands86
<1> HIDE DEF s, one
<1>10. Appends(g, addMnemonics(via, s)) /\ Appends(g, addMnemonic(from.g, one))
  BY <1>6, <1>7, <1>8, <1>9, ThenEmits, ThenEmitsOne DEF AppendsSome
<1> QED
  BY <1>1, <1>2, <1>10

LEMMA ThenPushes ==
  ASSUME LayoutKnown, NEW g, InFunction(g), NEW h, Appends(g, h), NEW op \in Operands
  PROVE  AppendsSome(g, pushOperandToFloatRegister(h, op))
<1> DEFINE l == loadOperand(h, op, NoOp)
<1>1. NoOp \in SafeOperands /\ NoOp \in MachineOperands /\ "FLD" \in PlainNames
  BY Operands86 DEF PlainNames
<1>2. Appends(g, l.g) /\ l.o \in SafeOperands
  BY <1>1, ThenLoads
<1>3. pushOperandToFloatRegister(h, op) = addMnemonic(l.g, Ins("FLD", l.o, NoOp))
  BY DEF pushOperandToFloatRegister
<1> HIDE DEF l
<1>4. Ins("FLD", l.o, NoOp) \in PlainInstructions
  BY <1>1, <1>2, Emits
<1> QED
  BY <1>2, <1>3, <1>4, ThenEmitsOne

LEMMA ThenStoresFloat ==
  ASSUME LayoutKnown, NEW g, InFunction(g), NEW h, Appends(g, h), NEW v \in Vars
  PROVE  AppendsSome(g, storeVariableFromFloatRegister(h, v))
<1> DEFINE loc == getLocationForVariable(h.currentFunction, v)
           t == toggled(h)
           s == <<Ins("FSTP", loc, NoOp), Ins("MOV", Tmp(t), loc), Ins("MOV", loc, Tmp(t))>>
<1>1. NoOp \in MachineOperands /\ "FSTP" \in PlainNames /\ "MOV" \in PlainNames
  BY Operands86 DEF PlainNames
<1>2. loc \in SafeOperands
  <2>1. h.currentFunction \in Functions
    BY AppendsIn DEF InFunction
  <2> QED
    BY <2>1, VariableLocation
<1>3. Appends(g, t) /\ Tmp(t) \in SafeOperands
  BY ThenToggles, TmpSafe
<1>4. storeVariableFromFloatRegister(h, v) = addMnemonics(t, s)
  BY DEF storeVariableFromFloatRegister
<1> HIDE DEF loc, t
<1>5. s \in Seq(PlainInstructions) /\ s # <<>>
  <2>1. Ins("FSTP", loc, NoOp) \in PlainInstructions
    BY <1>1, <1>2, Emits
  <2>2. Ins("MOV", Tmp(t), loc) \in PlainInstructions /\ Ins("MOV", loc, Tmp(t)) \in PlainInstructions
    BY <1>1, <1>2, <1>3, Emits, Operands86
  <2> QED
    BY <2>1, <2>2
<1> HIDE DEF s
<1> QED
  BY <1>3, <1>4, <1>5, ThenEmits

LEMMA BareInstructions ==
  ASSUME NEW name \in PlainNames PROVE Ins(name, NoOp, NoOp) \in PlainInstructions
  BY Emits, Operands86

LEMMA FloatArithmeticConverted ==
  ASSUME LayoutKnown, NEW g, InFunction(g), NEW l, l.op \in ArithmeticOps,
         l.arg1 \in Operands, l.arg2 \in Operands, l.target \in Vars
  PROVE  AppendsSome(g, convertFloatArithmetic(g, l))
<1> DEFINE first == pushOperandToFloatRegister(g, l.arg1)
           both == pushOperandToFloatRegister(first, l.arg2)
           name == [ADD |-> "FADDP", SUB |-> "FSUBP", MUL |-> "FMULP", DIV |-> "FDIVP"]
           i == Ins(name[l.op], NoOp, NoOp)
<1>1. convertFloatArithmetic(g, l) =
        storeVariableFromFloatRegister(addMnemonic(both, i), l.target)
  BY DEF convertFloatArithmetic
<1>2. Appends(g, first)
  BY InFunctionAppends, ThenPushes DEF AppendsSome
<1> HIDE DEF first
<1>3. Appends(g, both)
  BY <1>2, ThenPushes DEF AppendsSome
<1> HIDE DEF both
<1>4. name[l.op] \in PlainNames
  BY DEF ArithmeticOps, PlainNames
<1> HIDE DEF name
<1>5. Appends(g, addMnemonic(both, i))
  BY <1>3, <1>4, BareInstructions, ThenEmitsOne DEF AppendsSome
<1> QED
  BY <1>1, <1>5, ThenStoresFloat

LEMMA FloatMinusConverted ==
  ASSUME LayoutKnown, NEW g, InFunction(g), NEW l, l.arg1 \in Operands, l.target \in Vars
  PROVE  AppendsSome(g, convertFloatMinus(g, l))
<1>1. Appends(g, pushOperandToFloatRegister(g, l.arg1))
  BY InFunctionAppends, ThenPushes DEF AppendsSome
<1>2. Ins("FCHS", NoOp, NoOp) \in PlainInstructions
  BY BareInstructions DEF PlainNames
<1>3. Appends(g, addMnemonic(pushOperandToFloatRegister(g, l.arg1), Ins("FCHS", NoOp, NoOp)))
  BY <1>1, <1>2, ThenEmitsOne DEF AppendsSome
<1> QED
  BY <1>3, ThenStoresFloat DEF convertFloatMinus

LEMMA FloatAssignConverted ==
  ASSUME LayoutKnown, NEW g, InFunction(g), NEW l,
         l.arg1 \in Operands, l.arg1.k = "var", l.arg2 \in Operands
  PROVE  AppendsSome(g, convertFloatAssign(g, l))
<1>1. Appends(g, loadOperand(g, l.arg2, NoOp).g) /\ loadOperand(g, l.arg2, NoOp).o \in SafeOperands
  BY InFunctionAppends, ThenLoads, Operands86
<1>2. l.arg1.v \in Vars
  BY DEF Operands, Scalars
<1> QED
  BY <1>1, <1>2, ThenStores DEF convertFloatAssign

LEMMA IntComparisonConverted ==
  ASSUME LayoutKnown, NEW g, InFunction(g), NEW l,
         l.arg1 \in Operands, l.arg2 \in Operands
  PROVE  AppendsSome(g, convertIntLogicOperator(g, l))
<1> DEFINE reg0 == loadOperand(g, l.arg1, NoOp)
           reg1 == loadOperand(reg0.g, l.arg2, NoOp)
           t    == toggled(reg1.g)
           s    == <<Ins("MOV", Tmp(t), reg0.o), Ins("CMP", Tmp(t), reg1.o)>>
           i    == Ins("CMP", reg0.o, reg1.o)
<1>1. convertIntLogicOperator(g, l) \in {addMnemonics(t, s), addMnemonic(reg1.g, i)}
  BY DEF convertIntLogicOperator
<1>2. NoOp \in SafeOperands /\ "MOV" \in PlainNames /\ "CMP" \in PlainNames
  BY Operands86 DEF PlainNames
<1>3. Appends(g, reg0.g) /\ reg0.o \in SafeOperands
  BY <1>2, InFunctionAppends, ThenLoads
<1> HIDE DEF reg0
<1>4. Appends(g, reg1.g) /\ reg1.o \in SafeOperands
  BY <1>2, <1>3, ThenLoads
<1> HIDE DEF reg1
<1>5. Appends(g, t) /\ Tmp(t) \in SafeOperands
  BY <1>4, ThenToggles, TmpSafe
<1> HIDE DEF t
<1>6. s \in Seq(PlainInstructions) /\ s # <<>> /\ i \in PlainInstructions
  <2>1. Ins("MOV", Tmp(t), reg0.o) \in PlainInstructions
    BY <1>2, <1>3, <1>5, Emits, Operands86
  <2>2. Ins("CMP", Tmp(t), reg1.o) \in PlainInstructions /\ i \in PlainInstructions
    BY <1>2, <1>3, <1>4, <1>5, Emits, Operands86
  <2> QED
    BY <2>1, <2>2
<1> HIDE DEF s, i
<1>7. AppendsSome(g, addMnemonics(t, s))
  BY <1>5, <1>6, ThenEmits
<1>8. AppendsSome(g, addMnemonic(reg1.g, i))
  BY <1>4, <1>6, ThenEmitsOne
<1> QED
  BY <1>1, <1>7, <1>8

LEMMA FloatComparisonConverted ==
  ASSUME LayoutKnown, NEW g, InFunction(g), NEW l,
         l.arg1 \in Operands, l.arg2 \in Operands
  PROVE  AppendsSome(g, convertFloatLogicOperator(g, l))
<1> DEFINE first  == IF l.op \in Swapped THEN l.arg2 ELSE l.arg1
           second == IF l.op \in Swapped THEN l.arg1 ELSE l.arg2
           one == pushOperandToFloatRegister(g, first)
           both == pushOperandToFloatRegister(one, second)
           exchange == IF l.op \in {"EQ", "NE"} THEN <<>> ELSE <<Ins("FXCH", NoOp, NoOp)>>
           rest == <<Ins("FUCOMIP", NoOp, NoOp), Ins("FPOP", NoOp, NoOp)>>
           s == exchange \o rest
<1>1. convertFloatLogicOperator(g, l) = addMnemonics(both, s)
  BY DEF convertFloatLogicOperator
<1>2. first \in Operands /\ second \in Operands
  OBVIOUS
<1> HIDE DEF first, second
<1>3. Appends(g, one)
  BY <1>2, InFunctionAppends, ThenPushes DEF AppendsSome
<1> HIDE DEF one
<1>4. Appends(g, both)
  BY <1>2, <1>3, ThenPushes DEF AppendsSome
<1> HIDE DEF both
<1>5. s \in Seq(PlainInstructions) /\ s # <<>>
  <2>1. /\ Ins("FXCH", NoOp, NoOp) \in PlainInstructions
        /\ Ins("FUCOMIP", NoOp, NoOp) \in PlainInstructions
        /\ Ins("FPOP", NoOp, NoOp) \in PlainInstructions
    BY BareInstructions DEF PlainNames
  <2>2. exchange \in Seq(PlainInstructions)
    BY <2>1
  <2>3. rest \in Seq(PlainInstructions) /\ Len(rest) = 2
    BY <2>1
  <2> HIDE DEF exchange, rest
  <2>4. s \in Seq(PlainInstructions) /\ Len(s) = Len(exchange) + Len(rest)
    BY <2>2, <2>3, Joined
  <2>5. Len(exchange) \in Nat
    BY <2>2
  <2> HIDE DEF s
  <2> QED
    BY <2>3, <2>4, <2>5
<1> HIDE DEF s
<1> QED
  BY <1>1, <1>4, <1>5, ThenEmits

-----------------------------------------------------------------------------
(* The lines of a program, and the function each belongs to.               *)
LEMMA LinesKnown ==
  ASSUME TypeOK
  PROVE  /\ IsProgram(code) /\ IsConverted(code)
         /\ Len(code.lines) \in Nat \ {0} /\ DOMAIN code.lines = 1 .. Len(code.lines)
         /\ code.lines[1].op = "ENTRY"
<1>1. code \in Programs
  BY DEF TypeOK
<1> QED
  BY <1>1, LayoutAssumption, GasAssumption DEF IsProgram

LEMMA EntryKnown ==
  ASSUME TypeOK, NEW i \in 1 .. Len(code.lines), code.lines[i].op = "ENTRY"
  PROVE  FunctionOf(i) = code.lines[i].dest /\ code.lines[i].dest \in Functions
<1> DEFINE entries == {j \in EntryLines(code) : j <= i}
           last == CHOOSE j \in entries : \A k \in entries : k <= j
<1>1. IsProgram(code) /\ DOMAIN code.lines = 1 .. Len(code.lines) /\ Len(code.lines) \in Nat
  BY LinesKnown
<1>2. i \in entries /\ entries \subseteq Nat
  BY <1>1 DEF EntryLines
<1>3. \A k \in entries : k <= i
  OBVIOUS
<1>4. FunctionOf(i) = code.lines[last].dest
  BY DEF FunctionOf, FunctionIn
<1> HIDE DEF entries
<1>5. last \in entries /\ \A k \in entries : k <= last
  BY <1>2, <1>3
<1> HIDE DEF last
<1>6. last <= i /\ i <= last /\ last \in Nat /\ i \in Nat
  BY <1>2, <1>3, <1>5
<1>7. last = i
  BY <1>6
<1> QED
  BY <1>1, <1>4, <1>7 DEF IsProgram

LEMMA SameFunction ==
  ASSUME TypeOK, NEW i \in 2 .. Len(code.lines), code.lines[i].op # "ENTRY"
  PROVE  FunctionOf(i) = FunctionOf(i - 1)
<1>1. DOMAIN code.lines = 1 .. Len(code.lines) /\ Len(code.lines) \in Nat
  BY LinesKnown
<1>2. {j \in EntryLines(code) : j <= i} = {j \in EntryLines(code) : j <= i - 1}
  <2>1. \A j \in EntryLines(code) : j \in Nat /\ j # i
    BY <1>1 DEF EntryLines
  <2> QED
    BY <2>1
<1> QED
  BY <1>2 DEF FunctionOf, FunctionIn

LEMMA FunctionsKnown ==
  ASSUME TypeOK, NEW i \in 1 .. Len(code.lines)
  PROVE  FunctionOf(i) \in Functions
<1> DEFINE T == {k \in 0 .. Len(code.lines) : k = 0 \/ FunctionOf(k) \in Functions}
           n == Len(code.lines)
<1>1. n \in Nat /\ code.lines[1].op = "ENTRY"
  BY LinesKnown
<1>2. 0 \in T
  BY <1>1
<1>3. ASSUME NEW k \in 1 .. n, k - 1 \in T PROVE k \in T
  <2>1. CASE code.lines[k].op = "ENTRY"
    BY <1>1, <2>1, EntryKnown
  <2>2. CASE code.lines[k].op # "ENTRY"
    <3>1. k \in 2 .. n /\ k - 1 # 0
      BY <1>1, <2>2
    <3>2. FunctionOf(k) = FunctionOf(k - 1)
      BY <2>2, <3>1, SameFunction
    <3> QED
      BY <1>1, <1>3, <3>1, <3>2
  <2> QED
    BY <2>1, <2>2
<1> HIDE DEF T
<1>4. i \in 0 .. n
  BY <1>1
<1> HIDE DEF n
<1>5. i \in T
  BY <1>1, <1>2, <1>3, <1>4, UpTo
<1> QED
  BY <1>5 DEF T

-----------------------------------------------------------------------------
(* What a step of the generator keeps: the labels, and how many of the     *)
(* last instructions are inside a function, a call could be saved for.     *)
TailOf(asm, m) ==
  m <= Len(asm) /\ \A k \in Len(asm) - m + 1 .. Len(asm) : Inside(asm[k])

Labelled(asm, d) == \E k \in 1 .. Len(asm) : asm[k].i = "LABEL" /\ asm[k].dest = d

LabelsKept(a, b) ==
  \A k \in 1 .. Len(a) : a[k].i = "LABEL" => Labelled(b, a[k].dest)
TailKept(a, b) == \A m \in Nat : TailOf(a, m) => TailOf(b, m)
TailGrown(a, b) == \A m \in Nat : TailOf(a, m) => TailOf(b, m + 1)

LEMMA InsertedLabels ==
  ASSUME NEW a \in Seq(Instructions), NEW s \in Seq(Instructions), NEW pos \in 0 .. Len(a),
         NEW b \in Seq(Instructions), InsertedFacts(a, pos, s, b)
  PROVE  LabelsKept(a, b)
<1> DEFINE n == Len(a)
           m == Len(s)
           z == Len(b)
<1>1. n \in Nat /\ m \in Nat /\ z = n + m /\ pos \in 0 .. n
  BY DEF InsertedFacts
<1>2. /\ \A k \in 1 .. pos : b[k] = a[k]
      /\ \A k \in pos + 1 .. n : b[k + m] = a[k]
  BY DEF InsertedFacts
<1> HIDE DEF n, m, z
<1>3. ASSUME NEW k \in 1 .. n PROVE \E j \in 1 .. z : b[j] = a[k]
  <2>1. CASE k <= pos
    <3>1. k \in 1 .. z /\ k \in 1 .. pos
      BY <1>1, <2>1
    <3> QED
      BY <1>2, <3>1
  <2>2. CASE k > pos
    <3>1. k + m \in 1 .. z /\ k \in pos + 1 .. n
      BY <1>1, <2>2
    <3> QED
      BY <1>2, <3>1
  <2> QED
    BY <1>1, <2>1, <2>2
<1> QED
  BY <1>3 DEF LabelsKept, Labelled, n, z

LEMMA InsertedTail ==
  ASSUME NEW a \in Seq(Instructions), NEW s \in Seq(Instructions), NEW pos \in 0 .. Len(a),
         NEW b \in Seq(Instructions), InsertedFacts(a, pos, s, b),
         \A k \in 1 .. Len(s) : Inside(s[k])
  PROVE  TailKept(a, b) /\ (pos = Len(a) /\ Len(s) > 0 => TailGrown(a, b))
<1> DEFINE n == Len(a)
           m == Len(s)
           z == Len(b)
<1>1. n \in Nat /\ m \in Nat /\ z = n + m /\ pos \in 0 .. n
  BY DEF InsertedFacts
<1>2. /\ \A k \in 1 .. pos : b[k] = a[k]
      /\ \A k \in 1 .. m : b[pos + k] = s[k]
      /\ \A k \in pos + 1 .. n : b[k + m] = a[k]
  BY DEF InsertedFacts
<1>3. \A k \in 1 .. m : Inside(s[k])
  OBVIOUS
<1> HIDE DEF n, m, z
<1>4. ASSUME NEW q \in Nat, \A k \in n - q + 1 .. n : Inside(a[k]),
             NEW d \in 0 .. 1, d = 0 \/ (pos = n /\ m > 0), q <= n,
             NEW k \in z - (q + d) + 1 .. z
      PROVE  Inside(b[k])
  <2>1. CASE k <= pos
    <3>1. m >= d /\ d \in Nat
      BY <1>1, <1>4
    <3>2. n - q + 1 <= k /\ k \in Int
      BY <1>1, <1>4, <3>1
    <3>3. k \in n - q + 1 .. n /\ k \in 1 .. pos
      BY <1>1, <1>4, <2>1, <3>2
    <3> QED
      BY <1>2, <1>4, <3>3
  <2>2. CASE k > pos /\ k <= pos + m
    <3> DEFINE j == k - pos
    <3>1. j \in 1 .. m /\ k = pos + j
      BY <1>1, <2>2
    <3> HIDE DEF j
    <3> QED
      BY <1>2, <1>3, <3>1
  <2>3. CASE k > pos + m
    <3> DEFINE j == k - m
    <3>1. j \in pos + 1 .. n /\ k = j + m /\ j \in n - q + 1 .. n
      BY <1>1, <1>4, <2>3
    <3> HIDE DEF j
    <3> QED
      BY <1>2, <1>4, <3>1
  <2> QED
    BY <1>1, <2>1, <2>2, <2>3
<1>5. ASSUME NEW q \in Nat, TailOf(a, q), NEW d \in 0 .. 1, d = 0 \/ (pos = n /\ m > 0)
      PROVE  TailOf(b, q + d)
  <2>1. q <= n /\ \A k \in n - q + 1 .. n : Inside(a[k])
    BY <1>5 DEF TailOf, n
  <2>2. \A k \in z - (q + d) + 1 .. z : Inside(b[k])
    BY <1>4, <1>5, <2>1
  <2>3. q + d <= z
    BY <1>1, <1>5, <2>1
  <2> QED
    BY <2>2, <2>3 DEF TailOf, z
<1>6. TailKept(a, b)
  <2> SUFFICES ASSUME NEW q \in Nat, TailOf(a, q) PROVE TailOf(b, q)
    BY DEF TailKept
  <2>1. TailOf(b, q + 0) /\ q + 0 = q
    BY <1>5
  <2> QED
    BY <2>1
<1>7. ASSUME pos = n, m > 0 PROVE TailGrown(a, b)
  <2> SUFFICES ASSUME NEW q \in Nat, TailOf(a, q) PROVE TailOf(b, q + 1)
    BY DEF TailGrown
  <2> QED
    BY <1>5, <1>7
<1> QED
  BY <1>6, <1>7 DEF n, m

(* A step inside the function f.                                           *)
Advances(f, a, b) ==
  /\ b \in Seq(Instructions)
  /\ InCode(a, f) => InCode(b, f)
  /\ LabelsKept(a, b) /\ TailKept(a, b)

LEMMA AdvancesTwice ==
  ASSUME NEW f, NEW a, NEW b, NEW c, Advances(f, a, b), Advances(f, b, c)
  PROVE  /\ Advances(f, a, c)
         /\ TailGrown(a, b) \/ TailGrown(b, c) => TailGrown(a, c)
<1>1. LabelsKept(a, c)
  BY DEF Advances, LabelsKept, Labelled
<1>2. TailKept(a, c) /\ (TailGrown(a, b) \/ TailGrown(b, c) => TailGrown(a, c))
  <2>1. \A m \in Nat : m + 1 \in Nat
    OBVIOUS
  <2> QED
    BY <2>1 DEF Advances, TailKept, TailGrown
<1> QED
  BY <1>1, <1>2 DEF Advances

LEMMA AdvancesNot ==
  ASSUME NEW f, NEW a \in Seq(Instructions) PROVE Advances(f, a, a)
  BY DEF Advances, LabelsKept, Labelled, TailKept

(* Plain instructions put in.                                              *)
LEMMA PlainAdvances ==
  ASSUME NEW f \in Functions, NEW a \in Seq(Instructions), NEW s \in Seq(PlainInstructions),
         NEW pos \in 0 .. Len(a), pos < Len(a) => Inside(a[pos + 1]),
         NEW b \in Seq(Instructions), InsertedFacts(a, pos, s, b)
  PROVE  /\ Advances(f, a, b) /\ (Closed(a) => Closed(b))
         /\ pos = Len(a) /\ Len(s) > 0 => TailGrown(a, b)
<1>1. s \in Seq(Instructions)
  BY PlainSubset
<1>2. \A k \in 1 .. Len(s) : Inside(s[k])
  <2>1. \A k \in 1 .. Len(s) : s[k] \in PlainInstructions
    OBVIOUS
  <2> QED
    BY <2>1, PlainInside
<1>3. LabelsKept(a, b)
  BY <1>1, InsertedLabels
<1>4. TailKept(a, b) /\ (pos = Len(a) /\ Len(s) > 0 => TailGrown(a, b))
  BY <1>1, <1>2, InsertedTail
<1>5. ASSUME NEW own, CodeOf(a, own), GoesOnIn(a, own, f)
      PROVE  \E own2 : CodeOf(b, own2) /\ GoesOnIn(b, own2, f) /\ (Open(b, own2) => Open(a, own))
  BY <1>5, PlainPut
<1>6. InCode(a, f) => InCode(b, f)
  BY <1>5 DEF InCode
<1>7. Closed(a) => Closed(b)
  <2> SUFFICES ASSUME NEW own, CodeOf(a, own), ~Open(a, own) PROVE Closed(b)
    BY DEF Closed
  <2>1. GoesOnIn(a, own, f)
    BY DEF GoesOnIn
  <2> QED
    BY <1>5, <2>1 DEF Closed
<1> QED
  BY <1>3, <1>4, <1>6, <1>7 DEF Advances

LEMMA AppendsAdvances ==
  ASSUME NEW g \in GasStates, NEW h, Appends(g, h), NEW f \in Functions
  PROVE  /\ Advances(f, g.asm, h.asm) /\ (Closed(g.asm) => Closed(h.asm))
         /\ AppendsSome(g, h) => TailGrown(g.asm, h.asm)
<1>1. PICK s \in Seq(PlainInstructions) : h.asm = g.asm \o s
  BY DEF Appends
<1>2. g.asm \in Seq(Instructions) /\ s \in Seq(Instructions)
  BY PlainSubset DEF GasStates
<1>3. h.asm \in Seq(Instructions) /\ InsertedFacts(g.asm, Len(g.asm), s, h.asm)
  BY <1>1, <1>2, InsertedLast
<1>4. Len(g.asm) \in 0 .. Len(g.asm) /\ ~(Len(g.asm) < Len(g.asm))
  BY <1>2
<1>5. /\ Advances(f, g.asm, h.asm) /\ (Closed(g.asm) => Closed(h.asm))
      /\ Len(s) > 0 => TailGrown(g.asm, h.asm)
  BY <1>2, <1>3, <1>4, PlainAdvances
<1>6. AppendsSome(g, h) => Len(s) > 0
  <2>1. Len(h.asm) = Len(g.asm) + Len(s) /\ Len(s) \in Nat /\ Len(g.asm) \in Nat
    BY <1>1, <1>2, <1>3 DEF InsertedFacts
  <2> QED
    BY <2>1 DEF AppendsSome
<1> QED
  BY <1>5, <1>6

(* A jump, a call or a label at the end.                                   *)
LEMMA OneAdvances ==
  ASSUME NEW f \in Functions, NEW a \in Seq(Instructions), NEW i \in Instructions,
         Fits(f, i), Inside(i), GoesOn(i) \/ Ends(i)
  PROVE  Advances(f, a, a \o <<i>>) /\ TailGrown(a, a \o <<i>>)
<1> DEFINE s == <<i>>
           b == a \o s
<1>1. s \in Seq(Instructions) /\ Len(s) = 1 /\ s[1] = i
  OBVIOUS
<1> HIDE DEF s
<1>2. b \in Seq(Instructions) /\ InsertedFacts(a, Len(a), s, b)
  BY <1>1, InsertedLast
<1>3. Len(a) \in 0 .. Len(a) /\ Len(a) \in Nat /\ \A k \in 1 .. Len(s) : k = 1
  BY <1>1
<1>4. Len(b) = Len(a) + 1 /\ b[Len(b)] = i
  <2>1. 1 \in 1 .. Len(s)
    BY <1>1
  <2> QED
    BY <1>1, <1>2, <2>1 DEF InsertedFacts
<1> HIDE DEF b
<1>5. LabelsKept(a, b)
  BY <1>1, <1>2, <1>3, InsertedLabels
<1>6. TailKept(a, b) /\ TailGrown(a, b)
  <2>1. \A k \in 1 .. Len(s) : Inside(s[k])
    BY <1>1, <1>3
  <2>2. Len(s) > 0
    BY <1>1
  <2> QED
    BY <1>1, <1>2, <1>3, <2>1, <2>2, InsertedTail
<1>7. ASSUME NEW own, CodeOf(a, own), GoesOnIn(a, own, f) PROVE InCode(b, f)
  <2> DEFINE e == IF Open(a, own) \/ i.i = "LABEL" THEN f ELSE NoLabel
  <2>1. e \in Functions \cup {NoLabel} /\ (e # NoLabel => e = f)
    OBVIOUS
  <2>2. i.i = "LABEL" => e # NoLabel
    BY LayoutAssumption
  <2>3. Open(a, own) => e = f
    OBVIOUS
  <2> HIDE DEF e
  <2>4. Piece(s, e)
    <3>1. Len(s) > 0 /\ \A k \in 1 .. Len(s) - 1 : FALSE
      BY <1>1
    <3>2. e # NoLabel => \A k \in 1 .. Len(s) : Fits(e, s[k])
      BY <1>1, <1>3, <2>1
    <3>3. \A k \in 1 .. Len(s) : s[k].i = "LABEL" => e # NoLabel
      BY <1>1, <1>3, <2>2
    <3> QED
      BY <3>1, <3>2, <3>3 DEF Piece
  <2>5. Continues(a, own, Len(a), s, e)
    <3>1. ASSUME Len(a) > 0, own[Len(a)] # NoLabel, ~Ends(a[Len(a)])
          PROVE  e = own[Len(a)] /\ Follows(a[Len(a)], s[1])
      <4>1. Open(a, own)
        BY <3>1 DEF Open
      <4>2. own[Len(a)] = f /\ GoesOn(a[Len(a)])
        BY <1>7, <4>1 DEF GoesOnIn
      <4> QED
        BY <1>1, <2>3, <4>1, <4>2 DEF Follows, GoesOn
    <3> QED
      BY <1>3, <3>1 DEF Continues
  <2>6. PICK own2 : CodeOf(b, own2) /\ own2[Len(b)] = e
    BY <1>1, <1>2, <1>3, <1>7, <2>1, <2>4, <2>5, PutIn
  <2>7. GoesOnIn(b, own2, f)
    BY <1>4, <2>1, <2>6 DEF GoesOnIn, Open
  <2> QED
    BY <2>6, <2>7 DEF InCode
<1> QED
  BY <1>2, <1>5, <1>6, <1>7 DEF Advances, InCode, b, s

(* The epilogue closes the code, the prologue opens closed code.           *)
LEMMA EpilogueCloses ==
  ASSUME NEW f \in Functions, NEW a \in Seq(Instructions), InCode(a, f)
  PROVE  LET b == a \o <<DropFrame, RestoreFrame, LeaveFunction>>
         IN b \in Seq(Instructions) /\ Closed(b) /\ LabelsKept(a, b)
<1> DEFINE s == <<DropFrame, RestoreFrame, LeaveFunction>>
           b == a \o s
<1>1. s \in Seq(Instructions) /\ Len(s) = 3
      /\ s[1] = DropFrame /\ s[2] = RestoreFrame /\ s[3] = LeaveFunction
  BY FrameTypes DEF FrameInstructions
<1> HIDE DEF s
<1>2. b \in Seq(Instructions) /\ InsertedFacts(a, Len(a), s, b)
  BY <1>1, InsertedLast
<1>3. /\ Len(a) \in 0 .. Len(a) /\ Len(a) \in Nat
      /\ \A k \in 1 .. Len(s) : k \in {1, 2, 3}
      /\ \A k \in 1 .. Len(s) - 1 : k \in {1, 2}
  BY <1>1
<1>4. Len(b) = Len(a) + 3 /\ b[Len(b)] = LeaveFunction
  <2>1. 3 \in 1 .. Len(s)
    BY <1>1
  <2> QED
    BY <1>1, <1>2, <2>1 DEF InsertedFacts
<1> HIDE DEF b
<1>5. LabelsKept(a, b)
  BY <1>1, <1>2, <1>3, InsertedLabels
<1>6. PICK own : CodeOf(a, own) /\ GoesOnIn(a, own, f)
  BY DEF InCode
<1> DEFINE e == IF Open(a, own) THEN f ELSE NoLabel
<1>7. /\ DropFrame.i = "MOV" /\ RestoreFrame.i = "RESTORE" /\ LeaveFunction.i = "RET"
      /\ DropFrame # RestoreFrame /\ SaveFrame # DropFrame /\ SaveFrame # RestoreFrame
      /\ Inside(DropFrame) /\ ~GoesOn(DropFrame) /\ ~GoesOn(RestoreFrame)
  <2>1. /\ DropFrame.i = "MOV" /\ RestoreFrame.i = "RESTORE" /\ LeaveFunction.i = "RET"
        /\ SaveFrame.i = "SAVE"
    BY FramesDiffer
  <2> QED
    BY <2>1 DEF Inside, GoesOn, EntersFunction
<1>8. Piece(s, e)
  <2>1. Len(s) > 0
    BY <1>1
  <2>2. \A k \in 1 .. Len(s) : Fits(e, s[k])
    BY <1>1, <1>3 DEF Fits, FrameInstructions
  <2>3. \A k \in 1 .. Len(s) - 1 : ~Ends(s[k]) /\ Follows(s[k], s[k + 1])
    <3>1. ~Ends(DropFrame) /\ Follows(DropFrame, RestoreFrame)
      BY <1>7 DEF Ends, Follows, EntersFunction
    <3>2. ~Ends(RestoreFrame) /\ Follows(RestoreFrame, LeaveFunction)
      BY <1>7 DEF Ends, Follows, EntersFunction
    <3> QED
      BY <1>1, <1>3, <3>1, <3>2
  <2>4. \A k \in 1 .. Len(s) : s[k].i # "LABEL"
    BY <1>1, <1>3, <1>7
  <2> QED
    BY <2>1, <2>2, <2>3, <2>4 DEF Piece
<1>9. Continues(a, own, Len(a), s, e)
  <2>1. ASSUME Len(a) > 0, own[Len(a)] # NoLabel, ~Ends(a[Len(a)])
        PROVE  e = own[Len(a)] /\ Follows(a[Len(a)], s[1])
    <3>1. Open(a, own)
      BY <2>1 DEF Open
    <3>2. own[Len(a)] = f /\ GoesOn(a[Len(a)])
      BY <1>6, <3>1 DEF GoesOnIn
    <3> QED
      BY <1>1, <1>7, <3>1, <3>2 DEF Follows, GoesOn
  <2> QED
    BY <1>3, <2>1 DEF Continues
<1>10. PICK own2 : CodeOf(b, own2)
  <2>1. e \in Functions \cup {NoLabel}
    OBVIOUS
  <2> HIDE DEF e
  <2> QED
    BY <1>1, <1>2, <1>3, <1>6, <1>8, <1>9, <2>1, PutIn
<1>11. ~Open(b, own2)
  BY <1>4, <1>7 DEF Open, Ends
<1> QED
  BY <1>2, <1>5, <1>10, <1>11 DEF Closed, b, s

LEMMA PrologueOpens ==
  ASSUME NEW f \in Functions, NEW a \in Seq(Instructions), Closed(a),
         InsTo("LABEL", f) \in Instructions
  PROVE  LET b == a \o <<InsTo("LABEL", f), SaveFrame, SetFrame>>
         IN b \in Seq(Instructions) /\ InCode(b, f) /\ LabelsKept(a, b) /\ Labelled(b, f)
<1> DEFINE enter == InsTo("LABEL", f)
           s == <<enter, SaveFrame, SetFrame>>
           b == a \o s
<1>0. enter.i = "LABEL" /\ enter.dest = f /\ enter \in Instructions
  BY DEF InsTo
<1> HIDE DEF enter
<1>1. s \in Seq(Instructions) /\ Len(s) = 3
      /\ s[1] = enter /\ s[2] = SaveFrame /\ s[3] = SetFrame
  BY <1>0, FrameTypes DEF FrameInstructions
<1> HIDE DEF s
<1>2. b \in Seq(Instructions) /\ InsertedFacts(a, Len(a), s, b)
  BY <1>1, InsertedLast
<1>3. /\ Len(a) \in 0 .. Len(a) /\ Len(a) \in Nat
      /\ \A k \in 1 .. Len(s) : k \in {1, 2, 3}
      /\ \A k \in 1 .. Len(s) - 1 : k \in {1, 2}
  BY <1>1
<1>4. Len(b) = Len(a) + 3 /\ b[Len(b)] = SetFrame /\ b[Len(a) + 1] = enter
  <2>1. 3 \in 1 .. Len(s) /\ 1 \in 1 .. Len(s)
    BY <1>1
  <2> QED
    BY <1>1, <1>2, <2>1 DEF InsertedFacts
<1>5. Labelled(b, f)
  <2>1. Len(a) + 1 \in 1 .. Len(b)
    BY <1>3, <1>4
  <2> QED
    BY <1>0, <1>4, <2>1 DEF Labelled
<1> HIDE DEF b
<1>6. LabelsKept(a, b)
  BY <1>1, <1>2, <1>3, InsertedLabels
<1>7. PICK own : CodeOf(a, own) /\ ~Open(a, own)
  BY DEF Closed
<1>8. /\ SaveFrame.i = "SAVE" /\ SetFrame.i = "MOV" /\ EntersFunction(enter)
      /\ SaveFrame # DropFrame /\ SaveFrame # RestoreFrame
      /\ enter # SaveFrame /\ enter # DropFrame /\ enter # RestoreFrame
      /\ ~GoesOn(enter) /\ ~GoesOn(SaveFrame) /\ GoesOn(SetFrame)
  <2>1. /\ SaveFrame.i = "SAVE" /\ SetFrame.i = "MOV" /\ DropFrame.i = "MOV"
        /\ RestoreFrame.i = "RESTORE"
        /\ SetFrame # DropFrame
    BY FramesDiffer
  <2> QED
    BY <1>0, <2>1 DEF GoesOn, EntersFunction
<1>9. Piece(s, f)
  <2>1. Len(s) > 0
    BY <1>1
  <2>2. \A k \in 1 .. Len(s) : Fits(f, s[k])
    BY <1>0, <1>1, <1>3, <1>8 DEF Fits, FrameInstructions
  <2>3. \A k \in 1 .. Len(s) - 1 : ~Ends(s[k]) /\ Follows(s[k], s[k + 1])
    <3>1. ~Ends(enter) /\ Follows(enter, SaveFrame)
      BY <1>0, <1>8 DEF Ends, Follows
    <3>2. ~Ends(SaveFrame) /\ Follows(SaveFrame, SetFrame)
      BY <1>8 DEF Ends, Follows, EntersFunction
    <3> QED
      BY <1>1, <1>3, <3>1, <3>2
  <2> QED
    BY <2>1, <2>2, <2>3, LayoutAssumption DEF Piece
<1>10. Continues(a, own, Len(a), s, f)
  BY <1>3, <1>7 DEF Continues, Open
<1>11. PICK own2 : CodeOf(b, own2) /\ own2[Len(b)] = f
  <2>1. f \in Functions \cup {NoLabel}
    OBVIOUS
  <2> QED
    BY <1>1, <1>2, <1>3, <1>7, <1>9, <1>10, <2>1, PutIn
<1>12. GoesOnIn(b, own2, f)
  BY <1>4, <1>8, <1>11 DEF GoesOnIn, b
<1> QED
  BY <1>2, <1>5, <1>6, <1>11, <1>12 DEF InCode, b, s, enter

-----------------------------------------------------------------------------
(* The lines of a function, one converter after the other.                 *)
BodyOps == ExpressionOps \cup {"ASSIGN", "LABEL", "JUMP", "JUMPFALSE", "POP"}

Jumps86 == ConditionalJumps \cup {"JMP"}

LEMMA LineFacts ==
  ASSUME TypeOK, NEW i \in 1 .. Len(code.lines)
  PROVE  /\ code.lines[i].op \in BodyOps \cup {"ENTRY", "RET"}
         /\ HasOperands(code.lines[i]) /\ FlowsWithin(code, i)
         /\ code.lines[i].target \in Vars \cup {NoVar}
         /\ \A name \in Jumps86 \cup {"CALL", "LABEL"} :
              InsTo(name, code.lines[i].dest) \in Instructions
<1>1. IsProgram(code) /\ IsConverted(code) /\ DOMAIN code.lines = 1 .. Len(code.lines)
  BY LinesKnown
<1>2. NoOp \in MachineOperands /\ code.lines[i].dest \in Destinations
  <2>1. NoOp \in MachineOperands
    BY Operands86
  <2>2. code.lines[i].dest \in Destinations
    <3>1. i \in DOMAIN code.lines
      BY <1>1
    <3> QED
      BY <3>1, Zenon DEF Destinations
  <2> QED
    BY <2>1, <2>2
<1>3. \A name \in Jumps86 \cup {"CALL", "LABEL"} :
        InsTo(name, code.lines[i].dest) \in Instructions
  BY <1>2 DEF InsTo, Instructions, Jumps86
<1>4. code.lines[i].target \in Vars \cup {NoVar}
  BY <1>1 DEF IsProgram
<1>5. /\ HasOperands(code.lines[i]) /\ FlowsWithin(code, i)
      /\ code.lines[i].op \in ExpressionOps \cup
            {"ASSIGN", "ENTRY", "LABEL", "JUMP", "JUMPFALSE", "POP", "RET"}
  BY <1>1 DEF IsConverted
<1> QED
  BY <1>3, <1>4, <1>5 DEF BodyOps

LEMMA PlainLines ==
  ASSUME LayoutKnown, NEW g, InFunction(g), NEW l, HasOperands(l),
         l.target \in Vars \cup {NoVar},
         l.op \in ArithmeticOps \cup {"ASSIGN", "MINUS", "NOT", "PUSH", "POP"},
         ~Convert(g, l).failed
  PROVE  /\ Appends(g, Convert(g, l))
         /\ l.op \in ExpressionOps => AppendsSome(g, Convert(g, l))
<1>0. Convert(g, l) # Failed(g)
  BY DEF Failed, InFunction, GasStates
<1>1. Appends(g, g)
  BY InFunctionAppends
<1>2. CASE l.op \in ArithmeticOps
  <2>1. l.arg1 \in Operands /\ l.arg2 \in Operands /\ l.target \in Vars
    BY <1>2 DEF HasOperands, ExpressionOps, ArithmeticOps
  <2>2. Convert(g, l) = convertArithmetic(g, l)
    BY <1>2 DEF Convert, ArithmeticOps, LogicOps
  <2>3. OperandType(l.arg1) \in {"INT", "FLOAT"}
    BY <1>0, <2>2 DEF convertArithmetic
  <2>4. AppendsSome(g, convertArithmetic(g, l))
    BY <1>2, <2>1, <2>3, IntArithmeticConverted, FloatArithmeticConverted
       DEF convertArithmetic
  <2> QED
    BY <2>2, <2>4 DEF AppendsSome
<1>3. CASE l.op = "ASSIGN"
  <2>1. /\ l.arg1 \in Operands /\ l.arg2 \in Operands
        /\ OperandType(l.arg2) = "FLOAT" => l.arg1.k = "var"
    BY <1>3 DEF HasOperands
  <2>2. Convert(g, l) = convertAssign(g, l)
    BY <1>3 DEF Convert, ArithmeticOps, LogicOps
  <2>3. CASE OperandType(l.arg2) = "INT"
    <3>1. convertAssign(g, l) = convertIntAssign(g, l)
      BY <2>3 DEF convertAssign
    <3> QED
      BY <1>3, <2>1, <2>2, <3>1, IntAssignConverted
         DEF ExpressionOps, ArithmeticOps, LogicOps
  <2>4. CASE OperandType(l.arg2) = "FLOAT"
    <3>1. convertAssign(g, l) = convertFloatAssign(g, l)
      BY <2>4 DEF convertAssign
    <3> QED
      BY <2>1, <2>2, <2>4, <3>1, FloatAssignConverted DEF AppendsSome
  <2>5. CASE OperandType(l.arg2) \notin {"INT", "FLOAT"}
    <3>1. convertAssign(g, l) = g
      BY <2>5 DEF convertAssign
    <3> QED
      BY <1>1, <1>3, <2>2, <3>1 DEF ExpressionOps, ArithmeticOps, LogicOps
  <2> QED
    BY <2>3, <2>4, <2>5
<1>4. CASE l.op = "MINUS"
  <2>1. l.arg1 \in Operands /\ l.target \in Vars
    BY <1>4 DEF HasOperands, ExpressionOps
  <2>2. Convert(g, l) = convertMinus(g, l)
    BY <1>4 DEF Convert, ArithmeticOps, LogicOps
  <2>3. OperandType(l.arg1) \in {"INT", "FLOAT"}
    BY <1>0, <2>2 DEF convertMinus
  <2>4. AppendsSome(g, convertMinus(g, l))
    BY <2>1, <2>3, UnaryConverted, FloatMinusConverted DEF convertMinus
  <2> QED
    BY <2>2, <2>4 DEF AppendsSome
<1>5. CASE l.op \in {"NOT", "PUSH"}
  <2>1. l.arg1 \in Operands
    BY <1>5 DEF HasOperands, ExpressionOps
  <2>2. Convert(g, l) = convertUnary(g, l, l.op)
    <3>1. CASE l.op = "NOT"
      <4>1. Convert(g, l) = convertNot(g, l)
        BY <3>1 DEF Convert, ArithmeticOps, LogicOps
      <4> QED
        BY <1>0, <3>1, <4>1 DEF convertNot
    <3>2. CASE l.op = "PUSH"
      BY <3>2 DEF Convert, ArithmeticOps, LogicOps
    <3> QED
      BY <1>5, <3>1, <3>2
  <2>3. l.op \in {"NEG", "NOT", "PUSH"}
    BY <1>5
  <2>4. AppendsSome(g, convertUnary(g, l, l.op))
    BY <2>1, <2>3, UnaryConverted
  <2> QED
    BY <2>2, <2>4 DEF AppendsSome
<1>6. CASE l.op = "POP"
  <2>1. Convert(g, l) = g
    BY <1>6 DEF Convert, ArithmeticOps, LogicOps
  <2> QED
    BY <1>1, <1>6, <2>1 DEF ExpressionOps, ArithmeticOps, LogicOps
<1> QED
  BY <1>2, <1>3, <1>4, <1>5, <1>6

(* A comparison, which is what the next conditional jump depends on.       *)
LEMMA ComparisonLines ==
  ASSUME LayoutKnown, NEW g, InFunction(g), NEW l, HasOperands(l), l.op \in LogicOps,
         ~Convert(g, l).failed
  PROVE  /\ Convert(g, l) \in GasStates
         /\ Convert(g, l).currentFunction = g.currentFunction
         /\ Convert(g, l).lastOperator = l.op
         /\ \E h : AppendsSome(g, h) /\ Convert(g, l).asm = h.asm
<1> DEFINE compared == CASE OperandType(l.arg1) = "INT" -> convertIntLogicOperator(g, l)
                         [] OperandType(l.arg1) = "FLOAT" -> convertFloatLogicOperator(g, l)
                         [] OTHER -> Failed(g)
           h == [compared EXCEPT !.lastOperator = l.op]
<1>1. Convert(g, l) = h
  <2>1. Convert(g, l) = convertLogicOperator(g, l)
    BY DEF Convert, ArithmeticOps, LogicOps
  <2> QED
    BY <2>1 DEF convertLogicOperator
<1>2. l.arg1 \in Operands /\ l.arg2 \in Operands
  BY DEF HasOperands, ExpressionOps, LogicOps
<1>3. OperandType(l.arg1) \in {"INT", "FLOAT"}
  <2>1. CASE OperandType(l.arg1) \notin {"INT", "FLOAT"}
    <3>1. compared = Failed(g)
      BY <2>1
    <3>2. Failed(g).failed /\ Failed(g) \in GasStates
      BY DEF Failed, InFunction, GasStates
    <3>3. [Failed(g) EXCEPT !.lastOperator = l.op].failed
      BY <3>2 DEF GasStates
    <3> QED
      BY <1>1, <3>1, <3>3
  <2> QED
    BY <2>1
<1>4. AppendsSome(g, compared)
  <2>1. CASE OperandType(l.arg1) = "INT"
    <3>1. compared = convertIntLogicOperator(g, l)
      BY <2>1
    <3> QED
      BY <1>2, <3>1, IntComparisonConverted
  <2>2. CASE OperandType(l.arg1) = "FLOAT"
    <3>1. compared = convertFloatLogicOperator(g, l)
      BY <2>2
    <3> QED
      BY <1>2, <3>1, FloatComparisonConverted
  <2> QED
    BY <1>3, <2>1, <2>2
<1> HIDE DEF compared
<1>5. compared \in GasStates /\ compared.currentFunction = g.currentFunction
  BY <1>4 DEF AppendsSome, Appends
<1>6. l.op \in LastOperators
  BY DEF LastOperators
<1>7. h \in GasStates
  BY <1>5, <1>6 DEF GasStates
<1>8. h.currentFunction = compared.currentFunction /\ h.lastOperator = l.op
  BY <1>5 DEF GasStates
<1>9. h.asm = compared.asm
  BY <1>5 DEF GasStates
<1> QED
  BY <1>1, <1>4, <1>5, <1>7, <1>8, <1>9

Stays(g, h) ==
  /\ h \in GasStates /\ h.currentFunction = g.currentFunction
  /\ h.lastOperator = g.lastOperator
  /\ Advances(g.currentFunction, g.asm, h.asm)

LEMMA AppendsStays ==
  ASSUME NEW g, InFunction(g), NEW h, Appends(g, h)
  PROVE  Stays(g, h) /\ (AppendsSome(g, h) => TailGrown(g.asm, h.asm))
  BY AppendsAdvances DEF InFunction, Stays, Appends

LEMMA StaysIn ==
  ASSUME NEW g, InFunction(g), NEW h, Stays(g, h)
  PROVE  InFunction(h)
  BY DEF InFunction, Stays

LEMMA StaysTwice ==
  ASSUME NEW g, NEW h, NEW k, Stays(g, h), Stays(h, k)
  PROVE  /\ Stays(g, k)
         /\ TailGrown(g.asm, h.asm) \/ TailGrown(h.asm, k.asm) => TailGrown(g.asm, k.asm)
<1>1. Advances(g.currentFunction, g.asm, h.asm) /\ Advances(g.currentFunction, h.asm, k.asm)
  BY DEF Stays
<1>2. Advances(g.currentFunction, g.asm, k.asm)
      /\ (TailGrown(g.asm, h.asm) \/ TailGrown(h.asm, k.asm) => TailGrown(g.asm, k.asm))
  BY <1>1, AdvancesTwice
<1> QED
  BY <1>2 DEF Stays

(* Two generators that differ in nothing but the code.                     *)
CodeSet(g, b, r) == [g EXCEPT !.asm = b, !.resultAvailable = r]

LEMMA CodeReplaced ==
  ASSUME NEW g, InFunction(g), NEW b, Advances(g.currentFunction, g.asm, b), NEW r \in BOOLEAN
  PROVE  /\ Stays(g, CodeSet(g, b, r))
         /\ CodeSet(g, b, r).asm = b /\ CodeSet(g, b, r).resultAvailable = r
<1> DEFINE h == CodeSet(g, b, r)
<1>1. b \in Seq(Instructions) /\ g \in GasStates
  BY DEF Advances, InFunction
<1>2. h \in GasStates
  BY <1>1 DEF GasStates, CodeSet
<1>3. h.asm = b /\ h.resultAvailable = r
  BY <1>1 DEF GasStates, CodeSet
<1>4. h.currentFunction = g.currentFunction /\ h.lastOperator = g.lastOperator
  BY <1>1 DEF GasStates, CodeSet
<1> QED
  BY <1>2, <1>3, <1>4 DEF Stays

LEMMA CodeSetTwice ==
  ASSUME NEW g \in GasStates, NEW b, NEW r
  PROVE  [[g EXCEPT !.asm = b] EXCEPT !.resultAvailable = r] = CodeSet(g, b, r)
  BY DEF GasStates, CodeSet

LEMMA CodeSetOnce ==
  ASSUME NEW g \in GasStates, NEW b
  PROVE  [g EXCEPT !.asm = b] = CodeSet(g, b, g.resultAvailable)
  BY DEF GasStates, CodeSet

LEMMA JumpsInside ==
  ASSUME NEW name \in Jumps86 \cup {"CALL"}, NEW d
  PROVE  /\ Inside(InsTo(name, d)) /\ InsTo(name, d).i = name /\ InsTo(name, d).dest = d
         /\ GoesOn(InsTo(name, d)) \/ Ends(InsTo(name, d))
<1>1. InsTo(name, d).i = name /\ InsTo(name, d).dest = d
  BY DEF InsTo
<1>2. /\ name # "MOV" /\ name # "SAVE" /\ name # "RESTORE" /\ name # "LABEL" /\ name # "RET"
  BY DEF Jumps86, ConditionalJumps
<1> HIDE DEF Jumps86
<1>3. InsTo(name, d) \notin FrameInstructions
  BY <1>1, <1>2, FramesDiffer DEF FrameInstructions
<1> QED
  BY <1>1, <1>2, <1>3 DEF Inside, GoesOn, EntersFunction, FrameInstructions

LEMMA InstructionAdded ==
  ASSUME NEW g, InFunction(g), NEW i \in Instructions, Fits(g.currentFunction, i), Inside(i),
         GoesOn(i) \/ Ends(i)
  PROVE  Stays(g, addMnemonic(g, i)) /\ TailGrown(g.asm, addMnemonic(g, i).asm)
<1> DEFINE b == g.asm \o <<i>>
           h == [g EXCEPT !.asm = b]
<1>1. g \in GasStates /\ g.asm \in Seq(Instructions) /\ g.currentFunction \in Functions
  BY DEF InFunction, GasStates
<1>2. Advances(g.currentFunction, g.asm, b) /\ TailGrown(g.asm, b)
  BY <1>1, OneAdvances
<1>3. addMnemonic(g, i) = h
  BY DEF addMnemonic, addMnemonics
<1>4. b \in Seq(Instructions)
  BY <1>2 DEF Advances
<1> HIDE DEF b
<1>5. h \in GasStates
  BY <1>1, <1>4 DEF GasStates
<1>6. h.asm = b
  BY <1>1 DEF GasStates
<1>7. h.currentFunction = g.currentFunction /\ h.lastOperator = g.lastOperator
  BY <1>1 DEF GasStates
<1> HIDE DEF h
<1> QED
  BY <1>2, <1>3, <1>5, <1>6, <1>7 DEF Stays

LEMMA JumpLines ==
  ASSUME LayoutKnown, NEW g, InFunction(g), NEW i \in 1 .. Len(code.lines),
         code.lines[i].op \in {"JUMP", "JUMPFALSE"},
         g.currentFunction = FunctionOf(i),
         ~Convert(g, code.lines[i]).failed
  PROVE  Stays(g, Convert(g, code.lines[i]))
<1> DEFINE l == code.lines[i]
<1>1. TypeOK
  BY DEF LayoutKnown
<1>2. FlowsWithin(code, i) /\ \A name \in Jumps86 : InsTo(name, l.dest) \in Instructions
  BY <1>1, LineFacts
<1>3. LabelOf(g.currentFunction, l.dest)
  BY <1>2 DEF FlowsWithin, LabelOf, FunctionOf
<1> HIDE DEF l
<1>4. ASSUME NEW name \in Jumps86 PROVE Stays(g, addMnemonic(g, InsTo(name, l.dest)))
  <2>1. /\ Inside(InsTo(name, l.dest)) /\ InsTo(name, l.dest).i = name
        /\ InsTo(name, l.dest).dest = l.dest
        /\ GoesOn(InsTo(name, l.dest)) \/ Ends(InsTo(name, l.dest))
    BY JumpsInside
  <2>2. Fits(g.currentFunction, InsTo(name, l.dest))
    BY <1>3, <2>1 DEF Fits, IsJump, Jumps86
  <2> QED
    BY <1>2, <2>1, <2>2, InstructionAdded
<1>5. CASE l.op = "JUMP"
  <2>1. Convert(g, l) = addMnemonic(g, InsTo("JMP", l.dest))
    BY <1>5 DEF Convert, ArithmeticOps, LogicOps
  <2>2. "JMP" \in Jumps86
    BY DEF Jumps86
  <2> QED
    BY <1>4, <2>1, <2>2 DEF l
<1>6. CASE l.op = "JUMPFALSE"
  <2> DEFINE type == ConditionType(l)
             jump == IF type = "INT" THEN IntJumpIfNot ELSE FloatJumpIfNot
             name == jump[g.lastOperator]
  <2>1. Convert(g, l) = IF type \in {"INT", "FLOAT"} /\ g.lastOperator \in LogicOps
                        THEN addMnemonic(g, InsTo(name, l.dest))
                        ELSE Failed(g)
    <3>1. Convert(g, l) = convertJumpFalse(g, l)
      BY <1>6 DEF Convert, ArithmeticOps, LogicOps
    <3> QED
      BY <3>1 DEF convertJumpFalse
  <2> HIDE DEF type
  <2>2. type \in {"INT", "FLOAT"} /\ g.lastOperator \in LogicOps
    <3>1. Failed(g).failed
      BY DEF Failed, InFunction, GasStates
    <3>2. ~Convert(g, l).failed
      BY DEF l
    <3> QED
      BY <2>1, <3>1, <3>2
  <2>3. name \in Jumps86
    <3>1. \A op \in LogicOps : IntJumpIfNot[op] \in Jumps86
      BY DEF LogicOps, IntJumpIfNot, Jumps86, ConditionalJumps
    <3>2. \A op \in LogicOps : FloatJumpIfNot[op] \in Jumps86
      BY DEF LogicOps, FloatJumpIfNot, Jumps86, ConditionalJumps
    <3> QED
      BY <2>2, <3>1, <3>2
  <2> HIDE DEF name
  <2> QED
    BY <1>4, <2>1, <2>2, <2>3 DEF l
<1> QED
  BY <1>5, <1>6 DEF l

LEMMA LabelLine ==
  ASSUME LayoutKnown, NEW g, InFunction(g), NEW i \in 1 .. Len(code.lines),
         code.lines[i].op = "LABEL", g.currentFunction = FunctionOf(i)
  PROVE  /\ Stays(g, Convert(g, code.lines[i]))
         /\ Labelled(Convert(g, code.lines[i]).asm, code.lines[i].dest)
<1> DEFINE l == code.lines[i]
           e == InsTo("LABEL", l.dest)
<1>1. TypeOK
  BY DEF LayoutKnown
<1>2. e \in Instructions /\ IsConverted(code) /\ i \in DOMAIN code.lines
  BY <1>1, LineFacts, LinesKnown
<1>3. i \in LabelLines(code)
  BY <1>2 DEF LabelLines
<1>4. l.dest \notin Functions /\ LabelOf(g.currentFunction, l.dest)
  BY <1>2, <1>3 DEF IsConverted, LabelOf
<1>5. Convert(g, l) = addMnemonic(g, e)
  BY DEF Convert, ArithmeticOps, LogicOps, convertLabel
<1>6. e.i = "LABEL" /\ e.dest = l.dest
  BY DEF InsTo
<1> HIDE DEF l, e
<1>7. e \notin FrameInstructions
  BY <1>6, FramesDiffer DEF FrameInstructions
<1>8. Inside(e) /\ GoesOn(e) /\ Fits(g.currentFunction, e)
  BY <1>4, <1>6, <1>7 DEF Inside, GoesOn, EntersFunction, Fits, IsLabel, FrameInstructions
<1>9. Stays(g, Convert(g, l))
  BY <1>2, <1>5, <1>8, InstructionAdded
<1>10. Labelled(Convert(g, l).asm, l.dest)
  <2> DEFINE a == g.asm
  <2>1. a \in Seq(Instructions)
    BY DEF InFunction, GasStates
  <2>2. Convert(g, l).asm = a \o <<e>>
    BY <1>5 DEF addMnemonic, addMnemonics, InFunction, GasStates
  <2> HIDE DEF a
  <2>3. Len(a \o <<e>>) = Len(a) + 1 /\ (a \o <<e>>)[Len(a) + 1] = e
        /\ Len(a) + 1 \in 1 .. Len(a \o <<e>>)
    BY <1>2, <2>1
  <2> QED
    BY <1>6, <2>2, <2>3 DEF Labelled
<1> QED
  BY <1>9, <1>10 DEF l

-----------------------------------------------------------------------------
(* Calls: registers are saved in front of the arguments and restored       *)
(* behind the call.                                                        *)
LEMMA RegisterMoves ==
  ASSUME NEW list \in Seq(Registers \ {"EBP", "ESP"}), NEW name \in {"SAVE", "RESTORE"}
  PROVE  [k \in DOMAIN list |-> Ins(name, Reg(list[k]), NoOp)] \in Seq(PlainInstructions)
         /\ Len([k \in DOMAIN list |-> Ins(name, Reg(list[k]), NoOp)]) = Len(list)
<1>1. name \in PlainNames /\ NoOp \in MachineOperands
  BY Operands86 DEF PlainNames
<1>2. \A k \in DOMAIN list : Reg(list[k]) \in SafeOperands
  <2>1. \A k \in DOMAIN list : list[k] \in Registers \ {"EBP", "ESP"}
    OBVIOUS
  <2> QED
    BY <2>1, Operands86
<1>3. \A k \in DOMAIN list : Ins(name, Reg(list[k]), NoOp) \in PlainInstructions
  BY <1>1, <1>2, Emits
<1>4. DOMAIN list = 1 .. Len(list) /\ Len(list) \in Nat
  OBVIOUS
<1> DEFINE s == [k \in DOMAIN list |-> Ins(name, Reg(list[k]), NoOp)]
<1>5. s \in [1 .. Len(list) -> PlainInstructions]
  BY <1>3, <1>4
<1> HIDE DEF s
<1>6. s \in Seq(PlainInstructions) /\ Len(s) = Len(list)
  BY <1>4, <1>5
<1> QED
  BY <1>6 DEF s

LEMMA PiecePut ==
  ASSUME NEW g, InFunction(g), NEW s \in Seq(PlainInstructions),
         NEW pos \in 0 .. Len(g.asm), pos < Len(g.asm) => Inside(g.asm[pos + 1]),
         NEW r \in BOOLEAN
  PROVE  LET h == CodeSet(g, Inserted(g.asm, pos, s), r)
         IN /\ Stays(g, h) /\ InFunction(h) /\ h.resultAvailable = r
            /\ h.asm = Inserted(g.asm, pos, s) /\ InsertedFacts(g.asm, pos, s, h.asm)
<1>1. g.currentFunction \in Functions /\ g.asm \in Seq(Instructions) /\ s \in Seq(Instructions)
  BY PlainSubset DEF InFunction, GasStates
<1> DEFINE a == g.asm
           b == Inserted(a, pos, s)
           h == CodeSet(g, b, r)
<1> HIDE DEF a
<1>2. b \in Seq(Instructions) /\ InsertedFacts(a, pos, s, b)
  BY <1>1, InsertedAt DEF a
<1>3. Advances(g.currentFunction, a, b)
  <2>1. /\ pos \in 0 .. Len(a) /\ (pos < Len(a) => Inside(a[pos + 1])) /\ a \in Seq(Instructions)
    BY <1>1 DEF a
  <2> HIDE DEF b
  <2> QED
    BY <1>1, <1>2, <2>1, PlainAdvances
<1> HIDE DEF b
<1>a. Advances(g.currentFunction, g.asm, b)
  BY <1>3 DEF a
<1>4. Stays(g, h) /\ h.asm = b /\ h.resultAvailable = r
  BY <1>a, CodeReplaced
<1>5. InFunction(h)
  BY <1>4, StaysIn
<1> QED
  BY <1>2, <1>4, <1>5 DEF b, a

LEMMA TailLast ==
  ASSUME NEW a \in Seq(Instructions), TailOf(a, 1)
  PROVE  Len(a) \in Nat /\ Len(a) >= 1 /\ Inside(a[Len(a)])
<1>1. Len(a) \in Nat /\ Len(a) \in Len(a) - 1 + 1 .. Len(a)
  OBVIOUS
<1>2. 1 <= Len(a) /\ \A k \in Len(a) - 1 + 1 .. Len(a) : Inside(a[k])
  BY DEF TailOf
<1>3. Inside(a[Len(a)])
  BY <1>1, <1>2
<1> QED
  BY <1>1, <1>2, <1>3

LEMMA TailFirst ==
  ASSUME NEW a \in Seq(Instructions), NEW m \in Nat, TailOf(a, m)
  PROVE  /\ Len(a) \in Nat /\ Len(a) - m \in 0 .. Len(a)
         /\ Len(a) - m < Len(a) => Inside(a[Len(a) - m + 1])
<1>1. Len(a) \in Nat
  OBVIOUS
<1>2. m <= Len(a) /\ \A k \in Len(a) - m + 1 .. Len(a) : Inside(a[k])
  BY DEF TailOf
<1> DEFINE j == Len(a) - m + 1
<1>3. Len(a) - m < Len(a) => j \in Len(a) - m + 1 .. Len(a)
  BY <1>1, <1>2
<1>4. Len(a) - m \in 0 .. Len(a)
  BY <1>1, <1>2
<1> HIDE DEF j
<1>5. Len(a) - m < Len(a) => Inside(a[j])
  BY <1>2, <1>3
<1> QED
  BY <1>1, <1>4, <1>5 DEF j

LEMMA CallPrepared ==
  ASSUME NEW g, InFunction(g), NEW f, NEW m \in Nat,
         m = lookupFunctionArgSize(f) \div 4, TailOf(g.asm, m)
  PROVE  Stays(g, prepareCall(g, f)) /\ prepareCall(g, f).resultAvailable = FALSE
<1> DEFINE list == <<"ECX", "EDX">>
           saves == [k \in DOMAIN list |-> Ins("SAVE", Reg(list[k]), NoOp)]
           pos == Len(g.asm) - m
           h == CodeSet(g, Inserted(g.asm, pos, saves), FALSE)
<1>1. g \in GasStates /\ Len(g.asm) \in Nat
  BY DEF InFunction, GasStates
<1>2. saves \in Seq(PlainInstructions)
  <2>1. list \in Seq(Registers \ {"EBP", "ESP"})
    BY DEF Registers
  <2> QED
    BY <2>1, RegisterMoves
<1>3. prepareCall(g, f) = h
  <2> DEFINE b == Inserted(g.asm, pos, saves)
  <2>1. prepareCall(g, f) = [[g EXCEPT !.asm = b] EXCEPT !.resultAvailable = FALSE]
    <3>1. storeRegisters(g, list, pos) = [g EXCEPT !.asm = b]
      BY DEF storeRegisters, Inserted
    <3>2. prepareCall(g, f) = [storeRegisters(g, list, pos) EXCEPT !.resultAvailable = FALSE]
      BY DEF prepareCall
    <3> HIDE DEF b, list, pos
    <3> QED
      BY <3>1, <3>2
  <2> HIDE DEF b
  <2>2. [[g EXCEPT !.asm = b] EXCEPT !.resultAvailable = FALSE] = CodeSet(g, b, FALSE)
    BY <1>1, CodeSetTwice, Zenon
  <2> QED
    BY <2>1, <2>2 DEF b
<1>4. pos \in 0 .. Len(g.asm) /\ (pos < Len(g.asm) => Inside(g.asm[pos + 1]))
  <2>1. g.asm \in Seq(Instructions)
    BY <1>1 DEF GasStates
  <2> QED
    BY <2>1, TailFirst
<1> HIDE DEF saves, pos
<1>5. Stays(g, h) /\ h.resultAvailable = FALSE
  BY <1>2, <1>4, PiecePut
<1> QED
  BY <1>3, <1>5

LEMMA CallCleanedUp ==
  ASSUME NEW g, InFunction(g), NEW f, lookupFunctionArgSize(f) \in Nat, TailOf(g.asm, 1)
  PROVE  Stays(g, cleanUpCall(g, f))
<1> DEFINE size == lookupFunctionArgSize(f)
           pos == Len(g.asm) - (IF g.resultAvailable THEN 1 ELSE 0)
           free == IF size > 0 THEN <<Ins("ADD", Reg("ESP"), Imm(size))>> ELSE <<>>
           cleaned == CodeSet(g, Inserted(g.asm, pos, free), FALSE)
           list == <<"EDX", "ECX">>
           restores == [k \in DOMAIN list |-> Ins("RESTORE", Reg(list[k]), NoOp)]
           next == pos + Len(free)
           h == CodeSet(cleaned, Inserted(cleaned.asm, next, restores), FALSE)
<1>1. g \in GasStates /\ Len(g.asm) \in Nat
  BY DEF InFunction, GasStates
<1>2. Len(g.asm) >= 1 /\ Inside(g.asm[Len(g.asm)])
  <2>1. g.asm \in Seq(Instructions)
    BY <1>1 DEF GasStates
  <2> QED
    BY <2>1, TailLast
<1>3. pos \in 0 .. Len(g.asm) /\ (pos < Len(g.asm) => pos + 1 = Len(g.asm))
  <2> DEFINE q == IF g.resultAvailable THEN 1 ELSE 0
  <2>1. q \in {0, 1} /\ pos = Len(g.asm) - q
    OBVIOUS
  <2>2. Len(g.asm) \in Nat /\ Len(g.asm) >= 1
    BY <1>1, <1>2
  <2> HIDE DEF q, pos
  <2> QED
    BY <2>1, <2>2
<1>4. free \in Seq(PlainInstructions) /\ Len(free) \in Nat
  <2>1. Imm(size) \in MachineOperands
    BY Operands86
  <2>2. Ins("ADD", Reg("ESP"), Imm(size)) \in PlainInstructions
    BY <2>1, EmitsMove
  <2> QED
    BY <2>2
<1>5. restores \in Seq(PlainInstructions)
  <2>1. list \in Seq(Registers \ {"EBP", "ESP"})
    BY DEF Registers
  <2> QED
    BY <2>1, RegisterMoves
<1>6. cleanUpCall(g, f) = restoreRegisters(cleaned, list, next)
  BY DEF cleanUpCall, Inserted, CodeSet
<1> HIDE DEF pos, free, list
<1>7. /\ Stays(g, cleaned) /\ InFunction(cleaned) /\ cleaned.resultAvailable = FALSE
      /\ InsertedFacts(g.asm, pos, free, cleaned.asm)
  <2>1. pos < Len(g.asm) => Inside(g.asm[pos + 1])
    BY <1>2, <1>3
  <2> QED
    BY <1>3, <1>4, <2>1, PiecePut
<1> HIDE DEF cleaned
<1>8. cleaned \in GasStates
  BY <1>7 DEF InFunction
<1>9. restoreRegisters(cleaned, list, next) = h
  BY <1>7, <1>8, CodeSetOnce DEF restoreRegisters, Inserted
<1>10. next \in 0 .. Len(cleaned.asm) /\ (next < Len(cleaned.asm) => Inside(cleaned.asm[next + 1]))
  <2>1. Len(cleaned.asm) = Len(g.asm) + Len(free)
    BY <1>7 DEF InsertedFacts
  <2>2. TailOf(cleaned.asm, 1)
    <3>1. 1 \in Nat
      OBVIOUS
    <3> QED
      BY <1>7, <3>1 DEF Stays, Advances, TailKept
  <2>3. Len(cleaned.asm) \in Nat
    BY <1>1, <1>4, <2>1
  <2>4. Inside(cleaned.asm[Len(cleaned.asm)])
    <3>1. cleaned.asm \in Seq(Instructions)
      BY <1>8 DEF GasStates
    <3> QED
      BY <2>2, <3>1, TailLast
  <2>5. next < Len(cleaned.asm) => next + 1 = Len(cleaned.asm)
    BY <1>1, <1>3, <1>4, <2>1
  <2>6. next \in 0 .. Len(cleaned.asm)
    BY <1>1, <1>3, <1>4, <2>1
  <2> HIDE DEF next
  <2> QED
    BY <2>4, <2>5, <2>6
<1> HIDE DEF restores, next
<1>11. Stays(cleaned, h)
  BY <1>5, <1>7, <1>10, PiecePut
<1> QED
  BY <1>6, <1>7, <1>9, <1>11, StaysTwice

LEMMA CallLine ==
  ASSUME LayoutKnown, NEW g, InFunction(g), NEW i \in 1 .. Len(code.lines),
         code.lines[i].op = "CALL", g.currentFunction = FunctionOf(i),
         \A m \in 0 .. Len(code.params[code.lines[i].dest]) : TailOf(g.asm, m)
  PROVE  /\ Stays(g, Convert(g, code.lines[i]))
         /\ TailGrown(g.asm, Convert(g, code.lines[i]).asm)
<1> DEFINE l == code.lines[i]
           m == lookupFunctionArgSize(l.dest) \div 4
           call == InsTo("CALL", l.dest)
           prepared == prepareCall(g, l.dest)
           called == addMnemonic(prepared, call)
           kept == storeOperandFromRegister(called, l.target, Reg("EAX"))
           stored == IF TypeOf[l.target] = "NONE" THEN called
                     ELSE [kept EXCEPT !.resultAvailable = TRUE]
<1>1. TypeOK
  BY DEF LayoutKnown
<1>2. /\ call \in Instructions /\ IsConverted(code) /\ IsProgram(code) /\ i \in DOMAIN code.lines
      /\ HasOperands(l) /\ FlowsWithin(code, i)
  BY <1>1, LineFacts, LinesKnown
<1>3. l.dest \in Entered(code) /\ l.target \in Vars
  BY <1>2 DEF FlowsWithin, HasOperands
<1>4. Len(code.params[l.dest]) \in Nat
  <2>1. l.dest \in Functions
    <3>1. \A j \in EntryLines(code) : code.lines[j].dest \in Functions
      BY <1>2 DEF IsProgram, EntryLines
    <3> QED
      BY <1>3, <3>1 DEF Entered
  <2> HIDE DEF l
  <2>2. code.params[l.dest] \in Seq(Types)
    <3>1. code.params \in [Functions -> Seq(Types)]
      BY <1>2 DEF IsProgram
    <3> HIDE DEF l
    <3> QED
      BY <2>1, <3>1
  <2> QED
    BY <2>2, LenProperties
<1>5. m \in 0 .. Len(code.params[l.dest]) /\ lookupFunctionArgSize(l.dest) \in Nat
  <2> HIDE DEF l
  <2> QED
    BY <1>4, ArgumentsBounded
<1>6. m \in Nat /\ TailOf(g.asm, m)
  BY <1>4, <1>5
<1>7. Convert(g, l) = cleanUpCall(stored, l.dest)
  <2>1. Convert(g, l) = convertCall(g, l)
    BY DEF Convert, ArithmeticOps, LogicOps
  <2> QED
    BY <2>1 DEF convertCall
<1>8. <<g.currentFunction, l.dest>> \in StaticCallGraph.edge
  <2>1. i \in LinesWith("CALL")
    BY <1>2, LinesKnown DEF LinesWith
  <2> QED
    BY <2>1 DEF StaticCallGraph
<1>9. Stays(g, prepared)
  BY <1>6, CallPrepared
<1>10. InFunction(prepared) /\ prepared.currentFunction = g.currentFunction
  BY <1>9, StaysIn DEF Stays
<1> HIDE DEF prepared
<1>11. Stays(prepared, called) /\ TailGrown(prepared.asm, called.asm)
  <2>1. /\ Inside(call) /\ call.i = "CALL" /\ call.dest = l.dest
        /\ GoesOn(call) \/ Ends(call)
    BY JumpsInside
  <2> HIDE DEF call, l
  <2>2. Fits(prepared.currentFunction, call)
    BY <1>3, <1>8, <1>10, <2>1 DEF Fits, IsCall
  <2> QED
    BY <1>2, <1>10, <2>1, <2>2, InstructionAdded
<1> HIDE DEF called
<1>12. InFunction(called) /\ called \in GasStates
  BY <1>10, <1>11, StaysIn DEF InFunction
<1>13. Stays(called, stored)
  <2>1. AppendsSome(called, kept)
    <3>1. Reg("EAX") \in SafeOperands
      BY Operands86 DEF Registers
    <3> QED
      BY <1>3, <1>12, <3>1, OperandStored
  <2> HIDE DEF kept
  <2>2. Stays(called, kept)
    BY <1>12, <2>1, AppendsStays DEF AppendsSome
  <2>3. InFunction(kept)
    BY <1>12, <2>2, StaysIn
  <2>4. Stays(kept, [kept EXCEPT !.resultAvailable = TRUE])
    <3> DEFINE k == [kept EXCEPT !.resultAvailable = TRUE]
    <3>1. kept \in GasStates
      BY <2>3 DEF InFunction
    <3>2. k \in GasStates
      BY <3>1 DEF GasStates
    <3>3. k.asm = kept.asm /\ k.currentFunction = kept.currentFunction
          /\ k.lastOperator = kept.lastOperator
      BY <3>1 DEF GasStates
    <3>4. kept.asm \in Seq(Instructions)
      BY <3>1 DEF GasStates
    <3>5. Advances(kept.currentFunction, kept.asm, kept.asm)
      BY <3>4, AdvancesNot
    <3> HIDE DEF k
    <3>6. Stays(kept, k)
      BY <3>2, <3>3, <3>5 DEF Stays
    <3> QED
      BY <3>6 DEF k
  <2>5. Stays(called, called)
    <3>1. called.asm \in Seq(Instructions)
      BY <1>12 DEF GasStates
    <3> QED
      BY <1>12, <3>1, AdvancesNot DEF Stays
  <2> QED
    BY <2>2, <2>4, <2>5, StaysTwice
<1> HIDE DEF stored
<1>14. Stays(g, called) /\ TailGrown(g.asm, called.asm)
  BY <1>9, <1>11, StaysTwice
<1>15. Stays(g, stored) /\ TailGrown(g.asm, stored.asm)
  BY <1>13, <1>14, StaysTwice
<1>16. TailOf(stored.asm, 1)
  <2>1. TailOf(g.asm, 0) /\ 0 \in Nat /\ 0 + 1 = 1
    <3>1. Len(g.asm) \in Nat
      BY DEF InFunction, GasStates
    <3> QED
      BY <3>1 DEF TailOf
  <2>2. TailOf(stored.asm, 0 + 1)
    BY <1>15, <2>1 DEF TailGrown
  <2> QED
    BY <2>1, <2>2
<1>17. InFunction(stored)
  BY <1>15, StaysIn
<1>18. Stays(stored, Convert(g, l))
  BY <1>5, <1>7, <1>16, <1>17, CallCleanedUp
<1> QED
  BY <1>15, <1>18, StaysTwice DEF l

-----------------------------------------------------------------------------
(* Returns and entries.                                                    *)
LEMMA RegistersPut ==
  ASSUME NEW g, InFunction(g), NEW list \in Seq(Registers \ {"EBP", "ESP"})
  PROVE  /\ Stays(g, storeRegisters(g, list, Len(g.asm)))
         /\ Stays(g, restoreRegisters(g, list, Len(g.asm)))
<1>1. g \in GasStates /\ Len(g.asm) \in Nat
  BY DEF InFunction, GasStates
<1>2. ASSUME NEW s \in Seq(PlainInstructions)
      PROVE  Stays(g, [g EXCEPT !.asm = Inserted(g.asm, Len(g.asm), s)])
  <2>1. Len(g.asm) \in 0 .. Len(g.asm) /\ ~(Len(g.asm) < Len(g.asm))
    BY <1>1
  <2>2. g.resultAvailable \in BOOLEAN
    BY <1>1 DEF GasStates
  <2>3. Stays(g, CodeSet(g, Inserted(g.asm, Len(g.asm), s), g.resultAvailable))
    BY <2>1, <2>2, PiecePut, Zenon
  <2> QED
    BY <1>1, <2>3, CodeSetOnce, Zenon
<1> DEFINE saves == [k \in DOMAIN list |-> Ins("SAVE", Reg(list[k]), NoOp)]
           restores == [k \in DOMAIN list |-> Ins("RESTORE", Reg(list[k]), NoOp)]
<1>3. saves \in Seq(PlainInstructions) /\ restores \in Seq(PlainInstructions)
  BY RegisterMoves
<1>4. /\ storeRegisters(g, list, Len(g.asm)) = [g EXCEPT !.asm = Inserted(g.asm, Len(g.asm), saves)]
      /\ restoreRegisters(g, list, Len(g.asm)) = [g EXCEPT !.asm = Inserted(g.asm, Len(g.asm), restores)]
  BY DEF storeRegisters, restoreRegisters, Inserted
<1> HIDE DEF saves, restores
<1> QED
  BY <1>2, <1>3, <1>4

LEMMA MnemonicsAdded ==
  ASSUME NEW g \in GasStates, NEW s, g.asm \o s \in Seq(Instructions)
  PROVE  /\ addMnemonics(g, s) \in GasStates /\ addMnemonics(g, s).asm = g.asm \o s
         /\ addMnemonics(g, s).currentFunction = g.currentFunction
         /\ addMnemonics(g, s).lastOperator = g.lastOperator
<1> DEFINE b == g.asm \o s
           h == [g EXCEPT !.asm = b]
<1>1. addMnemonics(g, s) = h
  BY DEF addMnemonics
<1> HIDE DEF b
<1>2. b \in Seq(Instructions)
  BY DEF b
<1>3. h \in GasStates
  BY <1>2 DEF GasStates
<1>4. h.asm = b
  BY DEF GasStates
<1>5. h.currentFunction = g.currentFunction /\ h.lastOperator = g.lastOperator
  BY DEF GasStates
<1> HIDE DEF h
<1> QED
  BY <1>1, <1>3, <1>4, <1>5 DEF b

LEMMA ThreeJoined ==
  ASSUME NEW S, NEW d \in S, NEW r \in S, NEW l \in S
  PROVE  <<d, r>> \o <<l>> = <<d, r, l>> /\ <<l>> \o <<d, r>> = <<l, d, r>>
<1>1. /\ <<d, r>> \in Seq(S) /\ <<l>> \in Seq(S) /\ Len(<<d, r>>) = 2 /\ Len(<<l>>) = 1
      /\ <<d, r>>[1] = d /\ <<d, r>>[2] = r /\ <<l>>[1] = l
  OBVIOUS
<1> DEFINE u == <<d, r>>
           w == <<l>>
           y == u \o w
           z == w \o u
<1> HIDE DEF u, w
<1>3. y \in Seq(S) /\ z \in Seq(S) /\ Len(y) = 3 /\ Len(z) = 3
  BY <1>1, Joined DEF u, w
<1>4. y[1] = d /\ y[2] = r /\ y[3] = l
  <2>1. /\ \A k \in 1 .. Len(u) : y[k] = u[k]
        /\ \A k \in 1 .. Len(w) : y[Len(u) + k] = w[k]
    BY <1>1, Joined DEF u, w
  <2>2. Len(u) = 2 /\ Len(w) = 1 /\ u[1] = d /\ u[2] = r /\ w[1] = l
    BY <1>1 DEF u, w
  <2> HIDE DEF y
  <2> QED
    BY <2>1, <2>2
<1>5. z[1] = l /\ z[2] = d /\ z[3] = r
  <2>1. /\ \A k \in 1 .. Len(w) : z[k] = w[k]
        /\ \A k \in 1 .. Len(u) : z[Len(w) + k] = u[k]
    BY <1>1, Joined DEF u, w
  <2>2. Len(u) = 2 /\ Len(w) = 1 /\ u[1] = d /\ u[2] = r /\ w[1] = l
    BY <1>1 DEF u, w
  <2> HIDE DEF z
  <2> QED
    BY <2>1, <2>2
<1>6. /\ <<d, r, l>> \in Seq(S) /\ Len(<<d, r, l>>) = 3
      /\ <<l, d, r>> \in Seq(S) /\ Len(<<l, d, r>>) = 3
  OBVIOUS
<1> HIDE DEF y, z
<1>7. y = <<d, r, l>> /\ z = <<l, d, r>>
  <2>1. \A k \in 1 .. 3 : y[k] = <<d, r, l>>[k] /\ z[k] = <<l, d, r>>[k]
    <3>1. \A k \in 1 .. 3 : k = 1 \/ k = 2 \/ k = 3
      OBVIOUS
    <3> QED
      BY <1>4, <1>5, <3>1
  <2> QED
    BY <1>3, <1>6, <2>1, SeqEqual
<1> QED
  BY <1>7 DEF y, z, u, w

LEMMA FramesKnown ==
  /\ DropFrame \in Instructions /\ RestoreFrame \in Instructions /\ LeaveFunction \in Instructions
  /\ SaveFrame \in Instructions /\ SetFrame \in Instructions
  BY FrameTypes DEF FrameInstructions

LEMMA AssociativeIn ==
  ASSUME NEW S, NEW a \in Seq(S), NEW b \in Seq(S), NEW c \in Seq(S)
  PROVE  (a \o b) \o c = a \o (b \o c)
  BY ConcatAssociative

LEMMA Associative ==
  ASSUME NEW a \in Seq(Instructions), NEW b \in Seq(Instructions), NEW c \in Seq(Instructions)
  PROVE  (a \o b) \o c = a \o (b \o c) /\ a \o b \in Seq(Instructions)
<1>1. (a \o b) \o c = a \o (b \o c)
  <2> DEFINE S == Instructions
  <2>1. a \in Seq(S) /\ b \in Seq(S) /\ c \in Seq(S)
    OBVIOUS
  <2> HIDE DEF S
  <2> QED
    BY <2>1, AssociativeIn
<1>2. a \o b \in Seq(Instructions)
  BY Joined, Zenon
<1> QED
  BY <1>1, <1>2

LEMMA EpilogueJoined ==
  ASSUME NEW a \in Seq(Instructions), NEW x \in Seq(Instructions)
  PROVE  (a \o (x \o <<DropFrame, RestoreFrame>>)) \o <<LeaveFunction>>
           = (a \o x) \o <<DropFrame, RestoreFrame, LeaveFunction>>
<1> DEFINE u == <<DropFrame, RestoreFrame>>
           w == <<LeaveFunction>>
           y == <<DropFrame, RestoreFrame, LeaveFunction>>
<1>1. u \in Seq(Instructions) /\ w \in Seq(Instructions) /\ u \o w = y
  BY FramesKnown, ThreeJoined
<1> HIDE DEF u, w, y
<1>3. a \o x \in Seq(Instructions)
  BY Associative, Zenon
<1>4. a \o (x \o u) = (a \o x) \o u
  BY <1>1, Associative, Zenon
<1>5. ((a \o x) \o u) \o w = (a \o x) \o (u \o w)
  BY <1>1, <1>3, Associative, Zenon
<1>6. (a \o (x \o u)) \o w = (a \o x) \o y
  BY <1>1, <1>4, <1>5
<1> QED
  BY <1>6 DEF u, w, y

LEMMA PrologueJoined ==
  ASSUME NEW a \in Seq(Instructions), NEW x \in Seq(Instructions), NEW l \in Instructions
  PROVE  (a \o <<l>>) \o (<<SaveFrame, SetFrame>> \o x)
           = (a \o <<l, SaveFrame, SetFrame>>) \o x
<1> DEFINE u == <<SaveFrame, SetFrame>>
           w == <<l>>
           y == <<l, SaveFrame, SetFrame>>
<1>1. u \in Seq(Instructions) /\ w \in Seq(Instructions) /\ w \o u = y
  BY FramesKnown, ThreeJoined
<1> HIDE DEF u, w, y
<1>3. a \o w \in Seq(Instructions)
  BY <1>1, Associative, Zenon
<1>4. (a \o w) \o (u \o x) = ((a \o w) \o u) \o x
  BY <1>1, <1>3, Associative, Zenon
<1>5. (a \o w) \o u = a \o (w \o u)
  BY <1>1, Associative, Zenon
<1>6. (a \o w) \o (u \o x) = (a \o y) \o x
  BY <1>1, <1>4, <1>5
<1> QED
  BY <1>6 DEF u, w, y

LEMMA SpaceMoved ==
  ASSUME LayoutKnown, NEW f \in Functions, NEW name \in {"ADD", "SUB"}
  PROVE  (IF functionStackSpace[f] > 0
          THEN <<Ins(name, Reg("ESP"), Imm(functionStackSpace[f]))>> ELSE <<>>)
            \in Seq(PlainInstructions)
<1>1. functionStackSpace[f] \in Int
  BY DEF LayoutKnown, TypeOK
<1>2. Ins(name, Reg("ESP"), Imm(functionStackSpace[f])) \in PlainInstructions
  BY <1>1, Operands86, EmitsMove
<1> QED
  BY <1>2

LEMMA LabelsKeptTwice ==
  ASSUME NEW a, NEW b, NEW c, LabelsKept(a, b), LabelsKept(b, c)
  PROVE  LabelsKept(a, c)
  BY DEF LabelsKept, Labelled

LEMMA ReturnLine ==
  ASSUME LayoutKnown, NEW g, InFunction(g), NEW l, HasOperands(l), l.op = "RET",
         InCode(g.asm, g.currentFunction)
  PROVE  LET h == Convert(g, l)
         IN /\ h \in GasStates /\ h.currentFunction = g.currentFunction
            /\ h.lastOperator = g.lastOperator
            /\ Closed(h.asm) /\ LabelsKept(g.asm, h.asm)
<1> DEFINE f == g.currentFunction
           v == loadOperand(g, l.arg1, NoOp)
           value == IF l.arg1 = NoOperand THEN g
                    ELSE addMnemonic(v.g, Ins("MOV", Reg("EAX"), v.o))
           c == cleanUpArrays(value, l)
           space == functionStackSpace[f]
           x == IF space > 0 THEN <<Ins("ADD", Reg("ESP"), Imm(space))>> ELSE <<>>
           list == <<"ESI", "EDI", "EBX">>
           restored == restoreRegisters(c, list, Len(c.asm))
           left == addMnemonics(restored, x \o <<DropFrame, RestoreFrame>>)
           h == addMnemonic(left, LeaveFunction)
<1>0. g \in GasStates /\ f \in Functions
  BY DEF InFunction
<1>1. Convert(g, l) = h
  <2>1. Convert(g, l) = convertReturn(g, l)
    BY DEF Convert, ArithmeticOps, LogicOps
  <2>2. convertReturn(g, l) = addMnemonic(createFunctionEpilog(c, f), LeaveFunction)
    BY DEF convertReturn, LeaveFunction
  <2> HIDE DEF c
  <2>3. createFunctionEpilog(c, f) = left
    BY DEF createFunctionEpilog, DropFrame, RestoreFrame
  <2> QED
    BY <2>1, <2>2, <2>3
<1>2. Appends(g, value)
  <2>1. CASE l.arg1 = NoOperand
    BY <2>1, InFunctionAppends
  <2>2. CASE l.arg1 # NoOperand
    <3>1. l.arg1 \in Operands
      BY <2>2 DEF HasOperands
    <3>2. Appends(g, v.g) /\ v.o \in SafeOperands
      BY <3>1, InFunctionAppends, ThenLoads, Operands86
    <3> HIDE DEF v
    <3>3. Ins("MOV", Reg("EAX"), v.o) \in PlainInstructions
      <4>1. "MOV" \in PlainNames
        BY DEF PlainNames
      <4>2. Reg("EAX") \in SafeOperands
        BY Operands86 DEF Registers
      <4> QED
        BY <3>2, <4>1, <4>2, Emits, Operands86
    <3> QED
      BY <2>2, <3>2, <3>3, ThenEmitsOne DEF AppendsSome
  <2> QED
    BY <2>1, <2>2
<1> HIDE DEF value
<1>3. Appends(g, c)
  <2>1. value \in GasStates
    BY <1>2, AppendsState
  <2>2. Appends(value, c)
    BY <2>1, ArraysFreed
  <2> QED
    BY <1>2, <2>2, AppendsThen
<1> HIDE DEF c
<1>4. Stays(g, c) /\ InFunction(c)
  BY <1>3, AppendsStays, AppendsIn
<1>5. Stays(c, restored)
  <2>1. list \in Seq(Registers \ {"EBP", "ESP"})
    BY DEF Registers
  <2> QED
    BY <1>4, <2>1, RegistersPut
<1>6. Stays(g, restored) /\ InFunction(restored)
  BY <1>4, <1>5, StaysTwice, StaysIn
<1>7. x \in Seq(PlainInstructions) /\ x \in Seq(Instructions)
  <2>1. x \in Seq(PlainInstructions)
    BY <1>0, SpaceMoved
  <2> QED
    BY <2>1, PlainSubset
<1> HIDE DEF restored, x
<1>8. restored \in GasStates /\ restored.asm \in Seq(Instructions)
      /\ InCode(restored.asm, f) /\ restored.currentFunction = f
      /\ restored.lastOperator = g.lastOperator /\ LabelsKept(g.asm, restored.asm)
  BY <1>6 DEF Stays, Advances, InFunction, GasStates
<1> DEFINE a == restored.asm
           b == a \o x
<1>9. b \in Seq(Instructions) /\ InCode(b, f) /\ LabelsKept(g.asm, b)
  <2>1. b \in Seq(Instructions) /\ InsertedFacts(a, Len(a), x, b)
    BY <1>7, <1>8, InsertedLast
  <2>2. Len(a) \in 0 .. Len(a) /\ ~(Len(a) < Len(a))
    BY <1>8
  <2> HIDE DEF a, b
  <2>3. Advances(f, a, b)
    BY <1>0, <1>7, <1>8, <2>1, <2>2, PlainAdvances DEF a
  <2> QED
    BY <1>8, <2>1, <2>3, LabelsKeptTwice DEF Advances, a
<1>10. DropFrame \in Instructions /\ RestoreFrame \in Instructions /\ LeaveFunction \in Instructions
  BY FrameTypes DEF FrameInstructions
<1>11. left \in GasStates /\ left.asm = a \o (x \o <<DropFrame, RestoreFrame>>)
       /\ left.currentFunction = f /\ left.lastOperator = g.lastOperator
  <2> DEFINE y == x \o <<DropFrame, RestoreFrame>>
  <2>1. y \in Seq(Instructions)
    BY <1>7, <1>10
  <2> HIDE DEF y
  <2>2. a \o y \in Seq(Instructions)
    BY <1>8, <2>1, Joined
  <2> QED
    BY <1>8, <2>2, MnemonicsAdded DEF y
<1>12. (a \o (x \o <<DropFrame, RestoreFrame>>)) \o <<LeaveFunction>>
         = b \o <<DropFrame, RestoreFrame, LeaveFunction>>
  <2>1. a \in Seq(Instructions)
    BY <1>8
  <2> HIDE DEF a
  <2>2. x \in Seq(Instructions)
    BY <1>7
  <2> QED
    BY <2>1, <2>2, EpilogueJoined
<1> DEFINE z == b \o <<DropFrame, RestoreFrame, LeaveFunction>>
<1> HIDE DEF b, left
<1>13. z \in Seq(Instructions) /\ Closed(z) /\ LabelsKept(b, z)
  BY <1>0, <1>9, EpilogueCloses
<1> HIDE DEF z
<1>14. left.asm \o <<LeaveFunction>> = z
  BY <1>11, <1>12 DEF z
<1>15. h \in GasStates /\ h.asm = z /\ h.currentFunction = f /\ h.lastOperator = g.lastOperator
  BY <1>11, <1>13, <1>14, MnemonicsAdded DEF addMnemonic
<1> QED
  BY <1>1, <1>9, <1>13, <1>15, LabelsKeptTwice

LEMMA LabelKept ==
  ASSUME NEW a, NEW b, NEW d, LabelsKept(a, b), Labelled(a, d)
  PROVE  Labelled(b, d)
  BY DEF LabelsKept, Labelled

LEMMA FunctionSet ==
  ASSUME NEW g \in GasStates, NEW f \in Functions
  PROVE  LET h == [g EXCEPT !.currentFunction = f]
         IN /\ h \in GasStates /\ h.asm = g.asm /\ h.currentFunction = f
            /\ h.lastOperator = g.lastOperator
<1> DEFINE h == [g EXCEPT !.currentFunction = f]
<1>1. h \in GasStates
  BY DEF GasStates
<1>2. h.asm = g.asm /\ h.currentFunction = f /\ h.lastOperator = g.lastOperator
  BY DEF GasStates
<1> QED
  BY <1>1, <1>2

LEMMA EntryLine ==
  ASSUME LayoutKnown, NEW g \in GasStates, Closed(g.asm), NEW l, l.op = "ENTRY",
         l.dest \in Functions, InsTo("LABEL", l.dest) \in Instructions
  PROVE  LET h == Convert(g, l)
         IN /\ h \in GasStates /\ h.currentFunction = l.dest
            /\ h.lastOperator = g.lastOperator
            /\ InCode(h.asm, l.dest) /\ LabelsKept(g.asm, h.asm) /\ Labelled(h.asm, l.dest)
<1> DEFINE f == l.dest
           lab == InsTo("LABEL", f)
           labelled == addMnemonic(g, lab)
           entered == [labelled EXCEPT !.currentFunction = f]
           space == functionStackSpace[f]
           x == IF space > 0 THEN <<Ins("SUB", Reg("ESP"), Imm(space))>> ELSE <<>>
           frame == addMnemonics(entered, <<SaveFrame, SetFrame>> \o x)
           list == <<"EBX", "EDI", "ESI">>
           kept == storeRegisters(frame, list, Len(frame.asm))
           h == addMnemonics(kept, ParameterMoves(f))
           a == g.asm
           z == a \o <<lab, SaveFrame, SetFrame>>
<1>1. Convert(g, l) = h
  <2>1. Convert(g, l) = convertLabel(g, l)
    BY DEF Convert, ArithmeticOps, LogicOps
  <2>2. convertLabel(g, l) = createFunctionProlog(entered, f)
    BY DEF convertLabel
  <2> HIDE DEF entered
  <2>3. createFunctionProlog(entered, f) = h
    BY DEF createFunctionProlog, SaveFrame, SetFrame
  <2> QED
    BY <2>1, <2>2, <2>3
<1>2. a \in Seq(Instructions) /\ lab \in Instructions
  BY DEF GasStates
<1>3. labelled \in GasStates /\ labelled.asm = a \o <<lab>>
      /\ labelled.lastOperator = g.lastOperator
  <2>1. <<lab>> \in Seq(Instructions)
    BY <1>2
  <2> HIDE DEF lab
  <2>2. a \o <<lab>> \in Seq(Instructions)
    BY <1>2, <2>1, Joined
  <2> QED
    BY <2>2, MnemonicsAdded DEF addMnemonic
<1> HIDE DEF labelled
<1>4. entered \in GasStates /\ entered.asm = a \o <<lab>> /\ entered.currentFunction = f
      /\ entered.lastOperator = g.lastOperator
  BY <1>3, FunctionSet
<1> HIDE DEF entered
<1>5. x \in Seq(PlainInstructions) /\ x \in Seq(Instructions)
  <2>1. x \in Seq(PlainInstructions)
    BY SpaceMoved
  <2> QED
    BY <2>1, PlainSubset
<1> HIDE DEF x
<1>6. z \in Seq(Instructions) /\ InCode(z, f) /\ LabelsKept(a, z) /\ Labelled(z, f)
  BY <1>2, PrologueOpens
<1>7. (a \o <<lab>>) \o (<<SaveFrame, SetFrame>> \o x) = z \o x
  <2> HIDE DEF a, lab
  <2> QED
    BY <1>2, <1>5, PrologueJoined
<1> HIDE DEF z, a
<1>8. z \o x \in Seq(Instructions) /\ Advances(f, z, z \o x)
  <2>1. z \o x \in Seq(Instructions) /\ InsertedFacts(z, Len(z), x, z \o x)
    BY <1>5, <1>6, InsertedLast
  <2>2. Len(z) \in 0 .. Len(z) /\ ~(Len(z) < Len(z))
    BY <1>6
  <2> QED
    BY <1>5, <1>6, <2>1, <2>2, PlainAdvances
<1>9. entered.asm \o (<<SaveFrame, SetFrame>> \o x) = z \o x
  BY <1>4, <1>7
<1>10. frame \in GasStates /\ frame.asm = z \o x /\ frame.currentFunction = f
       /\ frame.lastOperator = g.lastOperator
  BY <1>4, <1>8, <1>9, MnemonicsAdded
<1> HIDE DEF frame
<1>11. InFunction(frame)
  BY <1>10 DEF InFunction
<1>12. Stays(frame, kept)
  <2>1. list \in Seq(Registers \ {"EBP", "ESP"})
    BY DEF Registers
  <2> QED
    BY <1>11, <2>1, RegistersPut
<1>13. InFunction(kept) /\ Appends(kept, kept)
  BY <1>11, <1>12, StaysIn, InFunctionAppends
<1>14. Stays(kept, h)
  <2>1. ParameterMoves(f) \in Seq(PlainInstructions)
    BY MovesPlain
  <2> HIDE DEF kept
  <2>2. Appends(kept, h)
    BY <1>13, <2>1, ThenEmits
  <2> QED
    BY <1>13, <2>2, AppendsStays
<1> HIDE DEF kept, h
<1>15. Stays(frame, h)
  BY <1>12, <1>14, StaysTwice
<1>16. h \in GasStates /\ h.currentFunction = f /\ h.lastOperator = g.lastOperator
       /\ Advances(f, z \o x, h.asm)
  BY <1>10, <1>15 DEF Stays
<1>17. Advances(f, z, h.asm)
  BY <1>8, <1>16, AdvancesTwice
<1>18. InCode(h.asm, f) /\ LabelsKept(a, h.asm) /\ Labelled(h.asm, f)
  BY <1>6, <1>17, LabelsKeptTwice, LabelKept DEF Advances
<1> QED
  BY <1>1, <1>16, <1>18 DEF a

-----------------------------------------------------------------------------
(* What the conversion of a line leaves.                                   *)
LineDone(g, i, h) ==
  LET l == code.lines[i]
  IN /\ h \in GasStates /\ h.currentFunction = FunctionOf(i)
     /\ InCode(h.asm, FunctionOf(i)) /\ LabelsKept(g.asm, h.asm)
     /\ l.op = "RET" => Closed(h.asm)
     /\ l.op \in {"ENTRY", "LABEL"} => Labelled(h.asm, l.dest)
     /\ l.op \in ExpressionOps => TailGrown(g.asm, h.asm)

(* What it finds.                                                          *)
LineReady(g, i) ==
  LET l == code.lines[i]
  IN /\ g \in GasStates
     /\ l.op # "ENTRY" => /\ g.currentFunction = FunctionOf(i)
                          /\ InCode(g.asm, FunctionOf(i))
     /\ l.op = "ENTRY" => Closed(g.asm)
     /\ l.op = "CALL" => \A m \in 0 .. Len(code.params[l.dest]) : TailOf(g.asm, m)

LEMMA ReadyIn ==
  ASSUME TypeOK, NEW i \in 1 .. Len(code.lines), NEW g, LineReady(g, i),
         code.lines[i].op # "ENTRY"
  PROVE  InFunction(g) /\ g.currentFunction = FunctionOf(i) /\ InCode(g.asm, FunctionOf(i))
  BY FunctionsKnown DEF LineReady, InFunction

LEMMA StaysDone ==
  ASSUME TypeOK, NEW i \in 1 .. Len(code.lines), NEW g, LineReady(g, i), NEW h, Stays(g, h),
         code.lines[i].op \notin LogicOps \cup {"ENTRY", "RET"},
         code.lines[i].op = "LABEL" => Labelled(h.asm, code.lines[i].dest),
         code.lines[i].op \in ExpressionOps => TailGrown(g.asm, h.asm)
  PROVE  LineDone(g, i, h)
<1>1. InFunction(g) /\ g.currentFunction = FunctionOf(i) /\ InCode(g.asm, FunctionOf(i))
  BY ReadyIn
<1> QED
  BY <1>1 DEF LineDone, Stays, Advances

LEMMA LineOps ==
  /\ \A op \in ArithmeticOps \cup {"ASSIGN", "MINUS", "NOT", "PUSH", "POP", "JUMP", "JUMPFALSE",
                                   "LABEL", "CALL"} :
       op \notin LogicOps \cup {"ENTRY", "RET"}
  /\ \A op \in ArithmeticOps \cup {"ASSIGN", "MINUS", "NOT", "PUSH", "POP"} : op # "LABEL"
  /\ \A op \in LogicOps : op \notin {"RET", "ENTRY", "LABEL"}
  /\ "JUMP" \notin ExpressionOps /\ "JUMPFALSE" \notin ExpressionOps
  /\ "LABEL" \notin ExpressionOps /\ "RET" \notin ExpressionOps /\ "ENTRY" \notin ExpressionOps
  /\ \A op \in BodyOps :
       op \in ArithmeticOps \cup {"ASSIGN", "MINUS", "NOT", "PUSH", "POP"}
       \/ op \in LogicOps \/ op \in {"JUMP", "JUMPFALSE"} \/ op = "LABEL" \/ op = "CALL"
  BY DEF ArithmeticOps, LogicOps, ExpressionOps, BodyOps

LEMMA BodyLine ==
  ASSUME LayoutKnown, NEW i \in 1 .. Len(code.lines), NEW g, LineReady(g, i),
         code.lines[i].op \in BodyOps, ~Convert(g, code.lines[i]).failed
  PROVE  LineDone(g, i, Convert(g, code.lines[i]))
<1> DEFINE l == code.lines[i]
           h == Convert(g, l)
<1>0. TypeOK
  BY DEF LayoutKnown
<1>1. HasOperands(l) /\ l.target \in Vars \cup {NoVar}
  BY <1>0, LineFacts
<1>2. l.op # "ENTRY"
  BY LineOps
<1>3. InFunction(g) /\ g.currentFunction = FunctionOf(i) /\ InCode(g.asm, FunctionOf(i))
  BY <1>0, <1>2, ReadyIn
<1>4. CASE l.op \in ArithmeticOps \cup {"ASSIGN", "MINUS", "NOT", "PUSH", "POP"}
  <2>1. Appends(g, h) /\ (l.op \in ExpressionOps => AppendsSome(g, h))
    BY <1>1, <1>3, <1>4, PlainLines
  <2> HIDE DEF h
  <2>2. Stays(g, h) /\ (l.op \in ExpressionOps => TailGrown(g.asm, h.asm))
    BY <1>3, <2>1, AppendsStays
  <2>3. l.op \notin LogicOps \cup {"ENTRY", "RET"} /\ l.op # "LABEL"
    BY <1>4, LineOps
  <2>4. LineDone(g, i, h)
    BY <1>0, <2>2, <2>3, StaysDone
  <2> QED
    BY <2>4 DEF h
<1>5. CASE l.op \in LogicOps
  <2>1. /\ h \in GasStates /\ h.currentFunction = g.currentFunction /\ h.lastOperator = l.op
        /\ \E k : AppendsSome(g, k) /\ h.asm = k.asm
    BY <1>1, <1>3, <1>5, ComparisonLines
  <2> HIDE DEF h
  <2>2. PICK k : AppendsSome(g, k) /\ h.asm = k.asm
    BY <2>1
  <2>3. Stays(g, k) /\ TailGrown(g.asm, k.asm)
    BY <1>3, <2>2, AppendsStays DEF AppendsSome
  <2>4. l.op \notin {"RET", "ENTRY", "LABEL"}
    BY <1>5, LineOps
  <2>5. LineDone(g, i, h)
    BY <1>3, <1>5, <2>1, <2>2, <2>3, <2>4 DEF LineDone, Stays, Advances
  <2> QED
    BY <2>5 DEF h
<1>6. CASE l.op \in {"JUMP", "JUMPFALSE"}
  <2>1. Stays(g, h)
    BY <1>3, <1>6, JumpLines
  <2>2. l.op \notin LogicOps \cup {"ENTRY", "RET"} /\ l.op # "LABEL" /\ l.op \notin ExpressionOps
    BY <1>6, LineOps
  <2> HIDE DEF h
  <2>3. LineDone(g, i, h)
    BY <1>0, <2>1, <2>2, StaysDone
  <2> QED
    BY <2>3 DEF h
<1>7. CASE l.op = "LABEL"
  <2>1. Stays(g, h) /\ Labelled(h.asm, l.dest)
    BY <1>3, <1>7, LabelLine
  <2>2. l.op \notin LogicOps \cup {"ENTRY", "RET"} /\ l.op \notin ExpressionOps
    BY <1>7, LineOps
  <2> HIDE DEF h
  <2>3. LineDone(g, i, h)
    BY <1>0, <2>1, <2>2, StaysDone
  <2> QED
    BY <2>3 DEF h
<1>8. CASE l.op = "CALL"
  <2>1. \A m \in 0 .. Len(code.params[l.dest]) : TailOf(g.asm, m)
    BY <1>8 DEF LineReady
  <2>2. Stays(g, h) /\ TailGrown(g.asm, h.asm)
    BY <1>3, <1>8, <2>1, CallLine
  <2>3. l.op \notin LogicOps \cup {"ENTRY", "RET"} /\ l.op # "LABEL"
    BY <1>8, LineOps
  <2> HIDE DEF h
  <2>4. LineDone(g, i, h)
    BY <1>0, <2>2, <2>3, StaysDone
  <2> QED
    BY <2>4 DEF h
<1> QED
  BY <1>4, <1>5, <1>6, <1>7, <1>8, LineOps

LEMMA AnyLine ==
  ASSUME LayoutKnown, NEW i \in 1 .. Len(code.lines), NEW g, LineReady(g, i),
         ~Convert(g, code.lines[i]).failed
  PROVE  LineDone(g, i, Convert(g, code.lines[i]))
<1> DEFINE l == code.lines[i]
           h == Convert(g, l)
<1>0. TypeOK
  BY DEF LayoutKnown
<1>1. l.op \in BodyOps \cup {"ENTRY", "RET"} /\ HasOperands(l)
      /\ InsTo("LABEL", l.dest) \in Instructions
  BY <1>0, LineFacts
<1>2. CASE l.op = "ENTRY"
  <2>1. FunctionOf(i) = l.dest /\ l.dest \in Functions
    BY <1>0, <1>2, EntryKnown
  <2>2. g \in GasStates /\ Closed(g.asm)
    BY <1>2 DEF LineReady
  <2>3. /\ h \in GasStates /\ h.currentFunction = l.dest /\ h.lastOperator = g.lastOperator
        /\ InCode(h.asm, l.dest) /\ LabelsKept(g.asm, h.asm) /\ Labelled(h.asm, l.dest)
    BY <1>1, <1>2, <2>1, <2>2, EntryLine
  <2>4. l.op \notin LogicOps /\ l.op \notin ExpressionOps
    BY <1>2, LineOps
  <2> HIDE DEF h
  <2>5. LineDone(g, i, h)
    BY <1>2, <2>1, <2>3, <2>4 DEF LineDone
  <2> QED
    BY <2>5 DEF h
<1>3. CASE l.op = "RET"
  <2>1. InFunction(g) /\ g.currentFunction = FunctionOf(i) /\ InCode(g.asm, FunctionOf(i))
    BY <1>0, <1>3, ReadyIn
  <2>2. /\ h \in GasStates /\ h.currentFunction = g.currentFunction
        /\ h.lastOperator = g.lastOperator /\ Closed(h.asm) /\ LabelsKept(g.asm, h.asm)
    BY <1>1, <1>3, <2>1, ReturnLine
  <2>3. l.op \notin LogicOps /\ l.op \notin ExpressionOps
    BY <1>3, LineOps
  <2> HIDE DEF h
  <2>4. InCode(h.asm, FunctionOf(i))
    BY <2>2 DEF Closed, InCode, GoesOnIn
  <2>5. LineDone(g, i, h)
    BY <1>3, <2>1, <2>2, <2>3, <2>4 DEF LineDone
  <2> QED
    BY <2>5 DEF h
<1> QED
  BY <1>1, <1>2, <1>3, BodyLine

LEMMA FailedSet ==
  ASSUME NEW g \in GasStates, NEW b \in BOOLEAN
  PROVE  Appends(g, [g EXCEPT !.failed = b]) /\ [g EXCEPT !.failed = b].failed = b
<1> DEFINE h == [g EXCEPT !.failed = b]
<1>1. h \in GasStates
  BY DEF GasStates
<1>2. /\ h.asm = g.asm /\ h.currentFunction = g.currentFunction
      /\ h.lastOperator = g.lastOperator /\ h.failed = b
  BY DEF GasStates
<1> HIDE DEF h
<1>3. Appends(g, h) /\ h.failed = b
  BY <1>1, <1>2, SameCode
<1> QED
  BY <1>3 DEF h

LEMMA AppendsReady ==
  ASSUME TypeOK, NEW i \in 1 .. Len(code.lines), NEW g, LineReady(g, i), NEW h, Appends(g, h)
  PROVE  /\ LineReady(h, i)
         /\ LabelsKept(g.asm, h.asm) /\ TailKept(g.asm, h.asm)
         /\ h.lastOperator = g.lastOperator
<1>1. g \in GasStates
  BY DEF LineReady
<1>2. FunctionOf(i) \in Functions
  BY FunctionsKnown
<1>3. Advances(FunctionOf(i), g.asm, h.asm) /\ (Closed(g.asm) => Closed(h.asm))
  BY <1>1, <1>2, AppendsAdvances
<1>4. h \in GasStates /\ h.currentFunction = g.currentFunction /\ h.lastOperator = g.lastOperator
  BY DEF Appends
<1>5. /\ InCode(g.asm, FunctionOf(i)) => InCode(h.asm, FunctionOf(i))
      /\ LabelsKept(g.asm, h.asm) /\ TailKept(g.asm, h.asm)
  BY <1>3 DEF Advances
<1>6. ASSUME code.lines[i].op = "CALL",
             NEW m \in 0 .. Len(code.params[code.lines[i].dest])
      PROVE  TailOf(h.asm, m)
  <2>1. TailOf(g.asm, m) /\ m \in Nat
    BY <1>6 DEF LineReady
  <2> QED
    BY <1>5, <2>1 DEF TailKept
<1>7. LineReady(h, i)
  BY <1>3, <1>4, <1>5, <1>6 DEF LineReady
<1> QED
  BY <1>4, <1>5, <1>7

LEMMA TailKeptGrown ==
  ASSUME NEW a, NEW b, NEW c
  PROVE  /\ TailKept(a, b) /\ TailGrown(b, c) => TailGrown(a, c)
         /\ TailGrown(a, b) /\ TailKept(b, c) => TailGrown(a, c)
<1>1. \A m \in Nat : m + 1 \in Nat
  OBVIOUS
<1> QED
  BY <1>1 DEF TailKept, TailGrown

LEMMA AppendsDone ==
  ASSUME TypeOK, NEW i \in 1 .. Len(code.lines), NEW g, NEW h, LineDone(g, i, h),
         NEW k, Appends(h, k)
  PROVE  LineDone(g, i, k)
<1>1. h \in GasStates
  BY DEF LineDone
<1>2. FunctionOf(i) \in Functions
  BY FunctionsKnown
<1>3. Advances(FunctionOf(i), h.asm, k.asm) /\ (Closed(h.asm) => Closed(k.asm))
  BY <1>1, <1>2, AppendsAdvances
<1>4. k \in GasStates /\ k.currentFunction = h.currentFunction /\ k.lastOperator = h.lastOperator
  BY DEF Appends
<1>5. /\ InCode(h.asm, FunctionOf(i)) => InCode(k.asm, FunctionOf(i))
      /\ LabelsKept(h.asm, k.asm) /\ TailKept(h.asm, k.asm)
  BY <1>3 DEF Advances
<1>6. LabelsKept(g.asm, k.asm)
  BY <1>5, LabelsKeptTwice DEF LineDone
<1>7. code.lines[i].op \in {"ENTRY", "LABEL"} => Labelled(k.asm, code.lines[i].dest)
  BY <1>5, LabelKept DEF LineDone
<1>8. code.lines[i].op \in ExpressionOps => TailGrown(g.asm, k.asm)
  BY <1>5, TailKeptGrown DEF LineDone
<1> QED
  BY <1>3, <1>4, <1>5, <1>6, <1>7, <1>8 DEF LineDone

LEMMA ArraysKnown ==
  ASSUME TypeOK
  PROVE  /\ Len(code.arrays) \in Nat /\ DOMAIN code.arrays = 1 .. Len(code.arrays)
         /\ \A k \in DOMAIN code.arrays :
              code.arrays[k].array \in Arrays
              /\ code.arrayLength[code.arrays[k].array] \in Scalars
<1>1. code.arrays \in Seq([array : Arrays, line : Nat])
  BY LinesKnown DEF IsProgram
<1>2. \A k \in DOMAIN code.arrays : code.arrayLength[code.arrays[k].array] \in Scalars
  BY LinesKnown DEF IsConverted
<1> DEFINE S == [array : Arrays, line : Nat]
           s == code.arrays
<1>3. s \in Seq(S) /\ \A d \in S : d.array \in Arrays
  BY <1>1
<1> HIDE DEF S, s
<1>4. Len(s) \in Nat /\ DOMAIN s = 1 .. Len(s) /\ \A k \in 1 .. Len(s) : s[k] \in S
  BY <1>3
<1> QED
  BY <1>2, <1>3, <1>4 DEF s

LEMMA WholeLine ==
  ASSUME LayoutKnown, NEW i \in 1 .. Len(code.lines), NEW g, LineReady(g, i),
         ~convertLine(g, i).failed
  PROVE  LineDone(g, i, convertLine(g, i))
<1> DEFINE l == code.lines[i]
           cleaned == IF l.op # "RET" /\ IsScopeEnd(i) THEN cleanUpArrays(g, l) ELSE g
           converted == Convert(cleaned, l)
           done == declareArrays(converted, i)
           b == i = Len(code.lines) /\ done.declaredArrays # <<>>
           h == [done EXCEPT !.failed = b]
<1>0. TypeOK /\ g \in GasStates
  BY DEF LayoutKnown, LineReady
<1>1. convertLine(g, i) = IF converted.failed THEN converted ELSE h
  BY DEF convertLine
<1>2. ~converted.failed /\ convertLine(g, i) = h
  <2> HIDE DEF converted, h
  <2> QED
    BY <1>1
<1>3. Appends(g, cleaned)
  BY <1>0, ArraysFreed, AppendsItself
<1> HIDE DEF cleaned
<1>4. /\ LineReady(cleaned, i) /\ LabelsKept(g.asm, cleaned.asm)
      /\ TailKept(g.asm, cleaned.asm) /\ cleaned.lastOperator = g.lastOperator
  BY <1>0, <1>3, AppendsReady
<1>5. LineDone(cleaned, i, converted)
  BY <1>2, <1>4, AnyLine
<1> HIDE DEF converted
<1>6. LineDone(g, i, converted)
  <2>1. LabelsKept(g.asm, converted.asm)
    BY <1>4, <1>5, LabelsKeptTwice DEF LineDone
  <2>2. l.op \in ExpressionOps => TailGrown(g.asm, converted.asm)
    BY <1>4, <1>5, TailKeptGrown DEF LineDone
  <2> QED
    BY <1>4, <1>5, <2>1, <2>2 DEF LineDone
<1>7. InFunction(converted)
  BY <1>0, <1>6, FunctionsKnown DEF LineDone, InFunction
<1>8. Appends(converted, done)
  BY <1>0, <1>7, ArraysKnown, ArraysDeclared
<1> HIDE DEF done
<1>9. LineDone(g, i, done) /\ done \in GasStates
  BY <1>0, <1>6, <1>8, AppendsDone DEF Appends
<1>10. b \in BOOLEAN
  OBVIOUS
<1> HIDE DEF b
<1>11. Appends(done, h)
  BY <1>9, <1>10, FailedSet
<1> HIDE DEF h
<1>12. LineDone(g, i, h)
  BY <1>0, <1>9, <1>11, AppendsDone
<1> QED
  BY <1>2, <1>12

(* The generator in front of line i.                                       *)
TailOps(i, m) == \A k \in i - m .. i - 1 : k > 0 /\ code.lines[k].op \in ExpressionOps

Good(g, i) ==
  /\ g \in GasStates
  /\ i = 1 => g.asm = <<>>
  /\ i > 1 => /\ g.currentFunction = FunctionOf(i - 1)
              /\ InCode(g.asm, FunctionOf(i - 1))
              /\ code.lines[i - 1].op = "RET" => Closed(g.asm)
  /\ \A j \in 1 .. i - 1 :
       code.lines[j].op \in {"ENTRY", "LABEL"} => Labelled(g.asm, code.lines[j].dest)
  /\ \A m \in Nat : TailOps(i, m) => TailOf(g.asm, m)

LEMMA NoTail ==
  ASSUME NEW a \in Seq(Instructions) PROVE TailOf(a, 0)
<1>1. Len(a) \in Nat
  OBVIOUS
<1> QED
  BY <1>1 DEF TailOf

LEMMA NothingClosed ==
  Closed(<<>>)
<1> DEFINE own == [k \in 1 .. 0 |-> NoLabel]
<1>1. Len(<<>>) = 0 /\ 1 .. 0 = {} /\ 1 .. 0 - 1 = {}
  OBVIOUS
<1>2. CodeOf(<<>>, own) /\ ~Open(<<>>, own)
  BY <1>1 DEF CodeOf, Open
<1> QED
  BY <1>2 DEF Closed

LEMMA GoodFirst ==
  Good(NewGas, 1)
<1>1. NewGas \in GasStates
  BY DEF NewGas, GasStates, LastOperators
<1>2. NewGas.asm = <<>>
  BY DEF NewGas
<1>3. 1 .. 1 - 1 = {} /\ ~(1 > 1)
  OBVIOUS
<1>4. ASSUME NEW m \in Nat, TailOps(1, m) PROVE TailOf(<<>>, m)
  <2>1. m = 0
    <3>1. CASE m > 0
      <4>1. 0 \in 1 - m .. 1 - 1
        BY <3>1
      <4> QED
        BY <1>4, <4>1 DEF TailOps
    <3> QED
      BY <3>1
  <2>2. <<>> \in Seq(Instructions)
    OBVIOUS
  <2> QED
    BY <2>1, <2>2, NoTail
<1> QED
  BY <1>1, <1>2, <1>3, <1>4 DEF Good

LEMMA GoodReady ==
  ASSUME TypeOK, NEW i \in 1 .. Len(code.lines), NEW g, Good(g, i)
  PROVE  LineReady(g, i)
<1> DEFINE l == code.lines[i]
<1>1. /\ Len(code.lines) \in Nat /\ code.lines[1].op = "ENTRY" /\ i \in Nat
      /\ FlowsWithin(code, i) /\ IsProgram(code)
  BY LinesKnown, LineFacts
<1>2. g \in GasStates
  BY DEF Good
<1>3. ASSUME l.op # "ENTRY"
      PROVE  g.currentFunction = FunctionOf(i) /\ InCode(g.asm, FunctionOf(i))
  <2>1. i \in 2 .. Len(code.lines) /\ i > 1
    BY <1>1, <1>3
  <2>2. FunctionOf(i) = FunctionOf(i - 1)
    BY <1>3, <2>1, SameFunction
  <2> QED
    BY <2>1, <2>2 DEF Good
<1>4. ASSUME l.op = "ENTRY" PROVE Closed(g.asm)
  <2>1. CASE i = 1
    BY <2>1, NothingClosed DEF Good
  <2>2. CASE i > 1
    <3>1. code.lines[i - 1].op = "RET"
      BY <1>1, <1>4, <2>2 DEF FlowsWithin
    <3> QED
      BY <2>2, <3>1 DEF Good
  <2> QED
    BY <1>1, <2>1, <2>2
<1>5. ASSUME l.op = "CALL", NEW m \in 0 .. Len(code.params[l.dest])
      PROVE  TailOf(g.asm, m)
  <2> DEFINE n == Len(code.params[l.dest])
  <2>1. /\ l.dest \in Entered(code)
        /\ \A k \in i - n .. i - 1 : k > 0 /\ code.lines[k].op \in ExpressionOps
    BY <1>1, <1>5 DEF FlowsWithin
  <2>2. n \in Nat
    <3>1. l.dest \in Functions
      BY <1>1, <2>1 DEF IsProgram, Entered, EntryLines
    <3>2. code.params \in [Functions -> Seq(Types)]
      BY <1>1 DEF IsProgram
    <3> DEFINE s == code.params[l.dest]
               T == Types
    <3>3. s \in Seq(T)
      BY <3>1, <3>2
    <3> HIDE DEF s, T
    <3>4. Len(s) \in Nat
      BY <3>3
    <3> QED
      BY <3>4 DEF s
  <2> HIDE DEF n, l
  <2>3. m \in 0 .. n
    BY <1>5 DEF n
  <2>4. m \in Nat /\ TailOps(i, m)
    BY <1>1, <2>1, <2>2, <2>3 DEF TailOps
  <2> QED
    BY <2>4 DEF Good
<1> QED
  BY <1>2, <1>3, <1>4, <1>5 DEF LineReady

LEMMA GoodNext ==
  ASSUME TypeOK, NEW i \in 1 .. Len(code.lines), NEW g, Good(g, i),
         NEW h, LineDone(g, i, h)
  PROVE  Good(h, i + 1)
<1> DEFINE l == code.lines[i]
<1>1. /\ Len(code.lines) \in Nat /\ i \in Nat /\ (i + 1) - 1 = i /\ i + 1 > 1 /\ i + 1 # 1
  BY LinesKnown
<1>2. h \in GasStates /\ h.asm \in Seq(Instructions)
  BY DEF LineDone, GasStates
<1>3. ASSUME NEW j \in 1 .. i, code.lines[j].op \in {"ENTRY", "LABEL"}
      PROVE  Labelled(h.asm, code.lines[j].dest)
  <2>1. CASE j = i
    BY <1>3, <2>1 DEF LineDone
  <2>2. CASE j # i
    <3>1. j \in 1 .. i - 1
      BY <1>1, <2>2
    <3>2. Labelled(g.asm, code.lines[j].dest)
      BY <1>3, <3>1 DEF Good
    <3> QED
      BY <3>2, LabelKept DEF LineDone
  <2> QED
    BY <2>1, <2>2
<1>4. ASSUME NEW m \in Nat, TailOps(i + 1, m) PROVE TailOf(h.asm, m)
  <2>1. CASE m = 0
    BY <1>2, <2>1, NoTail
  <2>2. CASE m > 0
    <3> DEFINE n == m - 1
    <3>1. n \in Nat /\ n + 1 = m
      BY <2>2
    <3>2. i \in (i + 1) - m .. (i + 1) - 1
      BY <1>1, <2>2
    <3>3. l.op \in ExpressionOps
      BY <1>4, <3>2 DEF TailOps
    <3>4. TailOps(i, n)
      <4>1. \A k \in i - n .. i - 1 : k \in (i + 1) - m .. (i + 1) - 1
        BY <1>1, <2>2
      <4> QED
        BY <1>4, <4>1 DEF TailOps
    <3> HIDE DEF n
    <3>5. TailOf(g.asm, n)
      BY <3>1, <3>4 DEF Good
    <3>6. TailOf(h.asm, n + 1)
      BY <3>1, <3>3, <3>5 DEF LineDone, TailGrown
    <3> QED
      BY <3>1, <3>6
  <2> QED
    BY <2>1, <2>2
<1> QED
  BY <1>1, <1>2, <1>3, <1>4 DEF Good, LineDone

LEMMA GoodLine ==
  ASSUME LayoutKnown, NEW i \in 1 .. Len(code.lines), NEW g, Good(g, i),
         ~convertLine(g, i).failed
  PROVE  Good(convertLine(g, i), i + 1)
<1>1. TypeOK
  BY DEF LayoutKnown
<1> DEFINE h == convertLine(g, i)
<1>2. LineDone(g, i, h)
  BY <1>1, GoodReady, WholeLine
<1> HIDE DEF h
<1>3. Good(h, i + 1)
  BY <1>1, <1>2, GoodNext
<1> QED
  BY <1>3 DEF h

-----------------------------------------------------------------------------
(* What the instructions do to the registers.                              *)
Shape(m) ==
  /\ DOMAIN m = {"eip", "cmp", "fpu", "reg", "mem"}
  /\ DOMAIN m.reg = Registers

(* On to the next instruction, with the same frame.                        *)
Keeps(m, p) == Shape(p) /\ p.eip = m.eip + 1 /\ p.reg["EBP"] = m.reg["EBP"]

Onward(m) == [m EXCEPT !.eip = @ + 1]

LEMMA Updated ==
  ASSUME NEW f, NEW a, NEW v
  PROVE  LET h == [f EXCEPT ![a] = v]
         IN DOMAIN h = DOMAIN f /\ \A c \in DOMAIN f : h[c] = IF c = a THEN v ELSE f[c]
  OBVIOUS

(* The parts of the machine, set.                                          *)
RegSet(m, r, x) == [m EXCEPT !.reg[r] = x]
MemSet(m, a, x) == [m EXCEPT !.mem[a] = x]
CmpSet(m, x) == [m EXCEPT !.cmp = x]
FpuSet(m, x) == [m EXCEPT !.fpu = x]
EipAt(m, x) == [m EXCEPT !.eip = x]

LEMMA EipSet ==
  ASSUME NEW m, Shape(m), NEW x
  PROVE  Shape(EipAt(m, x)) /\ EipAt(m, x).eip = x /\ EipAt(m, x).reg = m.reg
         /\ EipAt(m, x).mem = m.mem
  BY DEF Shape, EipAt

LEMMA OthersSet ==
  ASSUME NEW m, Shape(m), NEW x, NEW a
  PROVE  /\ Shape(CmpSet(m, x)) /\ CmpSet(m, x).eip = m.eip /\ CmpSet(m, x).reg = m.reg
         /\ Shape(FpuSet(m, x)) /\ FpuSet(m, x).eip = m.eip /\ FpuSet(m, x).reg = m.reg
         /\ Shape(MemSet(m, a, x)) /\ MemSet(m, a, x).eip = m.eip /\ MemSet(m, a, x).reg = m.reg
  BY DEF Shape, CmpSet, FpuSet, MemSet

LEMMA RegisterSet ==
  ASSUME NEW m, Shape(m), NEW r, NEW x
  PROVE  /\ Shape(RegSet(m, r, x)) /\ RegSet(m, r, x).eip = m.eip
         /\ RegSet(m, r, x).mem = m.mem
         /\ \A q \in Registers : RegSet(m, r, x).reg[q] = IF q = r THEN x ELSE m.reg[q]
  BY DEF Shape, RegSet

LEMMA FrameNames ==
  "EBP" \in Registers /\ "ESP" \in Registers /\ "EDX" \in Registers /\ "EAX" \in Registers
  /\ "EBP" # "ESP" /\ "EDX" # "EBP" /\ "EAX" # "EBP" /\ "EDX" # "ESP"
  BY DEF Registers

(* Same shape, same position, same frame.                                  *)
SameFrame(p, q) == Shape(q) /\ q.eip = p.eip /\ q.reg["EBP"] = p.reg["EBP"]

LEMMA SameOnward ==
  ASSUME NEW m, Shape(m)
  PROVE  /\ Shape(Onward(m)) /\ Onward(m).eip = m.eip + 1 /\ Onward(m).reg = m.reg
         /\ Onward(m).mem = m.mem
         /\ \A p : SameFrame(Onward(m), p) => Keeps(m, p)
<1> DEFINE x == m.eip + 1
           n == EipAt(m, x)
<1>1. Onward(m) = n
  BY DEF Onward, EipAt
<1> HIDE DEF x
<1>2. Shape(n) /\ n.eip = x /\ n.reg = m.reg /\ n.mem = m.mem
  BY EipSet
<1> HIDE DEF n
<1>3. \A p : SameFrame(n, p) => Keeps(m, p)
  BY <1>2 DEF SameFrame, Keeps, x
<1> QED
  BY <1>1, <1>2, <1>3 DEF x

LEMMA SameFrameTwice ==
  ASSUME NEW m, NEW p, NEW q, SameFrame(m, p), SameFrame(p, q)
  PROVE  SameFrame(m, q)
  BY DEF SameFrame

LEMMA PartsKept ==
  ASSUME NEW m, Shape(m), NEW a, NEW x
  PROVE  /\ SameFrame(m, CmpSet(m, x)) /\ SameFrame(m, FpuSet(m, x))
         /\ SameFrame(m, MemSet(m, a, x)) /\ SameFrame(m, m)
  BY OthersSet DEF SameFrame

LEMMA RegisterKept ==
  ASSUME NEW m, Shape(m), NEW r, r # "EBP", NEW x
  PROVE  SameFrame(m, RegSet(m, r, x))
  BY RegisterSet, FrameNames DEF SameFrame

LEMMA StoredKept ==
  ASSUME NEW m, Shape(m), NEW o, ~IsRegister(o, "EBP"), NEW x
  PROVE  SameFrame(m, Stored(m, o, x))
<1>1. CASE o.k = "reg"
  <2> DEFINE r == o.r
  <2>1. r # "EBP" /\ Stored(m, o, x) = RegSet(m, r, x)
    BY <1>1 DEF IsRegister, Stored, RegSet
  <2> HIDE DEF r
  <2> QED
    BY <2>1, RegisterKept
<1>2. CASE o.k # "reg"
  <2> DEFINE a == AddressOf(m, o)
  <2>1. Stored(m, o, x) = MemSet(m, a, x)
    BY <1>2 DEF Stored, MemSet
  <2> HIDE DEF a
  <2> QED
    BY <2>1, PartsKept
<1> QED
  BY <1>1, <1>2


(* One of the effects, by the name of the instruction.                     *)
ByName(x, a1, a2, a3, a4, a5, a6, a7, a8, a9, a10, a11,
       a12, a13, a14, a15, a16, a17, a18, a19, a20, a21) ==
  CASE x = "LABEL" -> a1
    [] x = "MOV" -> a2
    [] x \in Arithmetic -> a3
    [] x = "NEG" -> a4
    [] x = "NOT" -> a5
    [] x = "CDQ" -> a6
    [] x = "IDIV" -> a7
    [] x = "CMP" -> a8
    [] x \in {"PUSH", "SAVE"} -> a9
    [] x = "RESTORE" -> a10
    [] x = "CALL" -> a11
    [] x = "RET" -> a12
    [] x = "JMP" -> a13
    [] x \in ConditionalJumps -> a14
    [] x = "FLD" -> a15
    [] x = "FCHS" -> a16
    [] x = "FSTP" -> a17
    [] x = "FPOP" -> a18
    [] x = "FXCH" -> a19
    [] x = "FUCOMIP" -> a20
    [] x \in FloatArithmetic -> a21

Target(asm, d) == CHOOSE k \in 1 .. Len(asm) : asm[k].i = "LABEL" /\ asm[k].dest = d

LEMMA Named ==
  ASSUME NEW x, NEW a1, NEW a2, NEW a3, NEW a4, NEW a5, NEW a6, NEW a7, NEW a8, NEW a9, NEW a10, NEW a11,
         NEW a12, NEW a13, NEW a14, NEW a15, NEW a16, NEW a17, NEW a18, NEW a19, NEW a20, NEW a21
  PROVE  LET e == ByName(x, a1, a2, a3, a4, a5, a6, a7, a8, a9, a10, a11,
                         a12, a13, a14, a15, a16, a17, a18, a19, a20, a21)
         IN /\ x = "LABEL" => e = a1
            /\ x = "MOV" => e = a2
            /\ x \in Arithmetic => e = a3
            /\ x = "NEG" => e = a4
            /\ x = "NOT" => e = a5
            /\ x = "CDQ" => e = a6
            /\ x = "IDIV" => e = a7
            /\ x = "CMP" => e = a8
            /\ x \in {"PUSH", "SAVE"} => e = a9
            /\ x = "RESTORE" => e = a10
            /\ x = "CALL" => e = a11
            /\ x = "RET" => e = a12
            /\ x = "JMP" => e = a13
            /\ x \in ConditionalJumps => e = a14
            /\ x = "FLD" => e = a15
            /\ x = "FCHS" => e = a16
            /\ x = "FSTP" => e = a17
            /\ x = "FPOP" => e = a18
            /\ x = "FXCH" => e = a19
            /\ x = "FUCOMIP" => e = a20
            /\ x \in FloatArithmetic => e = a21
<1>1. ASSUME x = "LABEL" PROVE ByName(x, a1, a2, a3, a4, a5, a6, a7, a8, a9, a10, a11,
         a12, a13, a14, a15, a16, a17, a18, a19, a20, a21) = a1
  BY <1>1, Zenon DEF ByName, Arithmetic, FloatArithmetic, ConditionalJumps
<1>2. ASSUME x = "MOV" PROVE ByName(x, a1, a2, a3, a4, a5, a6, a7, a8, a9, a10, a11,
         a12, a13, a14, a15, a16, a17, a18, a19, a20, a21) = a2
  BY <1>2, Zenon DEF ByName, Arithmetic, FloatArithmetic, ConditionalJumps
<1>3. ASSUME x \in Arithmetic PROVE ByName(x, a1, a2, a3, a4, a5, a6, a7, a8, a9, a10, a11,
         a12, a13, a14, a15, a16, a17, a18, a19, a20, a21) = a3
  BY <1>3, Zenon DEF ByName, Arithmetic, FloatArithmetic, ConditionalJumps
<1>4. ASSUME x = "NEG" PROVE ByName(x, a1, a2, a3, a4, a5, a6, a7, a8, a9, a10, a11,
         a12, a13, a14, a15, a16, a17, a18, a19, a20, a21) = a4
  BY <1>4, Zenon DEF ByName, Arithmetic, FloatArithmetic, ConditionalJumps
<1>5. ASSUME x = "NOT" PROVE ByName(x, a1, a2, a3, a4, a5, a6, a7, a8, a9, a10, a11,
         a12, a13, a14, a15, a16, a17, a18, a19, a20, a21) = a5
  BY <1>5, Zenon DEF ByName, Arithmetic, FloatArithmetic, ConditionalJumps
<1>6. ASSUME x = "CDQ" PROVE ByName(x, a1, a2, a3, a4, a5, a6, a7, a8, a9, a10, a11,
         a12, a13, a14, a15, a16, a17, a18, a19, a20, a21) = a6
  BY <1>6, Zenon DEF ByName, Arithmetic, FloatArithmetic, ConditionalJumps
<1>7. ASSUME x = "IDIV" PROVE ByName(x, a1, a2, a3, a4, a5, a6, a7, a8, a9, a10, a11,
         a12, a13, a14, a15, a16, a17, a18, a19, a20, a21) = a7
  BY <1>7, Zenon DEF ByName, Arithmetic, FloatArithmetic, ConditionalJumps
<1>8. ASSUME x = "CMP" PROVE ByName(x, a1, a2, a3, a4, a5, a6, a7, a8, a9, a10, a11,
         a12, a13, a14, a15, a16, a17, a18, a19, a20, a21) = a8
  BY <1>8, Zenon DEF ByName, Arithmetic, FloatArithmetic, ConditionalJumps
<1>9. ASSUME x \in {"PUSH", "SAVE"} PROVE ByName(x, a1, a2, a3, a4, a5, a6, a7, a8, a9, a10, a11,
         a12, a13, a14, a15, a16, a17, a18, a19, a20, a21) = a9
  BY <1>9, Zenon DEF ByName, Arithmetic, FloatArithmetic, ConditionalJumps
<1>10. ASSUME x = "RESTORE" PROVE ByName(x, a1, a2, a3, a4, a5, a6, a7, a8, a9, a10, a11,
         a12, a13, a14, a15, a16, a17, a18, a19, a20, a21) = a10
  BY <1>10, Zenon DEF ByName, Arithmetic, FloatArithmetic, ConditionalJumps
<1>11. ASSUME x = "CALL" PROVE ByName(x, a1, a2, a3, a4, a5, a6, a7, a8, a9, a10, a11,
         a12, a13, a14, a15, a16, a17, a18, a19, a20, a21) = a11
  BY <1>11, Zenon DEF ByName, Arithmetic, FloatArithmetic, ConditionalJumps
<1>12. ASSUME x = "RET" PROVE ByName(x, a1, a2, a3, a4, a5, a6, a7, a8, a9, a10, a11,
         a12, a13, a14, a15, a16, a17, a18, a19, a20, a21) = a12
  BY <1>12, Zenon DEF ByName, Arithmetic, FloatArithmetic, ConditionalJumps
<1>13. ASSUME x = "JMP" PROVE ByName(x, a1, a2, a3, a4, a5, a6, a7, a8, a9, a10, a11,
         a12, a13, a14, a15, a16, a17, a18, a19, a20, a21) = a13
  BY <1>13, Zenon DEF ByName, Arithmetic, FloatArithmetic, ConditionalJumps
<1>14. ASSUME x \in ConditionalJumps PROVE ByName(x, a1, a2, a3, a4, a5, a6, a7, a8, a9, a10, a11,
         a12, a13, a14, a15, a16, a17, a18, a19, a20, a21) = a14
  BY <1>14, Zenon DEF ByName, Arithmetic, FloatArithmetic, ConditionalJumps
<1>15. ASSUME x = "FLD" PROVE ByName(x, a1, a2, a3, a4, a5, a6, a7, a8, a9, a10, a11,
         a12, a13, a14, a15, a16, a17, a18, a19, a20, a21) = a15
  BY <1>15, Zenon DEF ByName, Arithmetic, FloatArithmetic, ConditionalJumps
<1>16. ASSUME x = "FCHS" PROVE ByName(x, a1, a2, a3, a4, a5, a6, a7, a8, a9, a10, a11,
         a12, a13, a14, a15, a16, a17, a18, a19, a20, a21) = a16
  BY <1>16, Zenon DEF ByName, Arithmetic, FloatArithmetic, ConditionalJumps
<1>17. ASSUME x = "FSTP" PROVE ByName(x, a1, a2, a3, a4, a5, a6, a7, a8, a9, a10, a11,
         a12, a13, a14, a15, a16, a17, a18, a19, a20, a21) = a17
  BY <1>17, Zenon DEF ByName, Arithmetic, FloatArithmetic, ConditionalJumps
<1>18. ASSUME x = "FPOP" PROVE ByName(x, a1, a2, a3, a4, a5, a6, a7, a8, a9, a10, a11,
         a12, a13, a14, a15, a16, a17, a18, a19, a20, a21) = a18
  BY <1>18, Zenon DEF ByName, Arithmetic, FloatArithmetic, ConditionalJumps
<1>19. ASSUME x = "FXCH" PROVE ByName(x, a1, a2, a3, a4, a5, a6, a7, a8, a9, a10, a11,
         a12, a13, a14, a15, a16, a17, a18, a19, a20, a21) = a19
  BY <1>19, Zenon DEF ByName, Arithmetic, FloatArithmetic, ConditionalJumps
<1>20. ASSUME x = "FUCOMIP" PROVE ByName(x, a1, a2, a3, a4, a5, a6, a7, a8, a9, a10, a11,
         a12, a13, a14, a15, a16, a17, a18, a19, a20, a21) = a20
  BY <1>20, Zenon DEF ByName, Arithmetic, FloatArithmetic, ConditionalJumps
<1>21. ASSUME x \in FloatArithmetic PROVE ByName(x, a1, a2, a3, a4, a5, a6, a7, a8, a9, a10, a11,
         a12, a13, a14, a15, a16, a17, a18, a19, a20, a21) = a21
  BY <1>21, Zenon DEF ByName, Arithmetic, FloatArithmetic, ConditionalJumps
<1> QED
  BY <1>1, <1>2, <1>3, <1>4, <1>5, <1>6, <1>7, <1>8, <1>9, <1>10, <1>11, <1>12, <1>13, <1>14, <1>15, <1>16, <1>17, <1>18, <1>19, <1>20, <1>21

LEMMA EffectByName ==
  ASSUME NEW m, NEW i, NEW asm, NEW c
  PROVE  LET n == Onward(m)
             V(o) == Value(m, o, c)
         IN Effect(m, i, asm, c) = ByName(i.i,
              n,
              Stored(n, i.a, V(i.b)),
              [Stored(n, i.a, Result(i.i, V(i.a), V(i.b))) EXCEPT !.cmp = Spoiled],
              [Stored(n, i.a, -V(i.a)) EXCEPT !.cmp = Spoiled],
              Stored(n, i.a, -1 - V(i.a)),
              [n EXCEPT !.reg["EDX"] = HighWord(n.reg["EAX"])],
              LET q == Quotient(n.reg["EAX"], V(i.a))
                IN [n EXCEPT !.reg["EDX"] = n.reg["EAX"] - q * V(i.a),
                             !.reg["EAX"] = q, !.cmp = Spoiled],
              [n EXCEPT !.cmp = Sign(V(i.a) - V(i.b))],
              Pushed(n, V(i.a)),
              Stored(Popped(n), i.a, n.mem[Esp(n)]),
              [Pushed(n, n.eip) EXCEPT !.eip = Target(asm, i.dest)],
              [Popped(n) EXCEPT !.eip = n.mem[Esp(n)]],
              [n EXCEPT !.eip = Target(asm, i.dest)],
              IF Taken(i.i, n.cmp) THEN [n EXCEPT !.eip = Target(asm, i.dest)] ELSE n,
              [n EXCEPT !.fpu = Append(@, V(i.a))],
              [n EXCEPT !.fpu[Len(n.fpu)] = -@],
              Dropped(Stored(n, i.a, Top(n)), 1),
              Dropped(n, 1),
              [n EXCEPT !.fpu = Dropped(n, 2).fpu \o <<Top(n), Second(n)>>],
              [Dropped(n, 1) EXCEPT !.cmp = Sign(Top(n) - Second(n))],
              [n EXCEPT !.fpu = Append(Dropped(n, 2).fpu, Result(i.i, Second(n), Top(n)))])
  BY Zenon DEF Effect, ByName, Onward, Target

(* What an instruction leaves, by its name; n is the machine one instruction on. *)
EffectFacts(m, i, asm, c, n, e) ==
  LET V(o) == Value(m, o, c)
  IN /\ i.i = "LABEL" => e = n
     /\ i.i = "MOV" => e = Stored(n, i.a, V(i.b))
     /\ i.i \in Arithmetic => e = CmpSet(Stored(n, i.a, Result(i.i, V(i.a), V(i.b))), Spoiled)
     /\ i.i = "NEG" => e = CmpSet(Stored(n, i.a, -V(i.a)), Spoiled)
     /\ i.i = "NOT" => e = Stored(n, i.a, -1 - V(i.a))
     /\ i.i = "CDQ" => e = RegSet(n, "EDX", HighWord(n.reg["EAX"]))
     /\ i.i = "IDIV" => e = CmpSet(RegSet(RegSet(n, "EDX", n.reg["EAX"] - Quotient(n.reg["EAX"], V(i.a)) * V(i.a)),
                               "EAX", Quotient(n.reg["EAX"], V(i.a))), Spoiled)
     /\ i.i = "CMP" => e = CmpSet(n, Sign(V(i.a) - V(i.b)))
     /\ i.i \in {"PUSH", "SAVE"} => e = Pushed(n, V(i.a))
     /\ i.i = "RESTORE" => e = Stored(Popped(n), i.a, n.mem[Esp(n)])
     /\ i.i = "CALL" => e = EipAt(Pushed(n, n.eip), Target(asm, i.dest))
     /\ i.i = "RET" => e = EipAt(Popped(n), n.mem[Esp(n)])
     /\ i.i = "JMP" => e = EipAt(n, Target(asm, i.dest))
     /\ i.i \in ConditionalJumps => e = (IF Taken(i.i, n.cmp) THEN EipAt(n, Target(asm, i.dest)) ELSE n)
     /\ i.i = "FLD" => e = FpuSet(n, Append(n.fpu, V(i.a)))
     /\ i.i = "FCHS" => e = FpuSet(n, [n.fpu EXCEPT ![Len(n.fpu)] = -@])
     /\ i.i = "FSTP" => e = Dropped(Stored(n, i.a, Top(n)), 1)
     /\ i.i = "FPOP" => e = Dropped(n, 1)
     /\ i.i = "FXCH" => e = FpuSet(n, Dropped(n, 2).fpu \o <<Top(n), Second(n)>>)
     /\ i.i = "FUCOMIP" => e = CmpSet(Dropped(n, 1), Sign(Top(n) - Second(n)))
     /\ i.i \in FloatArithmetic => e = FpuSet(n, Append(Dropped(n, 2).fpu, Result(i.i, Second(n), Top(n))))

LEMMA Effects ==
  ASSUME NEW m, NEW i, NEW asm, NEW c
  PROVE  EffectFacts(m, i, asm, c, Onward(m), Effect(m, i, asm, c))
<1> DEFINE n == Onward(m)
           V(o) == Value(m, o, c)
           e == Effect(m, i, asm, c)
           a1 == n
           a2 == Stored(n, i.a, V(i.b))
           a3 == [Stored(n, i.a, Result(i.i, V(i.a), V(i.b))) EXCEPT !.cmp = Spoiled]
           a4 == [Stored(n, i.a, -V(i.a)) EXCEPT !.cmp = Spoiled]
           a5 == Stored(n, i.a, -1 - V(i.a))
           a6 == [n EXCEPT !.reg["EDX"] = HighWord(n.reg["EAX"])]
           a7 == LET q == Quotient(n.reg["EAX"], V(i.a))
                IN [n EXCEPT !.reg["EDX"] = n.reg["EAX"] - q * V(i.a),
                             !.reg["EAX"] = q, !.cmp = Spoiled]
           a8 == [n EXCEPT !.cmp = Sign(V(i.a) - V(i.b))]
           a9 == Pushed(n, V(i.a))
           a10 == Stored(Popped(n), i.a, n.mem[Esp(n)])
           a11 == [Pushed(n, n.eip) EXCEPT !.eip = Target(asm, i.dest)]
           a12 == [Popped(n) EXCEPT !.eip = n.mem[Esp(n)]]
           a13 == [n EXCEPT !.eip = Target(asm, i.dest)]
           a14 == IF Taken(i.i, n.cmp) THEN [n EXCEPT !.eip = Target(asm, i.dest)] ELSE n
           a15 == [n EXCEPT !.fpu = Append(@, V(i.a))]
           a16 == [n EXCEPT !.fpu[Len(n.fpu)] = -@]
           a17 == Dropped(Stored(n, i.a, Top(n)), 1)
           a18 == Dropped(n, 1)
           a19 == [n EXCEPT !.fpu = Dropped(n, 2).fpu \o <<Top(n), Second(n)>>]
           a20 == [Dropped(n, 1) EXCEPT !.cmp = Sign(Top(n) - Second(n))]
           a21 == [n EXCEPT !.fpu = Append(Dropped(n, 2).fpu, Result(i.i, Second(n), Top(n)))]
<1>1. e = ByName(i.i, a1, a2, a3, a4, a5, a6, a7, a8, a9, a10, a11,
                    a12, a13, a14, a15, a16, a17, a18, a19, a20, a21)
  BY EffectByName, Zenon
<1>2. /\ a3 = CmpSet(Stored(n, i.a, Result(i.i, V(i.a), V(i.b))), Spoiled)
      /\ a4 = CmpSet(Stored(n, i.a, -V(i.a)), Spoiled)
      /\ a6 = RegSet(n, "EDX", HighWord(n.reg["EAX"]))
      /\ a8 = CmpSet(n, Sign(V(i.a) - V(i.b)))
      /\ a11 = EipAt(Pushed(n, n.eip), Target(asm, i.dest))
      /\ a12 = EipAt(Popped(n), n.mem[Esp(n)])
      /\ a13 = EipAt(n, Target(asm, i.dest))
      /\ a14 = (IF Taken(i.i, n.cmp) THEN EipAt(n, Target(asm, i.dest)) ELSE n)
      /\ a20 = CmpSet(Dropped(n, 1), Sign(Top(n) - Second(n)))
  BY Zenon DEF CmpSet, RegSet, FpuSet, EipAt
<1>3. /\ a15 = FpuSet(n, Append(n.fpu, V(i.a)))
      /\ a16 = FpuSet(n, [n.fpu EXCEPT ![Len(n.fpu)] = -@])
      /\ a19 = FpuSet(n, Dropped(n, 2).fpu \o <<Top(n), Second(n)>>)
      /\ a21 = FpuSet(n, Append(Dropped(n, 2).fpu, Result(i.i, Second(n), Top(n))))
  BY DEF FpuSet
<1>4. a7 = CmpSet(RegSet(RegSet(n, "EDX", n.reg["EAX"] - Quotient(n.reg["EAX"], V(i.a)) * V(i.a)),
                               "EAX", Quotient(n.reg["EAX"], V(i.a))), Spoiled)
  BY DEF CmpSet, RegSet
<1>6. /\ a1 = n
      /\ a2 = Stored(n, i.a, V(i.b))
      /\ a5 = Stored(n, i.a, -1 - V(i.a))
      /\ a9 = Pushed(n, V(i.a))
      /\ a10 = Stored(Popped(n), i.a, n.mem[Esp(n)])
      /\ a17 = Dropped(Stored(n, i.a, Top(n)), 1)
      /\ a18 = Dropped(n, 1)
  OBVIOUS
<1> HIDE DEF e, a1, a2, a3, a4, a5, a6, a7, a8, a9, a10, a11, a12, a13, a14, a15, a16, a17, a18, a19, a20, a21
<1>5. /\ i.i = "LABEL" => e = a1
      /\ i.i = "MOV" => e = a2
      /\ i.i \in Arithmetic => e = a3
      /\ i.i = "NEG" => e = a4
      /\ i.i = "NOT" => e = a5
      /\ i.i = "CDQ" => e = a6
      /\ i.i = "IDIV" => e = a7
      /\ i.i = "CMP" => e = a8
      /\ i.i \in {"PUSH", "SAVE"} => e = a9
      /\ i.i = "RESTORE" => e = a10
      /\ i.i = "CALL" => e = a11
      /\ i.i = "RET" => e = a12
      /\ i.i = "JMP" => e = a13
      /\ i.i \in ConditionalJumps => e = a14
      /\ i.i = "FLD" => e = a15
      /\ i.i = "FCHS" => e = a16
      /\ i.i = "FSTP" => e = a17
      /\ i.i = "FPOP" => e = a18
      /\ i.i = "FXCH" => e = a19
      /\ i.i = "FUCOMIP" => e = a20
      /\ i.i \in FloatArithmetic => e = a21
  BY <1>1, Named
<1>7. ASSUME i.i = "LABEL" PROVE e = n
  BY <1>7, <1>2, <1>3, <1>4, <1>5, <1>6, Zenon
<1>8. ASSUME i.i = "MOV" PROVE e = Stored(n, i.a, V(i.b))
  BY <1>8, <1>2, <1>3, <1>4, <1>5, <1>6, Zenon
<1>9. ASSUME i.i \in Arithmetic PROVE e = CmpSet(Stored(n, i.a, Result(i.i, V(i.a), V(i.b))), Spoiled)
  BY <1>9, <1>2, <1>3, <1>4, <1>5, <1>6, Zenon
<1>10. ASSUME i.i = "NEG" PROVE e = CmpSet(Stored(n, i.a, -V(i.a)), Spoiled)
  BY <1>10, <1>2, <1>3, <1>4, <1>5, <1>6, Zenon
<1>11. ASSUME i.i = "NOT" PROVE e = Stored(n, i.a, -1 - V(i.a))
  BY <1>11, <1>2, <1>3, <1>4, <1>5, <1>6, Zenon
<1>12. ASSUME i.i = "CDQ" PROVE e = RegSet(n, "EDX", HighWord(n.reg["EAX"]))
  BY <1>12, <1>2, <1>3, <1>4, <1>5, <1>6, Zenon
<1>13. ASSUME i.i = "IDIV" PROVE e = CmpSet(RegSet(RegSet(n, "EDX", n.reg["EAX"] - Quotient(n.reg["EAX"], V(i.a)) * V(i.a)),
                               "EAX", Quotient(n.reg["EAX"], V(i.a))), Spoiled)
  BY <1>13, <1>2, <1>3, <1>4, <1>5, <1>6, Zenon
<1>14. ASSUME i.i = "CMP" PROVE e = CmpSet(n, Sign(V(i.a) - V(i.b)))
  BY <1>14, <1>2, <1>3, <1>4, <1>5, <1>6, Zenon
<1>15. ASSUME i.i \in {"PUSH", "SAVE"} PROVE e = Pushed(n, V(i.a))
  BY <1>15, <1>2, <1>3, <1>4, <1>5, <1>6, Zenon
<1>16. ASSUME i.i = "RESTORE" PROVE e = Stored(Popped(n), i.a, n.mem[Esp(n)])
  BY <1>16, <1>2, <1>3, <1>4, <1>5, <1>6, Zenon
<1>17. ASSUME i.i = "CALL" PROVE e = EipAt(Pushed(n, n.eip), Target(asm, i.dest))
  BY <1>17, <1>2, <1>3, <1>4, <1>5, <1>6, Zenon
<1>18. ASSUME i.i = "RET" PROVE e = EipAt(Popped(n), n.mem[Esp(n)])
  BY <1>18, <1>2, <1>3, <1>4, <1>5, <1>6, Zenon
<1>19. ASSUME i.i = "JMP" PROVE e = EipAt(n, Target(asm, i.dest))
  BY <1>19, <1>2, <1>3, <1>4, <1>5, <1>6, Zenon
<1>20. ASSUME i.i \in ConditionalJumps PROVE e = (IF Taken(i.i, n.cmp) THEN EipAt(n, Target(asm, i.dest)) ELSE n)
  BY <1>20, <1>2, <1>3, <1>4, <1>5, <1>6, Zenon
<1>21. ASSUME i.i = "FLD" PROVE e = FpuSet(n, Append(n.fpu, V(i.a)))
  BY <1>21, <1>2, <1>3, <1>4, <1>5, <1>6, Zenon
<1>22. ASSUME i.i = "FCHS" PROVE e = FpuSet(n, [n.fpu EXCEPT ![Len(n.fpu)] = -@])
  BY <1>22, <1>2, <1>3, <1>4, <1>5, <1>6, Zenon
<1>23. ASSUME i.i = "FSTP" PROVE e = Dropped(Stored(n, i.a, Top(n)), 1)
  BY <1>23, <1>2, <1>3, <1>4, <1>5, <1>6, Zenon
<1>24. ASSUME i.i = "FPOP" PROVE e = Dropped(n, 1)
  BY <1>24, <1>2, <1>3, <1>4, <1>5, <1>6, Zenon
<1>25. ASSUME i.i = "FXCH" PROVE e = FpuSet(n, Dropped(n, 2).fpu \o <<Top(n), Second(n)>>)
  BY <1>25, <1>2, <1>3, <1>4, <1>5, <1>6, Zenon
<1>26. ASSUME i.i = "FUCOMIP" PROVE e = CmpSet(Dropped(n, 1), Sign(Top(n) - Second(n)))
  BY <1>26, <1>2, <1>3, <1>4, <1>5, <1>6, Zenon
<1>27. ASSUME i.i \in FloatArithmetic PROVE e = FpuSet(n, Append(Dropped(n, 2).fpu, Result(i.i, Second(n), Top(n))))
  BY <1>27, <1>2, <1>3, <1>4, <1>5, <1>6, Zenon
<1> HIDE DEF n
<1>28. EffectFacts(m, i, asm, c, n, e)
  BY <1>7, <1>8, <1>9, <1>10, <1>11, <1>12, <1>13, <1>14, <1>15, <1>16, <1>17, <1>18, <1>19, <1>20, <1>21, <1>22, <1>23, <1>24, <1>25, <1>26, <1>27, Zenon DEF EffectFacts
<1> QED
  BY <1>28 DEF e, n

LEMMA PushedKept ==
  ASSUME NEW m, Shape(m), NEW v
  PROVE  SameFrame(m, Pushed(m, v)) /\ Esp(Pushed(m, v)) = Esp(m) - 4
<1> DEFINE x == m.reg["ESP"] - 4
           q == RegSet(m, "ESP", x)
           a == Esp(m) - 4
           p == MemSet(q, a, v)
<1>1. Pushed(m, v) = p
  BY DEF Pushed, RegSet, MemSet
<1> HIDE DEF x, a
<1>2. /\ Shape(q) /\ q.eip = m.eip
      /\ q.reg["ESP"] = x /\ q.reg["EBP"] = m.reg["EBP"]
  BY RegisterSet, FrameNames
<1> HIDE DEF q
<1>3. SameFrame(q, p) /\ p.reg = q.reg
  BY <1>2, PartsKept, OthersSet
<1> HIDE DEF p
<1>4. SameFrame(m, p) /\ Esp(p) = x
  BY <1>2, <1>3 DEF SameFrame, Esp
<1> QED
  BY <1>1, <1>4 DEF x, Esp

LEMMA PoppedKept ==
  ASSUME NEW m, Shape(m)
  PROVE  SameFrame(m, Popped(m)) /\ Esp(Popped(m)) = Esp(m) + 4
         /\ Popped(m).mem = m.mem
<1> DEFINE x == m.reg["ESP"] + 4
           q == RegSet(m, "ESP", x)
<1>1. Popped(m) = q
  BY DEF Popped, RegSet
<1> HIDE DEF x
<1>2. /\ Shape(q) /\ q.eip = m.eip /\ q.mem = m.mem
      /\ q.reg["ESP"] = x /\ q.reg["EBP"] = m.reg["EBP"]
  BY RegisterSet, FrameNames
<1> HIDE DEF q
<1>3. SameFrame(m, q) /\ Esp(q) = x /\ q.mem = m.mem
  BY <1>2 DEF SameFrame, Esp
<1> QED
  BY <1>1, <1>3 DEF x, Esp

LEMMA DroppedKept ==
  ASSUME NEW m, Shape(m), NEW k
  PROVE  SameFrame(m, Dropped(m, k))
<1> DEFINE x == SubSeq(m.fpu, 1, Len(m.fpu) - k)
<1>1. Dropped(m, k) = FpuSet(m, x)
  BY DEF Dropped, FpuSet
<1> HIDE DEF x
<1> QED
  BY <1>1, PartsKept

(* A plain instruction keeps the frame.                                    *)
LEMMA PlainKeeps ==
  ASSUME NEW m, Shape(m), NEW i \in PlainInstructions, NEW asm, NEW c
  PROVE  Keeps(m, Effect(m, i, asm, c))
<1> DEFINE n == Onward(m)
           V(o) == Value(m, o, c)
           e == Effect(m, i, asm, c)
<1>0. EffectFacts(m, i, asm, c, n, e)
  BY Effects
<1>1. Shape(n) /\ \A p : SameFrame(n, p) => Keeps(m, p)
  BY SameOnward
<1>2. ~IsRegister(i.a, "EBP") /\ i.i \in PlainNames
  BY DEF PlainInstructions
<1> HIDE DEF n, e
<1>3. CASE i.i = "MOV"
  <2>1. e = Stored(n, i.a, V(i.b))
    BY <1>0, <1>3 DEF EffectFacts
  <2> QED
    BY <1>1, <1>2, <2>1, StoredKept DEF e
<1>4. CASE i.i \in Arithmetic
  <2> DEFINE s == Stored(n, i.a, Result(i.i, V(i.a), V(i.b)))
  <2>1. e = CmpSet(s, Spoiled)
    BY <1>0, <1>4 DEF EffectFacts
  <2>2. SameFrame(n, s)
    BY <1>1, <1>2, StoredKept
  <2> HIDE DEF s
  <2>3. SameFrame(s, CmpSet(s, Spoiled))
    BY <2>2, PartsKept DEF SameFrame
  <2> QED
    BY <1>1, <2>1, <2>2, <2>3, SameFrameTwice DEF e
<1>5. CASE i.i = "NEG"
  <2> DEFINE s == Stored(n, i.a, -V(i.a))
  <2>1. e = CmpSet(s, Spoiled)
    BY <1>0, <1>5 DEF EffectFacts
  <2>2. SameFrame(n, s)
    BY <1>1, <1>2, StoredKept
  <2> HIDE DEF s
  <2>3. SameFrame(s, CmpSet(s, Spoiled))
    BY <2>2, PartsKept DEF SameFrame
  <2> QED
    BY <1>1, <2>1, <2>2, <2>3, SameFrameTwice DEF e
<1>6. CASE i.i = "NOT"
  <2>1. e = Stored(n, i.a, -1 - V(i.a))
    BY <1>0, <1>6 DEF EffectFacts
  <2> QED
    BY <1>1, <1>2, <2>1, StoredKept DEF e
<1>7. CASE i.i = "CDQ"
  <2> DEFINE x == HighWord(n.reg["EAX"])
  <2>1. e = RegSet(n, "EDX", x)
    BY <1>0, <1>7 DEF EffectFacts
  <2> HIDE DEF x
  <2>2. SameFrame(n, RegSet(n, "EDX", x))
    BY <1>1, RegisterKept, FrameNames
  <2> QED
    BY <1>1, <2>1, <2>2 DEF e
<1>8. CASE i.i = "IDIV"
  <2> DEFINE q == Quotient(n.reg["EAX"], V(i.a))
             x == n.reg["EAX"] - q * V(i.a)
             s == RegSet(n, "EDX", x)
             t == RegSet(s, "EAX", q)
  <2>1. e = CmpSet(t, Spoiled)
    BY <1>0, <1>8 DEF EffectFacts
  <2> HIDE DEF q, x
  <2>2. SameFrame(n, s)
    BY <1>1, RegisterKept, FrameNames
  <2> HIDE DEF s
  <2>3. SameFrame(s, t)
    BY <2>2, RegisterKept, FrameNames DEF SameFrame
  <2> HIDE DEF t
  <2>4. SameFrame(t, CmpSet(t, Spoiled))
    BY <2>3, PartsKept DEF SameFrame
  <2> QED
    BY <1>1, <2>1, <2>2, <2>3, <2>4, SameFrameTwice DEF e
<1>9. CASE i.i = "CMP"
  <2> DEFINE x == Sign(V(i.a) - V(i.b))
  <2>1. e = CmpSet(n, x)
    BY <1>0, <1>9 DEF EffectFacts
  <2> HIDE DEF x
  <2> QED
    BY <1>1, <2>1, PartsKept DEF e
<1>10. CASE i.i \in {"PUSH", "SAVE"}
  <2>1. e = Pushed(n, V(i.a))
    BY <1>0, <1>10 DEF EffectFacts
  <2> QED
    BY <1>1, <2>1, PushedKept DEF e
<1>11. CASE i.i = "RESTORE"
  <2> DEFINE p == Popped(n)
  <2>1. e = Stored(p, i.a, n.mem[Esp(n)])
    BY <1>0, <1>11 DEF EffectFacts
  <2>2. SameFrame(n, p)
    BY <1>1, PoppedKept
  <2> HIDE DEF p
  <2>3. SameFrame(p, e)
    BY <1>2, <2>1, <2>2, StoredKept DEF SameFrame
  <2> QED
    BY <1>1, <2>2, <2>3, SameFrameTwice DEF e
<1>12. CASE i.i = "FLD"
  <2> DEFINE x == Append(n.fpu, V(i.a))
  <2>1. e = FpuSet(n, x)
    BY <1>0, <1>12 DEF EffectFacts
  <2> HIDE DEF x
  <2> QED
    BY <1>1, <2>1, PartsKept DEF e
<1>13. CASE i.i = "FCHS"
  <2> DEFINE k == Len(n.fpu)
             x == [n.fpu EXCEPT ![k] = -@]
  <2>1. e = FpuSet(n, x)
    BY <1>0, <1>13 DEF EffectFacts
  <2> HIDE DEF x
  <2> QED
    BY <1>1, <2>1, PartsKept DEF e
<1>14. CASE i.i = "FSTP"
  <2> DEFINE s == Stored(n, i.a, Top(n))
  <2>1. e = Dropped(s, 1)
    BY <1>0, <1>14 DEF EffectFacts
  <2>2. SameFrame(n, s)
    BY <1>1, <1>2, StoredKept
  <2> HIDE DEF s
  <2>3. SameFrame(s, Dropped(s, 1))
    BY <2>2, DroppedKept DEF SameFrame
  <2> QED
    BY <1>1, <2>1, <2>2, <2>3, SameFrameTwice DEF e
<1>15. CASE i.i = "FPOP"
  <2>1. e = Dropped(n, 1)
    BY <1>0, <1>15 DEF EffectFacts
  <2> QED
    BY <1>1, <2>1, DroppedKept DEF e
<1>16. CASE i.i = "FXCH"
  <2> DEFINE x == Dropped(n, 2).fpu \o <<Top(n), Second(n)>>
  <2>1. e = FpuSet(n, x)
    BY <1>0, <1>16 DEF EffectFacts
  <2> HIDE DEF x
  <2> QED
    BY <1>1, <2>1, PartsKept DEF e
<1>17. CASE i.i = "FUCOMIP"
  <2> DEFINE s == Dropped(n, 1)
             x == Sign(Top(n) - Second(n))
  <2>1. e = CmpSet(s, x)
    BY <1>0, <1>17 DEF EffectFacts
  <2>2. SameFrame(n, s)
    BY <1>1, DroppedKept
  <2> HIDE DEF s, x
  <2>3. SameFrame(s, CmpSet(s, x))
    BY <2>2, PartsKept DEF SameFrame
  <2> QED
    BY <1>1, <2>1, <2>2, <2>3, SameFrameTwice DEF e
<1>18. CASE i.i \in FloatArithmetic
  <2> DEFINE x == Append(Dropped(n, 2).fpu, Result(i.i, Second(n), Top(n)))
  <2>1. e = FpuSet(n, x)
    BY <1>0, <1>18 DEF EffectFacts
  <2> HIDE DEF x
  <2> QED
    BY <1>1, <2>1, PartsKept DEF e
<1> QED
  BY <1>2, <1>3, <1>4, <1>5, <1>6, <1>7, <1>8, <1>9, <1>10, <1>11, <1>12, <1>13, <1>14,
     <1>15, <1>16, <1>17, <1>18 DEF PlainNames, Arithmetic, FloatArithmetic

LEMMA LabelEffect ==
  ASSUME NEW m, Shape(m), NEW i, i.i = "LABEL", NEW asm, NEW c
  PROVE  LET e == Effect(m, i, asm, c)
         IN Shape(e) /\ e.eip = m.eip + 1 /\ e.reg = m.reg
<1> DEFINE n == Onward(m)
           e == Effect(m, i, asm, c)
<1>0. EffectFacts(m, i, asm, c, n, e)
  BY Effects
<1>1. Shape(n) /\ n.eip = m.eip + 1 /\ n.reg = m.reg
  BY SameOnward
<1> HIDE DEF n, e
<1>2. e = n
  BY <1>0 DEF EffectFacts
<1> QED
  BY <1>1, <1>2 DEF e

LEMMA JumpEffect ==
  ASSUME NEW m, Shape(m), NEW i, i.i \in Jumps86, NEW asm, NEW c
  PROVE  LET e == Effect(m, i, asm, c)
         IN /\ Shape(e) /\ e.reg = m.reg
            /\ \/ e.eip = Target(asm, i.dest)
               \/ i.i # "JMP" /\ e.eip = m.eip + 1
<1> DEFINE n == Onward(m)
           e == Effect(m, i, asm, c)
           t == Target(asm, i.dest)
<1>0. EffectFacts(m, i, asm, c, n, e)
  BY Effects
<1>1. Shape(n) /\ n.eip = m.eip + 1 /\ n.reg = m.reg
  BY SameOnward
<1> HIDE DEF n, e
<1>2. (i.i = "JMP" => e = EipAt(n, t))
      /\ (i.i \in ConditionalJumps => e = EipAt(n, t) \/ e = n)
  BY <1>0 DEF EffectFacts
<1> HIDE DEF t
<1>3. Shape(EipAt(n, t)) /\ EipAt(n, t).eip = t /\ EipAt(n, t).reg = n.reg
  BY <1>1, EipSet
<1>4. i.i = "JMP" \/ i.i \in ConditionalJumps
  BY DEF Jumps86
<1>5. i.i \in ConditionalJumps => i.i # "JMP"
  BY DEF ConditionalJumps
<1>6. Shape(e) /\ e.reg = m.reg /\ (e.eip = t \/ (i.i # "JMP" /\ e.eip = m.eip + 1))
  BY <1>1, <1>2, <1>3, <1>4, <1>5
<1> QED
  BY <1>6 DEF e, t

LEMMA CallEffect ==
  ASSUME NEW m, Shape(m), NEW i, i.i = "CALL", NEW asm, NEW c
  PROVE  LET e == Effect(m, i, asm, c)
         IN /\ Shape(e) /\ e.eip = Target(asm, i.dest)
            /\ e.reg["EBP"] = m.reg["EBP"] /\ Esp(e) = Esp(m) - 4
<1> DEFINE n == Onward(m)
           e == Effect(m, i, asm, c)
           t == Target(asm, i.dest)
           p == Pushed(n, n.eip)
<1>0. EffectFacts(m, i, asm, c, n, e)
  BY Effects
<1>1. Shape(n) /\ n.eip = m.eip + 1 /\ n.reg = m.reg
  BY SameOnward
<1> HIDE DEF n, e
<1>2. e = EipAt(p, t)
  BY <1>0 DEF EffectFacts
<1>3. SameFrame(n, p) /\ Esp(p) = Esp(n) - 4
  BY <1>1, PushedKept
<1> HIDE DEF t, p
<1>4. Shape(e) /\ e.eip = t /\ e.reg = p.reg
  BY <1>2, <1>3, EipSet DEF SameFrame
<1>5. Shape(e) /\ e.eip = t /\ e.reg["EBP"] = m.reg["EBP"] /\ Esp(e) = Esp(m) - 4
  BY <1>1, <1>3, <1>4 DEF SameFrame, Esp
<1> QED
  BY <1>5 DEF e, t

LEMMA ReturnEffect ==
  ASSUME NEW m, Shape(m), NEW i, i.i = "RET", NEW asm, NEW c
  PROVE  LET e == Effect(m, i, asm, c)
         IN /\ Shape(e) /\ e.eip = m.mem[Esp(m)] /\ e.reg["EBP"] = m.reg["EBP"]
<1> DEFINE n == Onward(m)
           e == Effect(m, i, asm, c)
           p == Popped(n)
           x == n.mem[Esp(n)]
<1>0. EffectFacts(m, i, asm, c, n, e)
  BY Effects
<1>1. Shape(n) /\ n.reg = m.reg /\ n.mem = m.mem
  BY SameOnward
<1> HIDE DEF n, e
<1>2. e = EipAt(p, x)
  BY <1>0 DEF EffectFacts
<1>3. SameFrame(n, p)
  BY <1>1, PoppedKept
<1> HIDE DEF x, p
<1>4. Shape(e) /\ e.eip = x /\ e.reg = p.reg
  BY <1>2, <1>3, EipSet DEF SameFrame
<1>5. Shape(e) /\ e.eip = m.mem[Esp(m)] /\ e.reg["EBP"] = m.reg["EBP"]
  BY <1>1, <1>3, <1>4 DEF SameFrame, Esp, x
<1> QED
  BY <1>5 DEF e

LEMMA FramesStored ==
  ASSUME NEW m, Shape(m), NEW x
  PROVE  /\ Stored(m, Reg("EBP"), x) = RegSet(m, "EBP", x)
         /\ Stored(m, Reg("ESP"), x) = RegSet(m, "ESP", x)
  BY DEF Stored, RegSet, Reg

LEMMA FrameEffects ==
  ASSUME NEW m, Shape(m), NEW asm, NEW c
  PROVE  /\ LET e == Effect(m, SaveFrame, asm, c)
            IN /\ Shape(e) /\ e.eip = m.eip + 1
               /\ e.reg["EBP"] = m.reg["EBP"] /\ Esp(e) = Esp(m) - 4
         /\ LET e == Effect(m, SetFrame, asm, c)
            IN Shape(e) /\ e.eip = m.eip + 1 /\ e.reg["EBP"] = Esp(m)
         /\ LET e == Effect(m, DropFrame, asm, c)
            IN /\ Shape(e) /\ e.eip = m.eip + 1
               /\ e.reg["EBP"] = m.reg["EBP"] /\ Esp(e) = m.reg["EBP"]
         /\ LET e == Effect(m, RestoreFrame, asm, c)
            IN /\ Shape(e) /\ e.eip = m.eip + 1
               /\ e.reg["EBP"] = m.mem[Esp(m)] /\ Esp(e) = Esp(m) + 4
<1> DEFINE n == Onward(m)
<1>1. Shape(n) /\ n.eip = m.eip + 1 /\ n.reg = m.reg /\ n.mem = m.mem
  BY SameOnward
<1>2. /\ SaveFrame.i = "SAVE" /\ SetFrame.i = "MOV" /\ DropFrame.i = "MOV"
      /\ RestoreFrame.i = "RESTORE" /\ SetFrame.a = Reg("EBP") /\ DropFrame.a = Reg("ESP")
      /\ RestoreFrame.a = Reg("EBP") /\ SetFrame.b = Reg("ESP") /\ DropFrame.b = Reg("EBP")
  BY FramesDiffer
<1>3. /\ Value(m, Reg("ESP"), c) = Esp(m)
      /\ Value(m, Reg("EBP"), c) = m.reg["EBP"]
  BY DEF Value, Reg, Esp
<1>4. LET e == Effect(m, SaveFrame, asm, c)
      IN /\ Shape(e) /\ e.eip = m.eip + 1
         /\ e.reg["EBP"] = m.reg["EBP"] /\ Esp(e) = Esp(m) - 4
  <2> DEFINE e == Effect(m, SaveFrame, asm, c)
             v == Value(m, SaveFrame.a, c)
  <2>0. EffectFacts(m, SaveFrame, asm, c, n, e)
    BY Effects
  <2> HIDE DEF n, e
  <2>1. e = Pushed(n, v)
    BY <1>2, <2>0 DEF EffectFacts
  <2> HIDE DEF v
  <2>2. SameFrame(n, e) /\ Esp(e) = Esp(n) - 4
    BY <1>1, <2>1, PushedKept
  <2>3. /\ Shape(e) /\ e.eip = m.eip + 1
        /\ e.reg["EBP"] = m.reg["EBP"] /\ Esp(e) = Esp(m) - 4
    BY <1>1, <2>2 DEF SameFrame, Esp
  <2> QED
    BY <2>3 DEF e
<1>5. LET e == Effect(m, SetFrame, asm, c)
      IN Shape(e) /\ e.eip = m.eip + 1 /\ e.reg["EBP"] = Esp(m)
  <2> DEFINE e == Effect(m, SetFrame, asm, c)
             x == Esp(m)
  <2>0. EffectFacts(m, SetFrame, asm, c, n, e)
    BY Effects
  <2> HIDE DEF n, e, x
  <2>1. e = Stored(n, Reg("EBP"), x)
    BY <1>2, <1>3, <2>0 DEF EffectFacts, x
  <2>2. e = RegSet(n, "EBP", x)
    BY <1>1, <2>1, FramesStored
  <2>3. Shape(e) /\ e.eip = m.eip + 1 /\ e.reg["EBP"] = x
    BY <1>1, <2>2, RegisterSet, FrameNames
  <2> QED
    BY <2>3 DEF e, x
<1>6. LET e == Effect(m, DropFrame, asm, c)
      IN /\ Shape(e) /\ e.eip = m.eip + 1
         /\ e.reg["EBP"] = m.reg["EBP"] /\ Esp(e) = m.reg["EBP"]
  <2> DEFINE e == Effect(m, DropFrame, asm, c)
             x == m.reg["EBP"]
  <2>0. EffectFacts(m, DropFrame, asm, c, n, e)
    BY Effects
  <2> HIDE DEF n, e, x
  <2>1. e = Stored(n, Reg("ESP"), x)
    BY <1>2, <1>3, <2>0 DEF EffectFacts, x
  <2>2. e = RegSet(n, "ESP", x)
    BY <1>1, <2>1, FramesStored
  <2>3. Shape(e) /\ e.eip = m.eip + 1 /\ e.reg["EBP"] = n.reg["EBP"] /\ Esp(e) = x
    BY <1>1, <2>2, RegisterSet, FrameNames DEF Esp
  <2> QED
    BY <1>1, <2>3 DEF e, x
<1>7. LET e == Effect(m, RestoreFrame, asm, c)
      IN /\ Shape(e) /\ e.eip = m.eip + 1
         /\ e.reg["EBP"] = m.mem[Esp(m)] /\ Esp(e) = Esp(m) + 4
  <2> DEFINE e == Effect(m, RestoreFrame, asm, c)
             x == n.mem[Esp(n)]
             p == Popped(n)
  <2>0. EffectFacts(m, RestoreFrame, asm, c, n, e)
    BY Effects
  <2> HIDE DEF n, e
  <2>1. e = Stored(p, Reg("EBP"), x)
    BY <1>2, <2>0 DEF EffectFacts
  <2>2. Shape(p) /\ p.eip = n.eip /\ Esp(p) = Esp(n) + 4
    BY <1>1, PoppedKept DEF SameFrame
  <2>3. x = m.mem[Esp(m)]
    BY <1>1 DEF Esp
  <2> HIDE DEF x, p
  <2>4. e = RegSet(p, "EBP", x)
    BY <2>1, <2>2, FramesStored
  <2>5. Shape(e) /\ e.eip = p.eip /\ e.reg["EBP"] = x /\ e.reg["ESP"] = p.reg["ESP"]
    BY <2>2, <2>4, RegisterSet, FrameNames
  <2>6. Shape(e) /\ e.eip = m.eip + 1 /\ e.reg["EBP"] = m.mem[Esp(m)] /\ Esp(e) = Esp(m) + 4
    BY <1>1, <2>2, <2>3, <2>5 DEF Esp
  <2> QED
    BY <2>6 DEF e
<1> QED
  BY <1>4, <1>5, <1>6, <1>7

-----------------------------------------------------------------------------
(* The stack.  b[k] is the address of the return address of activation k:  *)
(* the word below it holds the frame of the activation before, and the     *)
(* code goes on, after the return, in the function of that one.            *)
FrameSaved(s, b, k) == b[k] - 4 \in Addresses /\ s[b[k] - 4].v = b[k - 1] - 4

ReturnSaved(asm, own, s, b, act, k) ==
  /\ s[b[k]].v \in 1 .. Len(asm)
  /\ own[s[b[k]].v] = act[k - 1]
  /\ Inside(asm[s[b[k]].v])

Stack(asm, own, b, s, act) ==
  /\ b \in [1 .. Len(act) -> Addresses]
  /\ b[1] = 0 /\ s[0].v = 0
  /\ \A j, k \in 1 .. Len(act) : j < k => b[k] + 4 < b[j]
  /\ \A k \in 2 .. Len(act) : ReturnSaved(asm, own, s, b, act, k)
  /\ \A k \in 2 .. Len(act) : <<act[k - 1], act[k]>> \in StaticCallGraph.edge
  /\ \A k \in 2 .. Len(act) - 1 : FrameSaved(s, b, k)

(* Where the registers of the frame point, by what is executed next.       *)
Phase(i, m, b, s, n) ==
  /\ EntersFunction(i) \/ i = SaveFrame \/ i = LeaveFunction =>
       Esp(m) = b[n] /\ (n > 1 => m.reg["EBP"] = b[n - 1] - 4)
  /\ i = SetFrame => Esp(m) = b[n] - 4
  /\ Inside(i) \/ i = RestoreFrame => m.reg["EBP"] = b[n] - 4
  /\ i = RestoreFrame => Esp(m) = m.reg["EBP"]
  /\ Inside(i) \/ i = SetFrame \/ i = RestoreFrame => (n > 1 => FrameSaved(s, b, n))

Machine(asm, own, b, m, s, act) ==
  /\ asm \in Seq(Instructions) /\ CodeOf(asm, own) /\ ~Open(asm, own)
  /\ Shape(m) /\ DOMAIN s = Addresses
  /\ act \in Seq(Functions) /\ Len(act) > 0
  /\ m.eip \in 1 .. Len(asm) /\ own[m.eip] = act[Len(act)]
  /\ Stack(asm, own, b, s, act)
  /\ Phase(asm[m.eip], m, b, s, Len(act))

LEMMA AddressFacts ==
  /\ Addresses \subseteq Int /\ 0 \in Addresses
<1>1. StackBottom \div 4 \in Int /\ StackBottom \div 4 <= 0
  BY GasAssumption
<1>2. \A n \in (StackBottom \div 4) .. 0 : 4 * n \in Int
  BY <1>1
<1>3. 0 \in (StackBottom \div 4) .. 0 /\ 4 * 0 = 0
  BY <1>1
<1> QED
  BY <1>2, <1>3 DEF Addresses

LEMMA FramesDistinct ==
  /\ SaveFrame # SetFrame /\ SaveFrame # DropFrame /\ SaveFrame # RestoreFrame
  /\ SaveFrame # LeaveFunction /\ SetFrame # DropFrame /\ SetFrame # RestoreFrame
  /\ SetFrame # LeaveFunction /\ DropFrame # RestoreFrame /\ DropFrame # LeaveFunction
  /\ RestoreFrame # LeaveFunction
  /\ \A i \in FrameInstructions : ~EntersFunction(i)
<1>1. /\ SaveFrame # SetFrame /\ SaveFrame # DropFrame /\ SaveFrame # RestoreFrame
      /\ SaveFrame # LeaveFunction /\ SetFrame # DropFrame /\ SetFrame # RestoreFrame
      /\ SetFrame # LeaveFunction /\ DropFrame # RestoreFrame /\ DropFrame # LeaveFunction
      /\ RestoreFrame # LeaveFunction
  BY FramesDiffer
<1>2. \A i \in FrameInstructions : i.i # "LABEL"
  BY FramesDiffer DEF FrameInstructions
<1> QED
  BY <1>1, <1>2 DEF EntersFunction

LEMMA FrameClasses ==
  /\ ~Inside(SaveFrame) /\ ~Inside(SetFrame) /\ ~Inside(RestoreFrame) /\ ~Inside(LeaveFunction)
  /\ Inside(DropFrame)
  /\ \A i : EntersFunction(i) => i \notin FrameInstructions /\ ~Inside(i)
  /\ \A i : Inside(i) =>
       /\ ~EntersFunction(i) /\ i # SaveFrame /\ i # SetFrame /\ i # RestoreFrame
       /\ i # LeaveFunction
  BY FramesDistinct DEF Inside, FrameInstructions

LEMMA Phases ==
  ASSUME NEW i, NEW m, NEW b, NEW s, NEW n
  PROVE  /\ Inside(i) =>
              (Phase(i, m, b, s, n) <=>
                 m.reg["EBP"] = b[n] - 4 /\ (n > 1 => FrameSaved(s, b, n)))
         /\ EntersFunction(i) \/ i = SaveFrame \/ i = LeaveFunction =>
              (Phase(i, m, b, s, n) <=>
                 Esp(m) = b[n] /\ (n > 1 => m.reg["EBP"] = b[n - 1] - 4))
         /\ i = SetFrame =>
              (Phase(i, m, b, s, n) <=>
                 Esp(m) = b[n] - 4 /\ (n > 1 => FrameSaved(s, b, n)))
         /\ i = RestoreFrame =>
              (Phase(i, m, b, s, n) <=>
                 /\ m.reg["EBP"] = b[n] - 4 /\ Esp(m) = m.reg["EBP"]
                 /\ n > 1 => FrameSaved(s, b, n))
<1> DEFINE y == EntersFunction(i)
           z == Inside(i)
           p == Esp(m) = b[n]
           q == n > 1 => m.reg["EBP"] = b[n - 1] - 4
           r == Esp(m) = b[n] - 4
           t == m.reg["EBP"] = b[n] - 4
           u == Esp(m) = m.reg["EBP"]
           v == n > 1 => FrameSaved(s, b, n)
<1>1. /\ y => ~z /\ i # SaveFrame /\ i # SetFrame /\ i # RestoreFrame /\ i # LeaveFunction
      /\ z => ~y /\ i # SaveFrame /\ i # SetFrame /\ i # RestoreFrame /\ i # LeaveFunction
  BY FrameClasses DEF FrameInstructions
<1>2. /\ i = SaveFrame => ~y /\ ~z /\ i # SetFrame /\ i # RestoreFrame /\ i # LeaveFunction
      /\ i = SetFrame => ~y /\ ~z /\ i # SaveFrame /\ i # RestoreFrame /\ i # LeaveFunction
      /\ i = RestoreFrame => ~y /\ ~z /\ i # SaveFrame /\ i # SetFrame /\ i # LeaveFunction
      /\ i = LeaveFunction => ~y /\ ~z /\ i # SaveFrame /\ i # SetFrame /\ i # RestoreFrame
  BY FrameClasses, FramesDistinct DEF FrameInstructions
<1>3. Phase(i, m, b, s, n) <=>
        /\ y \/ i = SaveFrame \/ i = LeaveFunction => p /\ q
        /\ i = SetFrame => r
        /\ z \/ i = RestoreFrame => t
        /\ i = RestoreFrame => u
        /\ z \/ i = SetFrame \/ i = RestoreFrame => v
  BY Zenon DEF Phase
<1> HIDE DEF y, z, p, q, r, t, u, v
<1>4. /\ z => (Phase(i, m, b, s, n) <=> t /\ v)
      /\ y \/ i = SaveFrame \/ i = LeaveFunction => (Phase(i, m, b, s, n) <=> p /\ q)
      /\ i = SetFrame => (Phase(i, m, b, s, n) <=> r /\ v)
      /\ i = RestoreFrame => (Phase(i, m, b, s, n) <=> t /\ u /\ v)
  BY <1>1, <1>2, <1>3
<1> QED
  BY <1>4, Zenon DEF y, z, p, q, r, t, u, v

LEMMA NextInstruction ==
  ASSUME NEW asm \in Seq(Instructions), NEW own, CodeOf(asm, own), ~Open(asm, own),
         NEW k \in 1 .. Len(asm), own[k] # NoLabel, ~Ends(asm[k])
  PROVE  k + 1 \in 1 .. Len(asm) /\ own[k + 1] = own[k] /\ Follows(asm[k], asm[k + 1])
<1>1. Len(asm) \in Nat /\ k \in Int
  OBVIOUS
<1>2. k # Len(asm)
  BY <1>1 DEF Open
<1>3. k \in 1 .. Len(asm) - 1 /\ k + 1 \in 1 .. Len(asm)
  BY <1>1, <1>2
<1> QED
  BY <1>3 DEF CodeOf

(* A word below all that belongs to the activations.                       *)
LEMMA Written ==
  ASSUME NEW asm, NEW own, NEW b, NEW s, NEW act \in Seq(Functions), Len(act) > 0,
         Stack(asm, own, b, s, act), DOMAIN s = Addresses,
         NEW x \in Int, x < b[Len(act)], NEW w
  PROVE  LET t == [s EXCEPT ![x] = w]
             n == Len(act)
         IN /\ DOMAIN t = Addresses /\ Stack(asm, own, b, t, act)
            /\ x \in Addresses => t[x] = w
            /\ n > 1 /\ FrameSaved(s, b, n) /\ x < b[n] - 4 => FrameSaved(t, b, n)
<1> DEFINE t == [s EXCEPT ![x] = w]
           n == Len(act)
<1>1. n \in Nat /\ n > 0 /\ n \in 1 .. n /\ 1 \in 1 .. n
  OBVIOUS
<1>2. DOMAIN t = Addresses /\ \A y \in Addresses : t[y] = IF y = x THEN w ELSE s[y]
  OBVIOUS
<1>3. /\ b \in [1 .. n -> Addresses] /\ b[1] = 0 /\ s[0].v = 0
      /\ \A j, k \in 1 .. n : j < k => b[k] + 4 < b[j]
  BY DEF Stack
<1> HIDE DEF n, t
<1>4. \A k \in 1 .. n : b[k] \in Addresses /\ b[k] \in Int
  BY <1>3, AddressFacts
<1>5. \A k \in 1 .. n : b[n] <= b[k] /\ (k < n => b[n] + 4 < b[k])
  <2> TAKE k \in 1 .. n
  <2>1. CASE k = n
    BY <1>1, <1>4, <2>1
  <2>2. CASE k < n
    <3>1. b[n] + 4 < b[k] /\ b[n] \in Int /\ b[k] \in Int
      BY <1>1, <1>3, <1>4, <2>2
    <3> QED
      BY <2>2, <3>1
  <2> QED
    BY <1>1, <2>1, <2>2
<1>6. x < b[n]
  BY DEF n
<1>7. \A k \in 1 .. n : b[k] # x
  BY <1>1, <1>4, <1>5, <1>6
<1>8. \A k \in 1 .. n : t[b[k]] = s[b[k]]
  BY <1>2, <1>4, <1>7
<1>9. t[0].v = 0
  <2>1. t[b[1]] = s[b[1]]
    BY <1>1, <1>8
  <2> QED
    BY <1>3, <2>1
<1>10. ASSUME NEW k \in 2 .. n, FrameSaved(s, b, k), k < n \/ x < b[n] - 4
       PROVE  FrameSaved(t, b, k)
  <2>1. k \in 1 .. n
    BY <1>1
  <2>2. b[k] - 4 # x
    <3>1. b[n] \in Int /\ b[k] \in Int
      BY <1>1, <1>4, <2>1
    <3>2. k < n => b[n] + 4 < b[k]
      BY <1>5, <2>1
    <3>3. k = n => b[k] = b[n]
      OBVIOUS
    <3>4. k < n \/ k = n
      BY <1>1
    <3> QED
      BY <1>6, <1>10, <3>1, <3>2, <3>3, <3>4
  <2>3. b[k] - 4 \in Addresses /\ s[b[k] - 4].v = b[k - 1] - 4
    BY <1>10 DEF FrameSaved
  <2>4. t[b[k] - 4] = s[b[k] - 4]
    BY <1>2, <2>2, <2>3
  <2> QED
    BY <2>3, <2>4 DEF FrameSaved
<1>11. \A k \in 2 .. n - 1 : FrameSaved(t, b, k)
  <2> TAKE k \in 2 .. n - 1
  <2>1. k \in 2 .. n /\ k < n
    BY <1>1
  <2>2. FrameSaved(s, b, k)
    BY DEF Stack, n
  <2> QED
    BY <1>10, <2>1, <2>2
<1>12. \A k \in 2 .. n : ReturnSaved(asm, own, t, b, act, k)
  <2> TAKE k \in 2 .. n
  <2>1. k \in 1 .. n
    BY <1>1
  <2>2. ReturnSaved(asm, own, s, b, act, k)
    BY DEF Stack, n
  <2> QED
    BY <1>8, <2>1, <2>2 DEF ReturnSaved
<1>13. \A k \in 2 .. n : <<act[k - 1], act[k]>> \in StaticCallGraph.edge
  BY DEF Stack, n
<1>14. Stack(asm, own, b, t, act)
  BY <1>3, <1>9, <1>11, <1>12, <1>13 DEF Stack, n
<1>15. x \in Addresses => t[x] = w
  BY <1>2
<1>16. n > 1 /\ FrameSaved(s, b, n) /\ x < b[n] - 4 => FrameSaved(t, b, n)
  <2>1. n > 1 => n \in 2 .. n
    BY <1>1
  <2> QED
    BY <1>10, <2>1
<1> QED
  BY <1>2, <1>14, <1>15, <1>16 DEF n, t

Extended(b, n, x) == [k \in 1 .. n + 1 |-> IF k <= n THEN b[k] ELSE x]
Cut(b, m) == [k \in 1 .. m |-> b[k]]

CallReady(asm, own, b, s, act, x, w, f) ==
  /\ act \in Seq(Functions) /\ Len(act) > 0
  /\ Stack(asm, own, b, s, act) /\ DOMAIN s = Addresses
  /\ Len(act) > 1 => FrameSaved(s, b, Len(act))
  /\ x \in Addresses /\ x + 4 < b[Len(act)]
  /\ w.v \in 1 .. Len(asm) /\ own[w.v] = act[Len(act)] /\ Inside(asm[w.v])
  /\ f \in Functions /\ <<act[Len(act)], f>> \in StaticCallGraph.edge

(* A call puts an activation on the stack.                                 *)
LEMMA StackCalled ==
  ASSUME NEW asm, NEW own, NEW b, NEW s, NEW act, NEW x, NEW w, NEW f,
         CallReady(asm, own, b, s, act, x, w, f)
  PROVE  LET n == Len(act)
             c == Extended(b, n, x)
             t == [s EXCEPT ![x] = w]
         IN /\ c[n + 1] = x /\ c[n] = b[n]
            /\ DOMAIN t = Addresses /\ Stack(asm, own, c, t, Append(act, f))
            /\ n > 1 => FrameSaved(t, c, n)
<1>0. /\ act \in Seq(Functions) /\ Len(act) > 0
      /\ Stack(asm, own, b, s, act) /\ DOMAIN s = Addresses
      /\ Len(act) > 1 => FrameSaved(s, b, Len(act))
      /\ x \in Addresses /\ x + 4 < b[Len(act)]
      /\ w.v \in 1 .. Len(asm) /\ own[w.v] = act[Len(act)] /\ Inside(asm[w.v])
      /\ f \in Functions /\ <<act[Len(act)], f>> \in StaticCallGraph.edge
  BY DEF CallReady
<1> DEFINE n == Len(act)
           c == Extended(b, n, x)
           t == [s EXCEPT ![x] = w]
           a == Append(act, f)
<1>1. /\ n \in Nat /\ n > 0 /\ n \in 1 .. n /\ a \in Seq(Functions) /\ Len(a) = n + 1
      /\ \A k \in 1 .. n : a[k] = act[k]
      /\ a[n + 1] = f
  BY <1>0
<1>2. /\ b \in [1 .. n -> Addresses] /\ b[1] = 0
      /\ \A j, k \in 1 .. n : j < k => b[k] + 4 < b[j]
      /\ \A k \in 2 .. n : ReturnSaved(asm, own, s, b, act, k)
      /\ \A k \in 2 .. n : <<act[k - 1], act[k]>> \in StaticCallGraph.edge
  BY <1>0 DEF Stack
<1>3. x \in Int /\ \A k \in 1 .. n : b[k] \in Int /\ b[k] \in Addresses
  BY <1>0, <1>2, AddressFacts
<1>4. x < b[n] - 4 /\ x < b[n] /\ x + 4 < b[n]
  BY <1>0, <1>1, <1>3
<1>5. /\ DOMAIN t = Addresses /\ Stack(asm, own, b, t, act) /\ t[x] = w
      /\ n > 1 => FrameSaved(t, b, n)
  BY <1>0, <1>3, <1>4, Written
<1> HIDE DEF n, a, t
<1>6. /\ DOMAIN c = 1 .. n + 1 /\ c[n + 1] = x
      /\ \A k \in 1 .. n : c[k] = b[k]
  BY <1>1 DEF Extended
<1> HIDE DEF c
<1>7. c \in [1 .. n + 1 -> Addresses]
  <2>1. \A k \in 1 .. n + 1 : c[k] \in Addresses
    <3> TAKE k \in 1 .. n + 1
    <3>1. k \in 1 .. n \/ k = n + 1
      BY <1>1
    <3> QED
      BY <1>0, <1>3, <1>6, <3>1
  <2>2. c = [k \in 1 .. n + 1 |-> IF k <= n THEN b[k] ELSE x]
    BY DEF c, Extended
  <2> QED
    BY <2>1, <2>2
<1>8. \A j, k \in 1 .. n + 1 : j < k => c[k] + 4 < c[j]
  <2> TAKE j, k \in 1 .. n + 1
  <2> HAVE j < k
  <2>1. j \in 1 .. n /\ c[j] = b[j] /\ b[j] \in Int
    <3>1. j \in 1 .. n
      BY <1>1
    <3> QED
      BY <1>3, <1>6, <3>1
  <2>2. CASE k \in 1 .. n
    BY <1>2, <1>6, <2>1, <2>2
  <2>3. CASE k = n + 1
    <3>1. j = n \/ j < n
      BY <1>1, <2>1
    <3>2. j < n => b[n] + 4 < b[j]
      BY <1>1, <1>2, <2>1
    <3>3. b[n] <= b[j]
      <4>1. b[n] \in Int
        BY <1>1, <1>3
      <4> QED
        BY <2>1, <3>1, <3>2, <4>1
    <3>4. c[k] = x /\ b[n] \in Int
      BY <1>1, <1>3, <1>6, <2>3
    <3>5. x + 4 < b[j]
      BY <1>3, <1>4, <2>1, <3>3, <3>4
    <3> QED
      BY <2>1, <3>4, <3>5
  <2> QED
    BY <1>1, <2>2, <2>3
<1>9. ASSUME NEW k \in 2 .. n + 1
      PROVE  ReturnSaved(asm, own, t, c, a, k)
             /\ <<a[k - 1], a[k]>> \in StaticCallGraph.edge
  <2>1. k - 1 \in 1 .. n /\ a[k - 1] = act[k - 1]
    BY <1>1
  <2>2. CASE k \in 2 .. n
    <3>1. k \in 1 .. n /\ c[k] = b[k] /\ a[k] = act[k]
      BY <1>1, <1>6, <2>2
    <3>2. ReturnSaved(asm, own, t, b, act, k) /\ <<act[k - 1], act[k]>> \in StaticCallGraph.edge
      BY <1>5, <2>2 DEF Stack, n
    <3> QED
      BY <2>1, <3>1, <3>2 DEF ReturnSaved
  <2>3. CASE k = n + 1
    <3>1. k - 1 = n /\ c[k] = x /\ a[k] = f /\ t[c[k]] = w
      BY <1>1, <1>5, <1>6, <2>3
    <3>2. a[k - 1] = act[n]
      BY <2>1, <3>1
    <3> QED
      BY <1>0, <3>1, <3>2 DEF ReturnSaved, n
  <2> QED
    BY <1>1, <2>2, <2>3
<1>10. ASSUME NEW k \in 2 .. n PROVE FrameSaved(t, c, k)
  <2>1. k \in 1 .. n /\ k - 1 \in 1 .. n /\ c[k] = b[k] /\ c[k - 1] = b[k - 1]
    BY <1>1, <1>6
  <2>2. FrameSaved(t, b, k)
    <3>1. CASE k = n
      BY <1>1, <1>5, <3>1
    <3>2. CASE k \in 2 .. n - 1
      BY <1>5, <3>2 DEF Stack, n
    <3> QED
      BY <1>1, <3>1, <3>2
  <2> QED
    BY <2>1, <2>2 DEF FrameSaved
<1>11. c[1] = 0 /\ t[0].v = 0
  <2>1. t[0].v = 0
    BY <1>5 DEF Stack
  <2> QED
    BY <1>1, <1>2, <1>6, <2>1
<1>12. (n + 1) - 1 = n
  BY <1>1
<1>13. Stack(asm, own, c, t, a)
  BY <1>1, <1>7, <1>8, <1>9, <1>10, <1>11, <1>12 DEF Stack
<1>14. c[n] = b[n] /\ (n > 1 => FrameSaved(t, c, n))
  <2>1. n > 1 => n \in 2 .. n
    BY <1>1
  <2> QED
    BY <1>1, <1>6, <1>10, <2>1
<1> QED
  BY <1>5, <1>6, <1>13, <1>14 DEF n, c, t, a

(* A return takes it off.                                                  *)
LEMMA StackReturned ==
  ASSUME NEW asm, NEW own, NEW b, NEW s, NEW act \in Seq(Functions), Len(act) > 1,
         Stack(asm, own, b, s, act)
  PROVE  LET m == Len(act) - 1
             c == Cut(b, m)
         IN /\ c[m] = b[m] /\ (m > 1 => c[m - 1] = b[m - 1])
            /\ Len(Front(act)) = m /\ Front(act) \in Seq(Functions)
            /\ Front(act)[m] = act[m]
            /\ Stack(asm, own, c, s, Front(act))
            /\ m > 1 => FrameSaved(s, c, m)
<1> DEFINE n == Len(act)
           m == n - 1
           c == Cut(b, m)
           a == Front(act)
<1>1. /\ n \in Nat /\ m \in Nat /\ m > 0 /\ n = m + 1
  OBVIOUS
<1>2. a \in Seq(Functions) /\ Len(a) = m /\ \A k \in 1 .. m : a[k] = act[k]
  <2>1. a = SubSeq(act, 1, m)
    BY DEF Front
  <2> HIDE DEF a
  <2> QED
    BY <2>1
<1>3. /\ b \in [1 .. n -> Addresses] /\ b[1] = 0 /\ s[0].v = 0
      /\ \A j, k \in 1 .. n : j < k => b[k] + 4 < b[j]
      /\ \A k \in 2 .. n : ReturnSaved(asm, own, s, b, act, k)
      /\ \A k \in 2 .. n : <<act[k - 1], act[k]>> \in StaticCallGraph.edge
      /\ \A k \in 2 .. m : FrameSaved(s, b, k)
  BY DEF Stack
<1> HIDE DEF n, a
<1>4. \A k \in 1 .. m : k \in 1 .. n /\ c[k] = b[k]
  BY <1>1 DEF Cut
<1>5. c \in [1 .. m -> Addresses]
  BY <1>3, <1>4 DEF Cut
<1> HIDE DEF c
<1>6. \A k \in 2 .. m : k \in 1 .. m /\ k - 1 \in 1 .. m /\ k \in 2 .. n
  BY <1>1
<1>7. \A k \in 2 .. m : FrameSaved(s, c, k)
  BY <1>3, <1>4, <1>6 DEF FrameSaved
<1>8. \A k \in 2 .. m : ReturnSaved(asm, own, s, c, a, k)
  BY <1>2, <1>3, <1>4, <1>6 DEF ReturnSaved
<1>9. \A k \in 2 .. m : <<a[k - 1], a[k]>> \in StaticCallGraph.edge
  BY <1>2, <1>3, <1>6
<1>10. \A j, k \in 1 .. m : j < k => c[k] + 4 < c[j]
  BY <1>3, <1>4
<1>11. 1 \in 1 .. m /\ m \in 1 .. m /\ (m > 1 => m - 1 \in 1 .. m /\ m \in 2 .. m)
  BY <1>1
<1>12. \A k \in 2 .. m - 1 : k \in 2 .. m
  BY <1>1
<1>13. Stack(asm, own, c, s, a)
  BY <1>2, <1>3, <1>4, <1>5, <1>7, <1>8, <1>9, <1>10, <1>11, <1>12 DEF Stack
<1> HIDE DEF m
<1>14. c[m] = b[m] /\ (m > 1 => c[m - 1] = b[m - 1]) /\ a[m] = act[m]
       /\ (m > 1 => FrameSaved(s, c, m))
  BY <1>2, <1>4, <1>7, <1>11
<1> QED
  BY <1>2, <1>13, <1>14 DEF n, m, c, a

-----------------------------------------------------------------------------
(* Where jumps and calls lead.                                             *)
AllLabelled(asm) ==
  \A j \in 1 .. Len(code.lines) :
    code.lines[j].op \in {"ENTRY", "LABEL"} => Labelled(asm, code.lines[j].dest)

LEMMA LabelFits ==
  ASSUME NEW f, NEW i, i.i = "LABEL", Fits(f, i)
  PROVE  IsLabel(f, i) \/ (EntersFunction(i) /\ i.dest = f)
<1>1. i \notin PlainInstructions
  BY PlainInside
<1>2. i \notin FrameInstructions
  BY FramesDiffer DEF FrameInstructions
<1>3. ~IsJump(f, i) /\ ~IsCall(f, i)
  BY DEF IsJump, IsCall, ConditionalJumps
<1> QED
  BY <1>1, <1>2, <1>3 DEF Fits

LEMMA TargetLabel ==
  ASSUME NEW asm, NEW d, Labelled(asm, d)
  PROVE  /\ Target(asm, d) \in 1 .. Len(asm)
         /\ asm[Target(asm, d)].i = "LABEL" /\ asm[Target(asm, d)].dest = d
<1>1. \E k \in 1 .. Len(asm) : asm[k].i = "LABEL" /\ asm[k].dest = d
  BY DEF Labelled
<1> QED
  BY <1>1 DEF Target

LEMMA JumpTarget ==
  ASSUME TypeOK, NEW asm, NEW own, CodeOf(asm, own), AllLabelled(asm),
         NEW f, NEW d, LabelOf(f, d)
  PROVE  LET k == Target(asm, d)
         IN k \in 1 .. Len(asm) /\ own[k] = f /\ Inside(asm[k])
<1> DEFINE k == Target(asm, d)
<1>1. PICK j \in LabelLines(code) : code.lines[j].dest = d /\ FunctionOf(j) = f
  BY DEF LabelOf
<1>2. IsConverted(code) /\ j \in 1 .. Len(code.lines) /\ code.lines[j].op = "LABEL"
  BY LinesKnown DEF LabelLines
<1>3. Labelled(asm, d)
  BY <1>1, <1>2 DEF AllLabelled
<1>4. k \in 1 .. Len(asm) /\ asm[k].i = "LABEL" /\ asm[k].dest = d
  BY <1>3, TargetLabel
<1> HIDE DEF k
<1>5. d \notin Functions
  BY <1>1, <1>2 DEF IsConverted
<1>6. own[k] # NoLabel /\ Fits(own[k], asm[k])
  BY <1>4 DEF CodeOf
<1>7. ~EntersFunction(asm[k])
  BY <1>4, <1>5 DEF EntersFunction
<1>8. LabelOf(own[k], d)
  BY <1>4, <1>6, <1>7, LabelFits DEF IsLabel
<1>9. PICK h \in LabelLines(code) : code.lines[h].dest = d /\ FunctionOf(h) = own[k]
  BY <1>8 DEF LabelOf
<1>10. h = j
  BY <1>1, <1>2, <1>9 DEF IsConverted
<1>11. Inside(asm[k])
  <2>1. asm[k] \notin FrameInstructions
    BY <1>4, FramesDiffer DEF FrameInstructions
  <2> QED
    BY <1>7, <2>1 DEF Inside
<1>12. k \in 1 .. Len(asm) /\ own[k] = f /\ Inside(asm[k])
  BY <1>1, <1>4, <1>9, <1>10, <1>11
<1> QED
  BY <1>12 DEF k

LEMMA CallTarget ==
  ASSUME TypeOK, NEW asm, NEW own, CodeOf(asm, own), AllLabelled(asm),
         NEW d \in Entered(code)
  PROVE  LET k == Target(asm, d)
         IN /\ k \in 1 .. Len(asm) /\ own[k] = d /\ EntersFunction(asm[k])
            /\ d \in Functions
<1> DEFINE k == Target(asm, d)
<1>1. PICK j \in EntryLines(code) : code.lines[j].dest = d
  BY DEF Entered
<1>2. /\ IsConverted(code) /\ IsProgram(code)
      /\ j \in 1 .. Len(code.lines) /\ code.lines[j].op = "ENTRY"
  BY LinesKnown DEF EntryLines
<1>3. Labelled(asm, d)
  BY <1>1, <1>2 DEF AllLabelled
<1>4. k \in 1 .. Len(asm) /\ asm[k].i = "LABEL" /\ asm[k].dest = d
  BY <1>3, TargetLabel
<1> HIDE DEF k
<1>5. d \in Functions
  BY <1>1, <1>2 DEF IsProgram
<1>6. own[k] # NoLabel /\ Fits(own[k], asm[k])
  BY <1>4 DEF CodeOf
<1>7. EntersFunction(asm[k])
  BY <1>4, <1>5 DEF EntersFunction
<1>8. ~IsLabel(own[k], asm[k])
  <2>1. ~LabelOf(own[k], d)
    BY <1>2, <1>5 DEF LabelOf, IsConverted
  <2> QED
    BY <1>4, <2>1 DEF IsLabel
<1>9. own[k] = d
  BY <1>4, <1>6, <1>8, LabelFits
<1>10. k \in 1 .. Len(asm) /\ own[k] = d /\ EntersFunction(asm[k]) /\ d \in Functions
  BY <1>4, <1>5, <1>7, <1>9
<1> QED
  BY <1>10 DEF k

-----------------------------------------------------------------------------
(* Steps of the machine.  What is known of the registers and words saved:  *)
(* SavesIntact, for any machine.                                           *)
Word(m, i) ==
  CASE i.i = "SAVE" -> [r |-> i.a.r, v |-> m.reg[i.a.r]]
    [] i.i = "CALL" -> [r |-> "EIP", v |-> m.eip + 1]
    [] OTHER        -> NothingSaved

Writes(i) == i.i \in {"SAVE", "CALL", "PUSH"}

SavedAfter(m, i, s) == IF Writes(i) THEN [s EXCEPT ![Esp(m) - 4] = Word(m, i)] ELSE s

Intact(m, i, s) ==
  /\ Esp(m) \in Addresses
  /\ Esp(m) <= m.reg["EBP"]
  /\ i.i \in {"RESTORE", "RET"} => s[Esp(m)].v = m.mem[Esp(m)]

LEMMA MachineFacts ==
  ASSUME NEW asm, NEW own, NEW b, NEW m, NEW s, NEW act, Machine(asm, own, b, m, s, act)
  PROVE  LET n == Len(act)
             i == asm[m.eip]
         IN /\ n \in Nat /\ n > 0 /\ b[n] \in Int /\ b[n] \in Addresses
            /\ n > 1 => b[n - 1] \in Int /\ b[n] + 4 < b[n - 1]
            /\ act[n] \in Functions /\ i \in Instructions /\ Fits(act[n], i)
            /\ ~Ends(i) => /\ m.eip + 1 \in 1 .. Len(asm) /\ own[m.eip + 1] = act[n]
                           /\ Follows(i, asm[m.eip + 1])
<1> DEFINE n == Len(act)
           k == m.eip
           i == asm[k]
<1>1. /\ asm \in Seq(Instructions) /\ CodeOf(asm, own) /\ ~Open(asm, own)
      /\ act \in Seq(Functions) /\ Len(act) > 0
      /\ k \in 1 .. Len(asm) /\ own[k] = act[n] /\ Stack(asm, own, b, s, act)
  BY DEF Machine
<1>2. n \in Nat /\ n > 0 /\ n \in 1 .. n /\ act[n] \in Functions
  BY <1>1
<1>3. /\ b \in [1 .. n -> Addresses]
      /\ \A j, h \in 1 .. n : j < h => b[h] + 4 < b[j]
  BY <1>1 DEF Stack
<1> HIDE DEF n, k
<1>4. b[n] \in Addresses /\ b[n] \in Int
  BY <1>2, <1>3, AddressFacts
<1>5. n > 1 => b[n - 1] \in Int /\ b[n] + 4 < b[n - 1]
  <2>1. n > 1 => n - 1 \in 1 .. n /\ n - 1 < n
    BY <1>2
  <2> QED
    BY <1>2, <1>3, <2>1, AddressFacts
<1>6. own[k] # NoLabel
  BY <1>1, <1>2, LayoutAssumption
<1>7. Fits(own[k], i) /\ i \in Instructions
  BY <1>1, <1>6 DEF CodeOf
<1>8. ~Ends(i) => k + 1 \in 1 .. Len(asm) /\ own[k + 1] = own[k] /\ Follows(i, asm[k + 1])
  BY <1>1, <1>6, NextInstruction
<1> QED
  BY <1>1, <1>2, <1>4, <1>5, <1>7, <1>8 DEF n, k

(* On to the next instruction, in the same activation.                     *)
LEMMA MovesOn ==
  ASSUME NEW asm, NEW own, NEW b, NEW m, NEW s, NEW act, Machine(asm, own, b, m, s, act),
         NEW e, Shape(e), NEW t, DOMAIN t = Addresses, Stack(asm, own, b, t, act),
         e.eip \in 1 .. Len(asm), own[e.eip] = act[Len(act)],
         Phase(asm[e.eip], e, b, t, Len(act))
  PROVE  Machine(asm, own, b, e, t, act)
  BY DEF Machine

LEMMA FrameEnds ==
  /\ ~Ends(SaveFrame) /\ ~Ends(SetFrame) /\ ~Ends(DropFrame) /\ ~Ends(RestoreFrame)
  /\ Ends(LeaveFunction)
  /\ Writes(SaveFrame) /\ ~Writes(SetFrame) /\ ~Writes(DropFrame) /\ ~Writes(RestoreFrame)
  /\ ~Writes(LeaveFunction)
  BY FramesDiffer DEF Ends, Writes

LEMMA EntersStep ==
  ASSUME NEW asm, NEW own, NEW b, NEW m, NEW s, NEW act, Machine(asm, own, b, m, s, act),
         NEW c, EntersFunction(asm[m.eip])
  PROVE  Machine(asm, own, b, Effect(m, asm[m.eip], asm, c), SavedAfter(m, asm[m.eip], s), act)
<1> DEFINE i == asm[m.eip]
           e == Effect(m, i, asm, c)
           n == Len(act)
           j == asm[m.eip + 1]
<1>1. /\ Shape(m) /\ DOMAIN s = Addresses /\ Stack(asm, own, b, s, act)
      /\ Phase(i, m, b, s, n)
  BY DEF Machine
<1>2. i.i = "LABEL" /\ ~Ends(i) /\ ~Writes(i)
  BY DEF EntersFunction, Ends, Writes
<1>3. m.eip + 1 \in 1 .. Len(asm) /\ own[m.eip + 1] = act[n] /\ j = SaveFrame
  BY <1>2, MachineFacts DEF Follows
<1>4. Shape(e) /\ e.eip = m.eip + 1 /\ e.reg = m.reg
  BY <1>1, <1>2, LabelEffect
<1>5. SavedAfter(m, i, s) = s
  BY <1>2 DEF SavedAfter
<1> HIDE DEF e
<1>6. Phase(j, e, b, s, n)
  <2>1. Esp(m) = b[n] /\ (n > 1 => m.reg["EBP"] = b[n - 1] - 4)
    BY <1>1, Phases
  <2>2. Esp(e) = b[n] /\ (n > 1 => e.reg["EBP"] = b[n - 1] - 4)
    BY <1>4, <2>1 DEF Esp
  <2> QED
    BY <1>3, <2>2, Phases
<1>7. Machine(asm, own, b, e, s, act)
  BY <1>1, <1>3, <1>4, <1>6, MovesOn
<1> QED
  BY <1>5, <1>7 DEF e

LEMMA SaveFrameStep ==
  ASSUME NEW asm, NEW own, NEW b, NEW m, NEW s, NEW act, Machine(asm, own, b, m, s, act),
         NEW c, asm[m.eip] = SaveFrame, Esp(m) - 4 \in Addresses
  PROVE  Machine(asm, own, b, Effect(m, asm[m.eip], asm, c), SavedAfter(m, asm[m.eip], s), act)
<1> DEFINE e == Effect(m, SaveFrame, asm, c)
           n == Len(act)
           j == asm[m.eip + 1]
           x == Esp(m) - 4
           w == Word(m, SaveFrame)
           t == [s EXCEPT ![x] = w]
<1>1. /\ Shape(m) /\ DOMAIN s = Addresses /\ Stack(asm, own, b, s, act)
      /\ act \in Seq(Functions) /\ Len(act) > 0
      /\ Phase(SaveFrame, m, b, s, n)
  BY DEF Machine
<1>2. /\ m.eip + 1 \in 1 .. Len(asm) /\ own[m.eip + 1] = act[n] /\ j = SetFrame
      /\ n \in Nat /\ n > 0 /\ b[n] \in Int
  BY FrameEnds, MachineFacts DEF Follows
<1>3. /\ Shape(e) /\ e.eip = m.eip + 1
      /\ e.reg["EBP"] = m.reg["EBP"] /\ Esp(e) = Esp(m) - 4
  BY <1>1, FrameEffects
<1>4. Esp(m) = b[n] /\ (n > 1 => m.reg["EBP"] = b[n - 1] - 4)
  BY <1>1, Phases
<1>5. SavedAfter(m, SaveFrame, s) = t
  BY FrameEnds DEF SavedAfter
<1>6. x \in Addresses /\ x \in Int /\ x < b[n] /\ x = b[n] - 4
  BY <1>2, <1>4, AddressFacts
<1>7. w.v = m.reg["EBP"]
  <2>1. SaveFrame.i = "SAVE" /\ SaveFrame.a.r = "EBP"
    BY FramesDiffer DEF Reg
  <2> QED
    BY <2>1 DEF Word
<1> HIDE DEF e, x, w
<1>8. DOMAIN t = Addresses /\ Stack(asm, own, b, t, act) /\ t[x] = w
  <2>1. x \in Int /\ x < b[Len(act)]
    BY <1>6
  <2> HIDE DEF n
  <2>2. DOMAIN t = Addresses /\ Stack(asm, own, b, t, act) /\ (x \in Addresses => t[x] = w)
    BY <1>1, <2>1, Written, Zenon
  <2> QED
    BY <1>6, <2>2
<1> HIDE DEF t
<1>9. n > 1 => FrameSaved(t, b, n)
  BY <1>4, <1>6, <1>7, <1>8 DEF FrameSaved
<1>10. Esp(e) = b[n] - 4
  BY <1>3, <1>4
<1>11. Phase(j, e, b, t, n)
  BY <1>2, <1>9, <1>10, Phases
<1>12. Machine(asm, own, b, e, t, act)
  BY <1>2, <1>3, <1>8, <1>11, MovesOn
<1> QED
  BY <1>5, <1>12 DEF e

LEMMA SetFrameStep ==
  ASSUME NEW asm, NEW own, NEW b, NEW m, NEW s, NEW act, Machine(asm, own, b, m, s, act),
         NEW c, asm[m.eip] = SetFrame
  PROVE  Machine(asm, own, b, Effect(m, asm[m.eip], asm, c), SavedAfter(m, asm[m.eip], s), act)
<1> DEFINE e == Effect(m, SetFrame, asm, c)
           n == Len(act)
           j == asm[m.eip + 1]
<1>1. /\ Shape(m) /\ DOMAIN s = Addresses /\ Stack(asm, own, b, s, act)
      /\ Phase(SetFrame, m, b, s, n)
  BY DEF Machine
<1>2. GoesOn(SetFrame)
  BY FramesDistinct DEF GoesOn, FrameInstructions
<1>3. m.eip + 1 \in 1 .. Len(asm) /\ own[m.eip + 1] = act[n] /\ Inside(j)
  BY <1>2, FrameEnds, MachineFacts DEF Follows
<1>4. Shape(e) /\ e.eip = m.eip + 1 /\ e.reg["EBP"] = Esp(m)
  BY <1>1, FrameEffects
<1>5. SavedAfter(m, SetFrame, s) = s
  BY FrameEnds DEF SavedAfter
<1> HIDE DEF e
<1>6. Esp(m) = b[n] - 4 /\ (n > 1 => FrameSaved(s, b, n))
  BY <1>1, Phases
<1>7. Phase(j, e, b, s, n)
  <2>1. e.reg["EBP"] = b[n] - 4
    BY <1>4, <1>6
  <2> QED
    BY <1>3, <1>6, <2>1, Phases
<1>8. Machine(asm, own, b, e, s, act)
  BY <1>1, <1>3, <1>4, <1>7, MovesOn
<1> QED
  BY <1>5, <1>8 DEF e

LEMMA DropFrameStep ==
  ASSUME NEW asm, NEW own, NEW b, NEW m, NEW s, NEW act, Machine(asm, own, b, m, s, act),
         NEW c, asm[m.eip] = DropFrame
  PROVE  Machine(asm, own, b, Effect(m, asm[m.eip], asm, c), SavedAfter(m, asm[m.eip], s), act)
<1> DEFINE e == Effect(m, DropFrame, asm, c)
           n == Len(act)
           j == asm[m.eip + 1]
<1>1. /\ Shape(m) /\ DOMAIN s = Addresses /\ Stack(asm, own, b, s, act)
      /\ Phase(DropFrame, m, b, s, n)
  BY DEF Machine
<1>2. m.eip + 1 \in 1 .. Len(asm) /\ own[m.eip + 1] = act[n] /\ j = RestoreFrame
  BY FrameEnds, MachineFacts DEF Follows
<1>3. /\ Shape(e) /\ e.eip = m.eip + 1
      /\ e.reg["EBP"] = m.reg["EBP"] /\ Esp(e) = m.reg["EBP"]
  BY <1>1, FrameEffects
<1>4. SavedAfter(m, DropFrame, s) = s
  BY FrameEnds DEF SavedAfter
<1> HIDE DEF e
<1>5. m.reg["EBP"] = b[n] - 4 /\ (n > 1 => FrameSaved(s, b, n))
  BY <1>1, FrameClasses, Phases
<1>6. Phase(j, e, b, s, n)
  <2>1. e.reg["EBP"] = b[n] - 4 /\ Esp(e) = e.reg["EBP"]
    BY <1>3, <1>5
  <2> QED
    BY <1>2, <1>5, <2>1, Phases
<1>7. Machine(asm, own, b, e, s, act)
  BY <1>1, <1>2, <1>3, <1>6, MovesOn
<1> QED
  BY <1>4, <1>7 DEF e

LEMMA RestoreFrameStep ==
  ASSUME NEW asm, NEW own, NEW b, NEW m, NEW s, NEW act, Machine(asm, own, b, m, s, act),
         NEW c, asm[m.eip] = RestoreFrame, Intact(m, RestoreFrame, s)
  PROVE  Machine(asm, own, b, Effect(m, asm[m.eip], asm, c), SavedAfter(m, asm[m.eip], s), act)
<1> DEFINE e == Effect(m, RestoreFrame, asm, c)
           n == Len(act)
           j == asm[m.eip + 1]
<1>1. /\ Shape(m) /\ DOMAIN s = Addresses /\ Stack(asm, own, b, s, act)
      /\ Phase(RestoreFrame, m, b, s, n)
  BY DEF Machine
<1>2. /\ m.eip + 1 \in 1 .. Len(asm) /\ own[m.eip + 1] = act[n] /\ j = LeaveFunction
      /\ b[n] \in Int
  BY FrameEnds, MachineFacts DEF Follows
<1>3. /\ Shape(e) /\ e.eip = m.eip + 1
      /\ e.reg["EBP"] = m.mem[Esp(m)] /\ Esp(e) = Esp(m) + 4
  BY <1>1, FrameEffects
<1>4. SavedAfter(m, RestoreFrame, s) = s
  BY FrameEnds DEF SavedAfter
<1> HIDE DEF e
<1>5. m.reg["EBP"] = b[n] - 4 /\ Esp(m) = m.reg["EBP"] /\ (n > 1 => FrameSaved(s, b, n))
  BY <1>1, Phases
<1>6. s[Esp(m)].v = m.mem[Esp(m)]
  BY FramesDiffer DEF Intact
<1>7. Phase(j, e, b, s, n)
  <2>1. Esp(e) = b[n]
    <3>1. Esp(m) = b[n] - 4
      BY <1>5
    <3> QED
      BY <1>2, <1>3, <3>1
  <2>2. n > 1 => e.reg["EBP"] = b[n - 1] - 4
    BY <1>3, <1>5, <1>6 DEF FrameSaved
  <2> QED
    BY <1>2, <2>1, <2>2, Phases
<1>8. Machine(asm, own, b, e, s, act)
  BY <1>1, <1>2, <1>3, <1>7, MovesOn
<1> QED
  BY <1>4, <1>8 DEF e

(* Inside a function, the frame stays.                                     *)
LEMMA InsideMoves ==
  ASSUME NEW asm, NEW own, NEW b, NEW m, NEW s, NEW act, Machine(asm, own, b, m, s, act),
         Inside(asm[m.eip]),
         NEW e, Shape(e), e.reg["EBP"] = m.reg["EBP"],
         e.eip \in 1 .. Len(asm), own[e.eip] = act[Len(act)], Inside(asm[e.eip]),
         NEW t, DOMAIN t = Addresses, Stack(asm, own, b, t, act),
         Len(act) > 1 /\ FrameSaved(s, b, Len(act)) => FrameSaved(t, b, Len(act))
  PROVE  Machine(asm, own, b, e, t, act)
<1> DEFINE n == Len(act)
<1>1. Phase(asm[m.eip], m, b, s, n)
  BY DEF Machine
<1>2. m.reg["EBP"] = b[n] - 4 /\ (n > 1 => FrameSaved(s, b, n))
  BY <1>1, Phases
<1>3. e.reg["EBP"] = b[n] - 4 /\ (n > 1 => FrameSaved(t, b, n))
  BY <1>2
<1>4. Phase(asm[e.eip], e, b, t, n)
  BY <1>3, Phases
<1> QED
  BY <1>4, MovesOn

LEMMA InsideFrame ==
  ASSUME NEW asm, NEW own, NEW b, NEW m, NEW s, NEW act, Machine(asm, own, b, m, s, act),
         Inside(asm[m.eip]), Intact(m, asm[m.eip], s)
  PROVE  /\ Esp(m) \in Int /\ Esp(m) - 4 < b[Len(act)] - 4
         /\ Len(act) > 1 => FrameSaved(s, b, Len(act))
<1> DEFINE n == Len(act)
<1>1. Phase(asm[m.eip], m, b, s, n)
  BY DEF Machine
<1>2. m.reg["EBP"] = b[n] - 4 /\ (n > 1 => FrameSaved(s, b, n))
  BY <1>1, Phases
<1>3. b[n] \in Int
  BY MachineFacts
<1>4. Esp(m) \in Int /\ Esp(m) <= m.reg["EBP"]
  BY AddressFacts DEF Intact
<1> HIDE DEF n
<1>5. Esp(m) <= b[n] - 4
  BY <1>2, <1>4
<1>6. Esp(m) - 4 < b[n] - 4
  BY <1>3, <1>4, <1>5
<1> QED
  BY <1>2, <1>4, <1>6 DEF n

LEMMA PlainStep ==
  ASSUME NEW asm, NEW own, NEW b, NEW m, NEW s, NEW act, Machine(asm, own, b, m, s, act),
         NEW c, asm[m.eip] \in PlainInstructions, Intact(m, asm[m.eip], s)
  PROVE  Machine(asm, own, b, Effect(m, asm[m.eip], asm, c), SavedAfter(m, asm[m.eip], s), act)
<1> DEFINE i == asm[m.eip]
           e == Effect(m, i, asm, c)
           n == Len(act)
           x == Esp(m) - 4
           w == Word(m, i)
           z == [s EXCEPT ![x] = w]
           t == SavedAfter(m, i, s)
<1>1. /\ Shape(m) /\ DOMAIN s = Addresses /\ Stack(asm, own, b, s, act)
      /\ act \in Seq(Functions) /\ Len(act) > 0
  BY DEF Machine
<1>2. Inside(i) /\ GoesOn(i) /\ ~Ends(i)
  BY PlainInside
<1>3. m.eip + 1 \in 1 .. Len(asm) /\ own[m.eip + 1] = act[n] /\ Inside(asm[m.eip + 1])
  BY <1>2, MachineFacts DEF Follows
<1>4. Shape(e) /\ e.eip = m.eip + 1 /\ e.reg["EBP"] = m.reg["EBP"]
  BY <1>1, PlainKeeps DEF Keeps
<1>5. Esp(m) \in Int /\ x < b[n] - 4 /\ b[n] \in Int
  BY <1>2, InsideFrame, MachineFacts
<1>6. x \in Int /\ x < b[n]
  BY <1>5
<1>7. t = s \/ t = z
  BY DEF SavedAfter
<1> HIDE DEF t, e, w, x
<1>8. /\ DOMAIN z = Addresses /\ Stack(asm, own, b, z, act)
      /\ n > 1 /\ FrameSaved(s, b, n) => FrameSaved(z, b, n)
  <2> HIDE DEF n
  <2>1. x < b[Len(act)]
    BY <1>6 DEF n
  <2>2. /\ DOMAIN z = Addresses /\ Stack(asm, own, b, z, act)
        /\ Len(act) > 1 /\ FrameSaved(s, b, Len(act)) /\ x < b[Len(act)] - 4
             => FrameSaved(z, b, Len(act))
    BY <1>1, <1>6, <2>1, Written, Zenon
  <2> QED
    BY <1>5, <2>2 DEF n
<1> HIDE DEF z
<1>9. /\ DOMAIN t = Addresses /\ Stack(asm, own, b, t, act)
      /\ n > 1 /\ FrameSaved(s, b, n) => FrameSaved(t, b, n)
  BY <1>1, <1>7, <1>8
<1>10. Machine(asm, own, b, e, t, act)
  BY <1>2, <1>3, <1>4, <1>9, InsideMoves
<1> QED
  BY <1>10 DEF e, t

LEMMA LabelStep ==
  ASSUME NEW asm, NEW own, NEW b, NEW m, NEW s, NEW act, Machine(asm, own, b, m, s, act),
         NEW c, asm[m.eip].i = "LABEL", ~EntersFunction(asm[m.eip])
  PROVE  Machine(asm, own, b, Effect(m, asm[m.eip], asm, c), SavedAfter(m, asm[m.eip], s), act)
<1> DEFINE i == asm[m.eip]
           e == Effect(m, i, asm, c)
<1>1. Shape(m) /\ DOMAIN s = Addresses /\ Stack(asm, own, b, s, act)
  BY DEF Machine
<1>2. i \notin FrameInstructions
  BY FramesDiffer DEF FrameInstructions
<1>3. Inside(i) /\ GoesOn(i) /\ ~Ends(i) /\ ~Writes(i)
  BY <1>2 DEF Inside, GoesOn, Ends, Writes, FrameInstructions
<1>4. /\ m.eip + 1 \in 1 .. Len(asm) /\ own[m.eip + 1] = act[Len(act)]
      /\ Inside(asm[m.eip + 1])
  BY <1>3, MachineFacts DEF Follows
<1>5. Shape(e) /\ e.eip = m.eip + 1 /\ e.reg = m.reg
  BY <1>1, LabelEffect
<1>6. SavedAfter(m, i, s) = s
  BY <1>3 DEF SavedAfter
<1> HIDE DEF e
<1>7. Machine(asm, own, b, e, s, act)
  BY <1>1, <1>3, <1>4, <1>5, InsideMoves
<1> QED
  BY <1>6, <1>7 DEF e

LEMMA JumpStep ==
  ASSUME TypeOK, NEW asm, AllLabelled(asm),
         NEW own, NEW b, NEW m, NEW s, NEW act, Machine(asm, own, b, m, s, act),
         NEW c, IsJump(act[Len(act)], asm[m.eip])
  PROVE  Machine(asm, own, b, Effect(m, asm[m.eip], asm, c), SavedAfter(m, asm[m.eip], s), act)
<1> DEFINE i == asm[m.eip]
           e == Effect(m, i, asm, c)
           n == Len(act)
           k == Target(asm, i.dest)
<1>1. /\ Shape(m) /\ DOMAIN s = Addresses /\ Stack(asm, own, b, s, act)
      /\ CodeOf(asm, own)
  BY DEF Machine
<1>2. i.i \in Jumps86 /\ LabelOf(act[n], i.dest)
  BY DEF IsJump, Jumps86
<1>3. i.i \notin {"LABEL", "RET", "SAVE", "MOV", "RESTORE", "CALL", "PUSH"}
  BY <1>2 DEF Jumps86, ConditionalJumps
<1>4. i \notin FrameInstructions
  BY <1>3, FramesDiffer DEF FrameInstructions
<1>5. Inside(i) /\ GoesOn(i) /\ ~Writes(i) /\ (i.i # "JMP" => ~Ends(i))
  BY <1>3, <1>4 DEF Inside, GoesOn, Ends, Writes, FrameInstructions, EntersFunction
<1>6. i.i # "JMP" =>
        /\ m.eip + 1 \in 1 .. Len(asm) /\ own[m.eip + 1] = act[n]
        /\ Inside(asm[m.eip + 1])
  BY <1>5, MachineFacts DEF Follows
<1>7. k \in 1 .. Len(asm) /\ own[k] = act[n] /\ Inside(asm[k])
  BY <1>1, <1>2, JumpTarget
<1>8. Shape(e) /\ e.reg = m.reg /\ (e.eip = k \/ (i.i # "JMP" /\ e.eip = m.eip + 1))
  BY <1>1, <1>2, JumpEffect
<1>9. SavedAfter(m, i, s) = s
  BY <1>5 DEF SavedAfter
<1> HIDE DEF e, k
<1>10. e.eip \in 1 .. Len(asm) /\ own[e.eip] = act[n] /\ Inside(asm[e.eip])
  BY <1>6, <1>7, <1>8
<1>11. Machine(asm, own, b, e, s, act)
  BY <1>1, <1>5, <1>8, <1>10, InsideMoves
<1> QED
  BY <1>9, <1>11 DEF e

LEMMA CallStep ==
  ASSUME TypeOK, NEW asm, AllLabelled(asm),
         NEW own, NEW b, NEW m, NEW s, NEW act, Machine(asm, own, b, m, s, act),
         NEW c, IsCall(act[Len(act)], asm[m.eip]), Intact(m, asm[m.eip], s),
         Esp(m) - 4 \in Addresses
  PROVE  \E d : Machine(asm, own, d, Effect(m, asm[m.eip], asm, c),
                        SavedAfter(m, asm[m.eip], s), Append(act, asm[m.eip].dest))
<1> DEFINE i == asm[m.eip]
           e == Effect(m, i, asm, c)
           n == Len(act)
           k == Target(asm, i.dest)
           f == i.dest
           x == Esp(m) - 4
           w == Word(m, i)
           d == Extended(b, n, x)
           t == [s EXCEPT ![x] = w]
           a == Append(act, f)
<1>1. /\ Shape(m) /\ DOMAIN s = Addresses /\ Stack(asm, own, b, s, act)
      /\ asm \in Seq(Instructions) /\ CodeOf(asm, own) /\ ~Open(asm, own)
      /\ act \in Seq(Functions) /\ Len(act) > 0 /\ Phase(i, m, b, s, n)
  BY DEF Machine
<1>2. i.i = "CALL" /\ <<act[n], f>> \in StaticCallGraph.edge /\ f \in Entered(code)
  BY DEF IsCall
<1>3. i \notin FrameInstructions
  BY <1>2, FramesDiffer DEF FrameInstructions
<1>4. Inside(i) /\ GoesOn(i) /\ Writes(i) /\ ~Ends(i)
  BY <1>2, <1>3 DEF Inside, GoesOn, Ends, Writes, FrameInstructions, EntersFunction
<1>5. m.eip + 1 \in 1 .. Len(asm) /\ own[m.eip + 1] = act[n] /\ Inside(asm[m.eip + 1])
  BY <1>4, MachineFacts DEF Follows
<1>6. k \in 1 .. Len(asm) /\ own[k] = f /\ EntersFunction(asm[k]) /\ f \in Functions
  BY <1>1, <1>2, CallTarget
<1>7. /\ Shape(e) /\ e.eip = k
      /\ e.reg["EBP"] = m.reg["EBP"] /\ Esp(e) = Esp(m) - 4
  BY <1>1, <1>2, CallEffect
<1>8. SavedAfter(m, i, s) = t
  BY <1>4 DEF SavedAfter
<1>9. x < b[n] - 4 /\ (n > 1 => FrameSaved(s, b, n)) /\ b[n] \in Int /\ n \in Nat /\ n > 0
      /\ Esp(m) \in Int
  BY <1>4, InsideFrame, MachineFacts
<1>10. x + 4 < b[n] /\ x \in Addresses
  BY <1>9
<1>11. w.v = m.eip + 1
  BY <1>2 DEF Word
<1>12. m.reg["EBP"] = b[n] - 4
  BY <1>1, <1>4, Phases
<1>13. a \in Seq(Functions) /\ Len(a) = n + 1 /\ a[n + 1] = f /\ n + 1 > 0 /\ (n + 1) - 1 = n
  <2> HIDE DEF f
  <2> QED
    BY <1>1, <1>6
<1>14. w.v \in 1 .. Len(asm) /\ own[w.v] = act[n] /\ Inside(asm[w.v])
  BY <1>5, <1>11
<1>15. Esp(e) = x
  BY <1>7
<1> HIDE DEF e, k, f, w, x
<1>16. /\ d[n + 1] = x /\ d[n] = b[n]
       /\ DOMAIN t = Addresses /\ Stack(asm, own, d, t, a)
       /\ n > 1 => FrameSaved(t, d, n)
  <2>1. CallReady(asm, own, b, s, act, x, w, f)
    BY <1>1, <1>2, <1>6, <1>9, <1>10, <1>14 DEF CallReady
  <2> QED
    BY <2>1, StackCalled
<1> HIDE DEF d, t, a
<1>17. Phase(asm[e.eip], e, d, t, n + 1)
  <2>1. Esp(e) = d[n + 1] /\ e.reg["EBP"] = d[(n + 1) - 1] - 4
    BY <1>7, <1>12, <1>13, <1>15, <1>16
  <2>2. EntersFunction(asm[e.eip])
    BY <1>6, <1>7
  <2> DEFINE j == n + 1
  <2> HIDE DEF j, n
  <2>3. Phase(asm[e.eip], e, d, t, j)
    BY <2>1, <2>2, Phases DEF j
  <2> QED
    BY <2>3 DEF j
<1>18. e.eip \in 1 .. Len(asm) /\ own[e.eip] = a[Len(a)]
  BY <1>6, <1>7, <1>13
<1>19. Machine(asm, own, d, e, t, a)
  BY <1>1, <1>7, <1>13, <1>16, <1>17, <1>18 DEF Machine
<1> QED
  BY <1>8, <1>19 DEF e, a, f

LEMMA LeaveStep ==
  ASSUME NEW asm, NEW own, NEW b, NEW m, NEW s, NEW act, Machine(asm, own, b, m, s, act),
         NEW c, asm[m.eip] = LeaveFunction, Intact(m, asm[m.eip], s)
  PROVE  LET e == Effect(m, asm[m.eip], asm, c)
             t == SavedAfter(m, asm[m.eip], s)
         IN IF Front(act) = <<>> THEN e.eip = 0 ELSE \E d : Machine(asm, own, d, e, t, Front(act))
<1> DEFINE i == asm[m.eip]
           e == Effect(m, i, asm, c)
           n == Len(act)
           a == Front(act)
           k == n - 1
           d == Cut(b, k)
<1>1. /\ Shape(m) /\ DOMAIN s = Addresses /\ Stack(asm, own, b, s, act)
      /\ asm \in Seq(Instructions) /\ CodeOf(asm, own) /\ ~Open(asm, own)
      /\ act \in Seq(Functions) /\ Len(act) > 0 /\ Phase(i, m, b, s, n)
  BY DEF Machine
<1>2. i.i = "RET" /\ ~Writes(i)
  BY FramesDiffer, FrameEnds
<1>3. Shape(e) /\ e.eip = m.mem[Esp(m)] /\ e.reg["EBP"] = m.reg["EBP"]
  BY <1>1, <1>2, ReturnEffect
<1>4. SavedAfter(m, i, s) = s
  BY <1>2 DEF SavedAfter
<1>5. Esp(m) = b[n] /\ (n > 1 => m.reg["EBP"] = b[n - 1] - 4)
  BY <1>1, Phases
<1>6. s[Esp(m)].v = m.mem[Esp(m)]
  BY <1>2 DEF Intact
<1>7. e.eip = s[b[n]].v
  BY <1>3, <1>5, <1>6
<1> HIDE DEF e, i
<1>8. CASE n = 1
  <2>1. e.eip = 0
    BY <1>1, <1>7, <1>8 DEF Stack
  <2>2. a = <<>>
    BY <1>1, <1>8 DEF Front
  <2> QED
    BY <2>1, <2>2 DEF e, i
<1>9. CASE n > 1
  <2>1. /\ d[k] = b[k] /\ Len(a) = k /\ a \in Seq(Functions) /\ a[k] = act[k]
        /\ Stack(asm, own, d, s, a) /\ (k > 1 => FrameSaved(s, d, k))
    <3>1. act \in Seq(Functions) /\ Len(act) > 1 /\ Stack(asm, own, b, s, act)
      BY <1>1, <1>9
    <3> QED
      BY <3>1, StackReturned
  <2>2. k \in Nat /\ k > 0 /\ n \in 2 .. n /\ n - 1 = k
    BY <1>1, <1>9
  <2>3. ReturnSaved(asm, own, s, b, act, n)
    BY <1>1, <2>2 DEF Stack
  <2> HIDE DEF a, k, d
  <2>4. e.eip \in 1 .. Len(asm) /\ own[e.eip] = a[k] /\ Inside(asm[e.eip])
    BY <1>7, <2>1, <2>2, <2>3 DEF ReturnSaved
  <2>5. e.reg["EBP"] = d[k] - 4
    BY <1>3, <1>5, <1>9, <2>1, <2>2
  <2>6. Phase(asm[e.eip], e, d, s, k)
    BY <2>1, <2>4, <2>5, Phases
  <2>7. Machine(asm, own, d, e, s, a)
    BY <1>1, <1>3, <2>1, <2>2, <2>4, <2>6 DEF Machine
  <2>8. a # <<>>
    BY <2>1, <2>2
  <2> QED
    BY <1>4, <2>7, <2>8 DEF e, a, i
<1>10. n = 1 \/ n > 1
  <2>1. n \in Nat /\ n > 0
    BY MachineFacts
  <2> HIDE DEF n
  <2> QED
    BY <2>1
<1> QED
  BY <1>8, <1>9, <1>10, Zenon

(* Calls and returns as the machine executes them.                         *)
ActiveAfter(i, act) ==
  CASE i.i = "CALL" -> Append(act, i.dest)
    [] i.i = "RET"  -> Front(act)
    [] OTHER        -> act

Runs(asm, own, m, s, act) ==
  IF act = <<>> THEN m.eip = 0 ELSE \E b : Machine(asm, own, b, m, s, act)

LEMMA InstructionStep ==
  ASSUME TypeOK, NEW asm, AllLabelled(asm), NEW own, NEW b, NEW m, NEW s, NEW act,
         Machine(asm, own, b, m, s, act), NEW c, Intact(m, asm[m.eip], s),
         Writes(asm[m.eip]) => Esp(m) - 4 \in Addresses
  PROVE  LET i == asm[m.eip]
         IN Runs(asm, own, Effect(m, i, asm, c), SavedAfter(m, i, s), ActiveAfter(i, act))
<1> DEFINE i == asm[m.eip]
           e == Effect(m, i, asm, c)
           t == SavedAfter(m, i, s)
           a == ActiveAfter(i, act)
           n == Len(act)
<1>1. Fits(act[n], i)
  BY MachineFacts
<1>2. act # <<>> /\ act \in Seq(Functions)
  BY DEF Machine
<1>3. ASSUME i.i # "CALL", i.i # "RET", Machine(asm, own, b, e, t, act)
      PROVE  Runs(asm, own, e, t, a)
  <2>1. a = act
    BY <1>3 DEF ActiveAfter
  <2> HIDE DEF a, e, t
  <2> QED
    BY <1>2, <1>3, <2>1 DEF Runs
<1>4. CASE i \in PlainInstructions
  <2>1. i.i # "CALL" /\ i.i # "RET"
    BY <1>4 DEF PlainInstructions, PlainNames
  <2>2. Machine(asm, own, b, e, t, act)
    BY <1>4, PlainStep
  <2> HIDE DEF e, t, a, i
  <2>3. Runs(asm, own, e, t, a)
    BY <1>3, <2>1, <2>2
  <2> QED
    BY <2>3 DEF e, t, a, i
<1>5. CASE i \in FrameInstructions /\ i # LeaveFunction
  <2>1. i.i # "CALL" /\ i.i # "RET"
    BY <1>5, FramesDiffer DEF FrameInstructions
  <2>2. Machine(asm, own, b, e, t, act)
    <3>1. CASE i = SaveFrame
      BY <3>1, FrameEnds, SaveFrameStep
    <3>2. CASE i = SetFrame
      BY <3>2, SetFrameStep
    <3>3. CASE i = DropFrame
      BY <3>3, DropFrameStep
    <3>4. CASE i = RestoreFrame
      BY <3>4, RestoreFrameStep
    <3> QED
      BY <1>5, <3>1, <3>2, <3>3, <3>4 DEF FrameInstructions
  <2> HIDE DEF e, t, a, i
  <2>3. Runs(asm, own, e, t, a)
    BY <1>3, <2>1, <2>2
  <2> QED
    BY <2>3 DEF e, t, a, i
<1>6. CASE i = LeaveFunction
  <2>1. i.i = "RET" /\ i.i # "CALL"
    BY <1>6, FramesDiffer
  <2>2. a = Front(act)
    BY <2>1 DEF ActiveAfter
  <2>3. IF Front(act) = <<>> THEN e.eip = 0
        ELSE \E d : Machine(asm, own, d, e, t, Front(act))
    BY <1>6, LeaveStep
  <2> HIDE DEF e, t, a, i
  <2>4. Runs(asm, own, e, t, a)
    BY <2>2, <2>3 DEF Runs
  <2> QED
    BY <2>4 DEF e, t, a, i
<1>7. CASE IsJump(act[n], i)
  <2>1. i.i # "CALL" /\ i.i # "RET"
    BY <1>7 DEF IsJump, ConditionalJumps
  <2>2. Machine(asm, own, b, e, t, act)
    BY <1>7, JumpStep
  <2> HIDE DEF e, t, a, i
  <2>3. Runs(asm, own, e, t, a)
    BY <1>3, <2>1, <2>2
  <2> QED
    BY <2>3 DEF e, t, a, i
<1>8. CASE IsCall(act[n], i)
  <2>1. i.i = "CALL" /\ Writes(i)
    BY <1>8 DEF IsCall, Writes
  <2>2. a = Append(act, i.dest)
    BY <2>1 DEF ActiveAfter
  <2>3. \E d : Machine(asm, own, d, e, t, Append(act, i.dest))
    BY <1>8, <2>1, CallStep
  <2> HIDE DEF e, t
  <2>4. a # <<>>
    BY <1>2, <2>2
  <2> HIDE DEF a, i
  <2>5. Runs(asm, own, e, t, a)
    BY <2>2, <2>3, <2>4 DEF Runs
  <2> QED
    BY <2>5 DEF e, t, a, i
<1>9. CASE i.i = "LABEL"
  <2>1. i.i # "CALL" /\ i.i # "RET"
    BY <1>9
  <2>2. Machine(asm, own, b, e, t, act)
    BY <1>9, EntersStep, LabelStep
  <2> HIDE DEF e, t, a, i
  <2>3. Runs(asm, own, e, t, a)
    BY <1>3, <2>1, <2>2
  <2> QED
    BY <2>3 DEF e, t, a, i
<1>10. \/ i \in PlainInstructions \/ (i \in FrameInstructions /\ i # LeaveFunction)
       \/ i = LeaveFunction \/ IsJump(act[n], i) \/ IsCall(act[n], i) \/ i.i = "LABEL"
  BY <1>1 DEF Fits, IsLabel, EntersFunction
<1> QED
  BY <1>4, <1>5, <1>6, <1>7, <1>8, <1>9, <1>10, Zenon

-----------------------------------------------------------------------------
(* The code does not change, nor does what is said of it.                  *)
LEMMA LabelsUnchanged ==
  ASSUME code' = code
  PROVE  /\ \A i : FunctionOf(i)' = FunctionOf(i)
         /\ \A f, d : LabelOf(f, d)' <=> LabelOf(f, d)
         /\ StaticCallGraph' = StaticCallGraph
         /\ Destinations' = Destinations
<1>1. \A i : FunctionOf(i)' = FunctionOf(i)
  BY DEF FunctionOf
<1>2. \A f, d : LabelOf(f, d)' <=> LabelOf(f, d)
  BY <1>1 DEF LabelOf
<1>3. LinesWith("CALL")' = LinesWith("CALL")
  BY DEF LinesWith
<1>4. StaticCallGraph' = StaticCallGraph
  BY <1>1, <1>3 DEF StaticCallGraph
<1>5. Destinations' = Destinations
  BY DEF Destinations
<1> QED
  BY <1>1, <1>2, <1>4, <1>5

LEMMA InstructionsUnchanged ==
  ASSUME code' = code
  PROVE  /\ Instructions' = Instructions
         /\ PlainInstructions' = PlainInstructions
         /\ \A f, i : Fits(f, i)' <=> Fits(f, i)
<1>1. Instructions' = Instructions
  BY LabelsUnchanged DEF Instructions
<1>2. PlainInstructions' = PlainInstructions
  BY <1>1 DEF PlainInstructions
<1>3. \A f, i : IsJump(f, i)' <=> IsJump(f, i)
  BY LabelsUnchanged DEF IsJump
<1>4. \A f, i : IsLabel(f, i)' <=> IsLabel(f, i)
  BY LabelsUnchanged DEF IsLabel
<1>5. \A f, i : IsCall(f, i)' <=> IsCall(f, i)
  BY LabelsUnchanged DEF IsCall
<1>6. \A f, i : Fits(f, i)' <=> Fits(f, i)
  BY <1>2, <1>3, <1>4, <1>5 DEF Fits
<1> QED
  BY <1>1, <1>2, <1>6

LEMMA CodeUnchanged ==
  ASSUME code' = code
  PROVE  /\ \A asm, own : CodeOf(asm, own)' <=> CodeOf(asm, own)
         /\ \A asm, f : InCode(asm, f)' <=> InCode(asm, f)
         /\ \A asm : Closed(asm)' <=> Closed(asm)
         /\ \A asm : AllLabelled(asm)' <=> AllLabelled(asm)
<1>1. \A asm, own : CodeOf(asm, own)' <=> CodeOf(asm, own)
  BY InstructionsUnchanged DEF CodeOf
<1>2. \A asm, f : InCode(asm, f)' <=> InCode(asm, f)
  BY <1>1 DEF InCode
<1>3. \A asm : Closed(asm)' <=> Closed(asm)
  BY <1>1 DEF Closed
<1>4. \A asm : AllLabelled(asm)' <=> AllLabelled(asm)
  BY DEF AllLabelled
<1> QED
  BY <1>1, <1>2, <1>3, <1>4

LEMMA GoodUnchanged ==
  ASSUME code' = code
  PROVE  \A g, i : Good(g, i)' <=> Good(g, i)
<1>1. GasStates' = GasStates
  BY InstructionsUnchanged DEF GasStates
<1>2. \A i, m : TailOps(i, m)' <=> TailOps(i, m)
  BY DEF TailOps
<1> QED
  BY <1>1, <1>2, LabelsUnchanged, CodeUnchanged DEF Good

LEMMA MachineUnchanged ==
  ASSUME code' = code
  PROVE  \A asm, own, b, m, s, act :
           Machine(asm, own, b, m, s, act)' <=> Machine(asm, own, b, m, s, act)
<1>1. \A asm, own, b, s, act : Stack(asm, own, b, s, act)' <=> Stack(asm, own, b, s, act)
  BY LabelsUnchanged DEF Stack
<1> QED
  BY <1>1, InstructionsUnchanged, CodeUnchanged DEF Machine

-----------------------------------------------------------------------------
(* main is called.                                                         *)
LEMMA StartFacts ==
  Shape(StartMachine) /\ Esp(StartMachine) = 0
<1>1. /\ DOMAIN StartMachine = {"eip", "cmp", "fpu", "reg", "mem"}
      /\ DOMAIN StartMachine.reg = Registers
  BY DEF StartMachine
<1>2. StartMachine.reg["ESP"] = 0
  BY FrameNames DEF StartMachine
<1> QED
  BY <1>1, <1>2 DEF Shape, Esp

LEMMA FirstCall ==
  ASSUME TypeOK, NEW asm \in Seq(Instructions), AllLabelled(asm),
         NEW own, CodeOf(asm, own), ~Open(asm, own),
         NEW s, DOMAIN s = Addresses, s[0].v = 0
  PROVE  Runs(asm, own, EipAt(StartMachine, Target(asm, Main)), s, <<Main>>)
<1> DEFINE k == Target(asm, Main)
           m == EipAt(StartMachine, k)
           a == <<Main>>
           b == [h \in 1 .. 1 |-> 0]
<1>1. Main \in Entered(code)
  BY LinesKnown DEF IsConverted
<1>2. k \in 1 .. Len(asm) /\ own[k] = Main /\ EntersFunction(asm[k]) /\ Main \in Functions
  BY <1>1, CallTarget
<1> HIDE DEF k
<1>3. Shape(m) /\ m.eip = k /\ m.reg = StartMachine.reg
  BY StartFacts, EipSet
<1> HIDE DEF m
<1>4. Esp(m) = 0
  BY <1>3, StartFacts DEF Esp
<1>5. a \in Seq(Functions) /\ Len(a) = 1 /\ a[1] = Main /\ a # <<>>
  BY <1>2
<1> HIDE DEF a
<1>6. b \in [1 .. 1 -> Addresses] /\ b[1] = 0
  BY AddressFacts
<1> HIDE DEF b
<1>7. Stack(asm, own, b, s, a)
  <2>1. 2 .. 1 = {} /\ 2 .. 1 - 1 = {}
    OBVIOUS
  <2>2. \A j, h \in 1 .. 1 : ~(j < h)
    OBVIOUS
  <2> QED
    BY <1>5, <1>6, <2>1, <2>2 DEF Stack
<1>8. Phase(asm[k], m, b, s, 1)
  <2>1. Esp(m) = b[1] /\ ~(1 > 1)
    BY <1>4, <1>6
  <2> QED
    BY <1>2, <2>1, Phases
<1>9. Machine(asm, own, b, m, s, a)
  BY <1>2, <1>3, <1>5, <1>7, <1>8 DEF Machine
<1>10. Runs(asm, own, m, s, a)
  BY <1>5, <1>9 DEF Runs
<1> QED
  BY <1>10 DEF m, k, a

-----------------------------------------------------------------------------
(* The code that is generated.                                             *)
WellFormed(asm) == asm \in Seq(Instructions) /\ Closed(asm) /\ AllLabelled(asm)

CodeInv ==
  /\ TypeOK /\ CurrentStarted
  /\ colors \in [Vars -> Nat]
  /\ stage \in {"layout", "convert", "aborted", "run", "fault", "halted"}
  /\ stage = "layout" => gas = NewGas /\ converting = 1
  /\ stage = "convert" =>
       converting \in 1 .. Len(code.lines) + 1 /\ Good(gas, converting)
  /\ stage \in {"run", "fault", "halted"} => WellFormed(gas.asm)

LEMMA WellFormedUnchanged ==
  ASSUME code' = code
  PROVE  \A asm : WellFormed(asm)' <=> WellFormed(asm)
  BY CodeUnchanged, InstructionsUnchanged DEF WellFormed

LEMMA GoodWellFormed ==
  ASSUME TypeOK, NEW g, Good(g, Len(code.lines) + 1)
  PROVE  WellFormed(g.asm)
<1> DEFINE n == Len(code.lines)
<1>1. n \in Nat \ {0} /\ IsConverted(code)
  BY LinesKnown
<1>2. code.lines[n].op = "RET"
  BY <1>1 DEF IsConverted
<1> HIDE DEF n
<1>3. n + 1 > 1 /\ (n + 1) - 1 = n
  BY <1>1
<1>4. Good(g, n + 1)
  BY DEF n
<1>5. Closed(g.asm) /\ g \in GasStates
  BY <1>2, <1>3, <1>4 DEF Good
<1>6. \A j \in 1 .. n :
        code.lines[j].op \in {"ENTRY", "LABEL"} => Labelled(g.asm, code.lines[j].dest)
  BY <1>3, <1>4 DEF Good
<1>7. g.asm \in Seq(Instructions)
  BY <1>5 DEF GasStates
<1> QED
  BY <1>5, <1>6, <1>7 DEF WellFormed, AllLabelled, n

LEMMA CodeInit == Init => CodeInv
<1> SUFFICES ASSUME Init PROVE CodeInv
  OBVIOUS
<1>1. LayoutInit /\ colors \in Colorings /\ stage = "layout" /\ gas = NewGas /\ converting = 1
  BY DEF Init
<1>2. TypeOK
  BY <1>1, InitType
<1>3. CurrentStarted
  BY <1>1 DEF LayoutInit, CurrentStarted
<1>4. colors \in [Vars -> Nat]
  BY <1>1, GasAssumption
<1> QED
  BY <1>1, <1>2, <1>3, <1>4 DEF CodeInv

LEMMA LayoutKept ==
  ASSUME TypeOK, CurrentStarted, [Next]_vars
  PROVE  TypeOK' /\ CurrentStarted' /\ code' = code
<1>1. [LayoutNext]_layoutVars
  BY DEF Next, vars, layout, startConversion, convert, start, execute, fault, halt
<1>2. TypeOK' /\ CurrentStarted'
  BY <1>1, NextType, CurrentStartedStep
<1>3. code' = code
  BY <1>1 DEF LayoutNext, layoutVars, enterFunction, placeParameter, placeLocal, passLine,
              placeArray, placeArrayAgain, passArray, nextLine, addLastFunction
<1> QED
  BY <1>2, <1>3

LEMMA CodeNext ==
  ASSUME CodeInv, [Next]_vars
  PROVE  CodeInv'
<1>1. TypeOK /\ CurrentStarted /\ colors \in [Vars -> Nat]
  BY DEF CodeInv
<1>2. TypeOK' /\ CurrentStarted' /\ code' = code
  BY <1>1, LayoutKept
<1>3. colors' = colors
  BY DEF Next, vars, layout, startConversion, convert, start, execute, fault, halt
<1>4. CASE stage = "layout"
  <2>1. gas = NewGas /\ converting = 1
    BY <1>4 DEF CodeInv
  <2>2. /\ gas' = gas /\ converting' = converting
        /\ stage' = "layout" \/ stage' = "convert"
    BY <1>4 DEF Next, vars, layout, startConversion, convert, start, execute, Running, fault, halt
  <2>3. Good(NewGas, 1) /\ 1 \in 1 .. Len(code.lines) + 1
    BY <1>1, GoodFirst, LinesKnown
  <2>4. Good(NewGas, 1)' /\ NewGas' = NewGas
    BY <1>2, <2>3, GoodUnchanged DEF NewGas
  <2>5. Good(gas, converting)' /\ converting' \in 1 .. Len(code'.lines) + 1
    BY <1>2, <2>1, <2>2, <2>3, <2>4
  <2> QED
    BY <1>1, <1>2, <1>3, <2>1, <2>2, <2>5 DEF CodeInv
<1>5. CASE stage = "convert" /\ convert
  <2> DEFINE g == gas
             i == converting
             h == convertLine(g, i)
  <2>1. /\ i \in 1 .. Len(code.lines) /\ Good(g, i)
        /\ gas' = h /\ converting' = i + 1
        /\ stage' = IF h.failed THEN "aborted" ELSE "convert"
    <3>1. i \in 1 .. Len(code.lines) + 1 /\ Good(g, i) /\ Len(code.lines) \in Nat
      BY <1>1, <1>5, LinesKnown DEF CodeInv
    <3>2. i <= Len(code.lines) /\ gas' = h /\ converting' = i + 1
          /\ stage' = IF h.failed THEN "aborted" ELSE "convert"
      BY <1>5 DEF convert
    <3> QED
      BY <3>1, <3>2
  <2>2. CASE h.failed
    BY <1>1, <1>2, <1>3, <2>1, <2>2 DEF CodeInv
  <2>3. CASE ~h.failed
    <3>1. LayoutKnown
      BY <1>1 DEF LayoutKnown
    <3>2. Good(h, i + 1)
      BY <2>1, <2>3, <3>1, GoodLine
    <3> HIDE DEF h
    <3>3. Good(gas, converting)'
      <4>1. PICK x, y : x = gas' /\ y = converting' /\ Good(x, y)
        BY <2>1, <3>2
      <4>2. Good(x, y)'
        BY <1>2, <4>1, GoodUnchanged
      <4> QED
        BY <4>1, <4>2
    <3>4. converting' \in 1 .. Len(code'.lines) + 1
      <4>1. Len(code.lines) \in Nat
        BY <1>1, LinesKnown
      <4> QED
        BY <1>2, <2>1, <4>1
    <3>5. stage' = "convert"
      BY <2>1, <2>3
    <3> QED
      BY <1>1, <1>2, <1>3, <3>3, <3>4, <3>5 DEF CodeInv
  <2> QED
    BY <2>2, <2>3
<1>6. CASE stage = "convert" /\ start
  <2>1. /\ converting = Len(code.lines) + 1 /\ Good(gas, converting)
        /\ stage' = "run" /\ gas' = gas
    BY <1>6 DEF start, CodeInv
  <2>2. PICK asm : asm = gas.asm /\ WellFormed(asm)
    BY <1>1, <2>1, GoodWellFormed
  <2>3. WellFormed(asm)' /\ asm = gas'.asm
    BY <1>2, <2>1, <2>2, WellFormedUnchanged
  <2> QED
    BY <1>1, <1>2, <1>3, <2>1, <2>3 DEF CodeInv
<1>7. CASE stage = "convert" /\ UNCHANGED vars
  <2>1. stage' = stage /\ gas' = gas /\ converting' = converting
        /\ converting \in 1 .. Len(code.lines) + 1 /\ Good(gas, converting)
    BY <1>7 DEF vars, CodeInv
  <2>2. PICK x, y : x = gas /\ y = converting /\ Good(x, y)
    BY <2>1
  <2>3. Good(x, y)' /\ x = gas' /\ y = converting'
    BY <1>2, <2>1, <2>2, GoodUnchanged
  <2> QED
    BY <1>1, <1>2, <1>3, <1>7, <2>1, <2>3 DEF CodeInv
<1>8. CASE stage \in {"run", "fault", "halted"}
  <2>1. stage' \in {"run", "fault", "halted"} /\ gas' = gas
    BY <1>8 DEF Next, vars, layout, startConversion, convert, start, execute, fault, halt
  <2>2. PICK asm : asm = gas.asm /\ WellFormed(asm)
    BY <1>8 DEF CodeInv
  <2>3. WellFormed(asm)' /\ asm = gas'.asm
    BY <1>2, <2>1, <2>2, WellFormedUnchanged
  <2> QED
    BY <1>1, <1>2, <1>3, <2>1, <2>3 DEF CodeInv
<1>9. CASE stage = "aborted"
  <2>1. stage' = "aborted"
    BY <1>9 DEF Next, vars, layout, startConversion, convert, start, execute, Running, fault, halt
  <2> QED
    BY <1>1, <1>2, <1>3, <2>1 DEF CodeInv
<1>10. stage = "convert" => convert \/ start \/ UNCHANGED vars
  BY DEF Next, layout, startConversion, execute, Running, fault, halt
<1>11. stage \in {"layout", "convert", "aborted", "run", "fault", "halted"}
  BY DEF CodeInv
<1> QED
  BY <1>4, <1>5, <1>6, <1>7, <1>8, <1>9, <1>10, <1>11

(* The stack while that code runs.                                         *)
SomeRun(asm, m, s, act) == \E own : Runs(asm, own, m, s, act)

StackInv ==
  /\ stage \in {"layout", "convert"} =>
       /\ machine = StartMachine /\ active = <<>>
       /\ DOMAIN saved = Addresses /\ saved[0].v = 0
  /\ stage = "aborted" => active = <<>>
  /\ stage = "run" => SomeRun(gas.asm, machine, saved, active)
  /\ stage \in {"fault", "halted"} => CallsInGraph

LEMMA RunUnchanged ==
  ASSUME code' = code
  PROVE  \A asm, m, s, act : SomeRun(asm, m, s, act)' <=> SomeRun(asm, m, s, act)
<1>1. \A asm, own, m, s, act :
        Runs(asm, own, m, s, act)' <=> Runs(asm, own, m, s, act)
  BY MachineUnchanged DEF Runs
<1> QED
  BY <1>1 DEF SomeRun

LEMMA RunInGraph ==
  ASSUME NEW asm, NEW m, NEW s, NEW act, SomeRun(asm, m, s, act)
  PROVE  \A k \in 2 .. Len(act) : <<act[k - 1], act[k]>> \in StaticCallGraph.edge
<1>1. CASE act = <<>>
  <2>1. 2 .. Len(act) = {}
    BY <1>1
  <2> QED
    BY <2>1
<1>2. CASE act # <<>>
  <2>1. PICK own, b : Machine(asm, own, b, m, s, act)
    BY <1>2 DEF SomeRun, Runs
  <2> QED
    BY <2>1 DEF Machine, Stack
<1> QED
  BY <1>1, <1>2

LEMMA NothingInGraph ==
  active = <<>> => CallsInGraph
<1> SUFFICES ASSUME active = <<>> PROVE CallsInGraph
  OBVIOUS
<1>1. 2 .. Len(active) = {}
  OBVIOUS
<1> QED
  BY <1>1 DEF CallsInGraph

LEMMA StackInit == Init => StackInv
<1> SUFFICES ASSUME Init PROVE StackInv
  OBVIOUS
<1>1. /\ stage = "layout" /\ machine = StartMachine /\ active = <<>>
      /\ saved = [a \in Addresses |-> IF a = 0 THEN [r |-> "EIP", v |-> 0] ELSE NothingSaved]
  BY DEF Init
<1>2. DOMAIN saved = Addresses /\ saved[0].v = 0
  BY <1>1, AddressFacts
<1> QED
  BY <1>1, <1>2 DEF StackInv

LEMMA GraphKept ==
  ASSUME code' = code, active' = active, CallsInGraph
  PROVE  CallsInGraph'
  BY LabelsUnchanged DEF CallsInGraph

LEMMA ExecuteStep ==
  ASSUME CodeInv, StackInv, SavesIntact, execute
  PROVE  SomeRun(gas.asm, machine, saved, active)'
<1>1. TypeOK /\ WellFormed(gas.asm) /\ SomeRun(gas.asm, machine, saved, active)
  BY DEF execute, Running, CodeInv, StackInv
<1>2. code' = code /\ gas' = gas
  BY DEF execute, layoutVars
<1> DEFINE asm == gas.asm
           m == machine
           s == saved
           act == active
           c == gas.constantFloats
           i == asm[m.eip]
           e == Effect(m, i, asm, c)
           t == SavedAfter(m, i, s)
           a == ActiveAfter(i, act)
<1>3. m.eip \in 1 .. Len(asm) /\ i = instruction
  BY DEF execute, Running, instruction
<1>4. PICK own : Runs(asm, own, m, s, act)
  BY <1>1 DEF SomeRun
<1>5. act # <<>>
  BY <1>3, <1>4 DEF Runs
<1>6. PICK b : Machine(asm, own, b, m, s, act)
  BY <1>4, <1>5 DEF Runs
<1>7. Intact(m, i, s)
  <2>1. Running
    BY DEF execute
  <2>2. /\ Esp(m) \in Addresses /\ Esp(m) <= m.reg["EBP"]
        /\ i.i \in {"RESTORE", "RET"} =>
             s[Esp(m)] = [r |-> IF i.i = "RET" THEN "EIP" ELSE i.a.r, v |-> m.mem[Esp(m)]]
    BY <1>3, <2>1 DEF SavesIntact
  <2> HIDE DEF i
  <2>3. i.i \in {"RESTORE", "RET"} => s[Esp(m)].v = m.mem[Esp(m)]
    BY <2>2
  <2> QED
    BY <2>2, <2>3 DEF Intact
<1>8. Writes(i) => Esp(m) - 4 \in Addresses
  BY <1>3 DEF execute, Legal, Writes
<1>9. AllLabelled(asm)
  BY <1>1 DEF WellFormed
<1>10. Runs(asm, own, e, t, a)
  BY <1>1, <1>6, <1>7, <1>8, <1>9, InstructionStep
<1>11. machine' = e
  BY <1>3 DEF execute
<1>12. saved' = t
  <2>1. SavedBy(i) = Word(m, i)
    BY DEF SavedBy, Word
  <2> QED
    BY <1>3, <2>1 DEF execute, SavedAfter, Writes
<1>13. active' = a
  BY <1>3 DEF execute, ActiveAfter
<1> HIDE DEF e, t, a
<1>14. PICK x, y, z, w : x = asm /\ y = machine' /\ z = saved' /\ w = active'
                         /\ SomeRun(x, y, z, w)
  BY <1>10, <1>11, <1>12, <1>13 DEF SomeRun
<1>15. SomeRun(x, y, z, w)' /\ x = gas'.asm
  BY <1>2, <1>14, RunUnchanged
<1> QED
  BY <1>14, <1>15

LEMMA StartStep ==
  ASSUME CodeInv, CodeInv', StackInv, start
  PROVE  SomeRun(gas.asm, machine, saved, active)'
<1>1. /\ TypeOK /\ code' = code /\ gas' = gas /\ stage' = "run"
      /\ machine = StartMachine /\ DOMAIN saved = Addresses /\ saved[0].v = 0
  BY DEF start, layoutVars, CodeInv, StackInv
<1>2. WellFormed(gas.asm)
  <2>1. WellFormed(gas.asm)'
    BY <1>1 DEF CodeInv
  <2>2. PICK asm : asm = gas'.asm /\ WellFormed(asm)'
    BY <2>1
  <2> QED
    BY <1>1, <2>2, WellFormedUnchanged
<1> DEFINE asm == gas.asm
           e == EipAt(StartMachine, Target(asm, Main))
           a == <<Main>>
<1>3. PICK own : CodeOf(asm, own) /\ ~Open(asm, own)
  BY <1>2 DEF WellFormed, Closed
<1>4. Runs(asm, own, e, saved, a)
  BY <1>1, <1>2, <1>3, FirstCall DEF WellFormed
<1>5. machine' = e /\ saved' = saved /\ active' = a
  BY <1>1 DEF start, EipAt, Entry, Target
<1> HIDE DEF e, a
<1>6. PICK x, y, z, w : x = asm /\ y = machine' /\ z = saved' /\ w = active'
                        /\ SomeRun(x, y, z, w)
  BY <1>4, <1>5 DEF SomeRun
<1>7. SomeRun(x, y, z, w)' /\ x = gas'.asm
  BY <1>1, <1>6, RunUnchanged
<1> QED
  BY <1>6, <1>7

LEMMA StackNext ==
  ASSUME CodeInv, CodeInv', StackInv, SavesIntact, [Next]_vars
  PROVE  StackInv'
<1>1. TypeOK /\ CurrentStarted
  BY DEF CodeInv
<1>2. code' = code
  BY <1>1, LayoutKept
<1>3. CASE layout \/ startConversion \/ convert
  <2>1. /\ stage \in {"layout", "convert"}
        /\ stage' \in {"layout", "convert", "aborted"}
        /\ UNCHANGED <<machine, saved, active>>
    BY <1>3 DEF layout, startConversion, convert
  <2> QED
    BY <2>1 DEF StackInv
<1>4. CASE start
  <2>1. stage' = "run"
    BY <1>4 DEF start
  <2> QED
    BY <1>4, <2>1, StartStep DEF StackInv
<1>5. CASE execute
  <2>1. stage' = "run"
    BY <1>5 DEF execute, Running
  <2> QED
    BY <1>5, <2>1, ExecuteStep DEF StackInv
<1>6. CASE fault \/ halt
  <2>1. stage = "run" /\ stage' \in {"fault", "halted"} /\ active' = active
    BY <1>6 DEF fault, halt
  <2>2. CallsInGraph
    BY <2>1, RunInGraph DEF StackInv, CallsInGraph
  <2>3. CallsInGraph'
    BY <1>2, <2>1, <2>2, GraphKept
  <2> QED
    BY <2>1, <2>3 DEF StackInv
<1>7. CASE UNCHANGED vars
  <2>1. UNCHANGED <<stage, gas, machine, saved, active>>
    BY <1>7 DEF vars
  <2>2. stage = "run" => SomeRun(gas.asm, machine, saved, active)'
    <3>1. CASE stage = "run"
      <4>1. PICK x, y, z, w : x = gas.asm /\ y = machine /\ z = saved /\ w = active
                              /\ SomeRun(x, y, z, w)
        BY <3>1 DEF StackInv
      <4>2. SomeRun(x, y, z, w)'
        BY <1>2, <4>1, RunUnchanged
      <4>3. x = gas'.asm /\ y = machine' /\ z = saved' /\ w = active'
        BY <2>1, <4>1
      <4> QED
        BY <4>2, <4>3
    <3> QED
      BY <3>1
  <2>3. CallsInGraph => CallsInGraph'
    BY <1>2, <2>1, GraphKept
  <2> QED
    BY <2>1, <2>2, <2>3 DEF StackInv
<1> QED
  BY <1>3, <1>4, <1>5, <1>6, <1>7 DEF Next

-----------------------------------------------------------------------------
(* Whatever the lines and the colouring, and however Gas inserts into what *)
(* is there: the code that is run consists of functions, each entered by   *)
(* its label only and left by its epilogue only.  Every label of the lines *)
(* is in it; a jump leads to a label of its function, a call to a function *)
(* that the static call graph connects with it.                            *)
THEOREM CodeCorrect == Spec => [](stage = "run" => WellFormed(gas.asm))
<1>1. Init => CodeInv
  BY CodeInit
<1>2. CodeInv /\ [Next]_vars => CodeInv'
  BY CodeNext
<1>3. CodeInv => (stage = "run" => WellFormed(gas.asm))
  BY DEF CodeInv
<1> QED
  BY <1>1, <1>2, <1>3, PTL DEF Spec

(* As long as what is restored is what was saved, functions active one     *)
(* above the other are connected in the static call graph.                 *)
THEOREM CallsInGraphCorrect == Spec => ([]SavesIntact => []CallsInGraph)
<1>1. Init => CodeInv /\ StackInv
  BY CodeInit, StackInit
<1>2. CodeInv /\ StackInv /\ SavesIntact /\ [Next]_vars => CodeInv' /\ StackInv'
  BY CodeNext, StackNext
<1>3. CodeInv /\ StackInv => CallsInGraph
  <2> SUFFICES ASSUME CodeInv, StackInv PROVE CallsInGraph
    OBVIOUS
  <2>1. stage \in {"layout", "convert", "aborted"} => active = <<>>
    BY DEF StackInv
  <2>2. stage = "run" => CallsInGraph
    BY RunInGraph DEF StackInv, CallsInGraph
  <2>3. stage \in {"fault", "halted"} => CallsInGraph
    BY DEF StackInv
  <2> QED
    BY <2>1, <2>2, <2>3, NothingInGraph DEF CodeInv
<1> QED
  BY <1>1, <1>2, <1>3, PTL DEF Spec
=============================================================================
