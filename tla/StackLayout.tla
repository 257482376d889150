---------------------------- MODULE StackLayout ----------------------------
(***************************************************************************)
(* RegisterManager::analyzeStackUsages: where in its frame a function keeps *)
(* each parameter, each other target of a line and the start address of    *)
(* each array.  Offsets are relative to EBP; 8 and up are what the caller  *)
(* pushed, -4 and down is the space the prologue reserves.  One step is    *)
(* one line of code, or one entry of the array declarations for that line. *)
(*                                                                         *)
(* A program is a record, of which this module looks at                    *)
(*   lines   the code: op, target and dest of each line; ENTRY is a label  *)
(*           with isFunctionEntry(), dest the label a line declares        *)
(*   arrays  arrayDeclVec: arrays and the lines behind which they are      *)
(*           declared                                                      *)
(*   params  functionPrototypeMap: the types of each function's parameters *)
(* An Array is identified by its name and length, as Array::operator< does.*)
(***************************************************************************)
EXTENDS Integers, Sequences

CONSTANTS Vars,     \* target variables, array accesses included
          NoVar,    \* no target
          Functions,\* entry labels
          NoLabel,
          Arrays,
          TypeOf,   \* the type of each variable
          Programs

(* NONE is the type of the target of a call without result.                 *)
Types == {"INT", "FLOAT", "BOOL", "NONE"}

IsProgram(p) ==
  /\ DOMAIN p.lines = 1 .. Len(p.lines) /\ Len(p.lines) \in Nat \ {0}
  /\ p.lines[1].op = "ENTRY"
  /\ \A i \in 1 .. Len(p.lines) :
       /\ p.lines[i].target \in Vars \cup {NoVar}
       /\ p.lines[i].op = "ENTRY" => p.lines[i].dest \in Functions
       /\ p.lines[i].op \in {"ENTRY", "LABEL"} => p.lines[i].target = NoVar
  /\ \A i, j \in 1 .. Len(p.lines) :
       /\ p.lines[i].op = "ENTRY" /\ p.lines[j].op = "ENTRY"
       /\ p.lines[i].dest = p.lines[j].dest
       => i = j
  /\ p.arrays \in Seq([array : Arrays, line : Nat])
  /\ p.params \in [Functions -> Seq(Types)]

ASSUME LayoutAssumption ==
  /\ Vars \cap Arrays = {}
  /\ NoVar \notin Vars
  /\ NoLabel \notin Functions
  /\ TypeOf \in [Vars -> Types]
  /\ \A p \in Programs : IsProgram(p)

VARIABLES code,
          at, nextArray,           \* the loops over lines and array entries
          currentFunctionLabel, funcArg,
          stackSpace, curLocalOffset, curParamOffset,
          variableStackOffset,     \* 0 where the map has no entry
          arrayStackOffset,
          functionVariables,       \* parameters of a function, in order
          functionStackSpace

layoutVars == <<code, at, nextArray, currentFunctionLabel, funcArg, stackSpace,
                curLocalOffset, curParamOffset, variableStackOffset,
                arrayStackOffset, functionVariables, functionStackSpace>>

getSize(type) == IF type \in {"INT", "FLOAT"} THEN 4 ELSE 0

initLocalOffset == -4
initParamOffset == 8

LayoutInit ==
  /\ code \in Programs
  /\ at = 1
  /\ nextArray = 0
  /\ currentFunctionLabel = NoLabel
  /\ funcArg = FALSE
  /\ stackSpace = 0
  /\ curLocalOffset = initLocalOffset
  /\ curParamOffset = initParamOffset
  /\ variableStackOffset = [k \in Functions \X Vars |-> 0]
  /\ arrayStackOffset = [k \in Functions \X Arrays |-> 0]
  /\ functionVariables = [f \in Functions |-> <<>>]
  /\ functionStackSpace = [f \in Functions |-> 0]

LayoutDone == at = Len(code.lines) + 1 /\ nextArray = -1

codeLine == code.lines[at]

AtLine == at <= Len(code.lines) /\ nextArray = 0

-----------------------------------------------------------------------------
(* Mutant: the offsets go on from one function to the next.                *)
enterFunctionOnTop ==
  /\ AtLine
  /\ codeLine.op = "ENTRY"
  /\ functionStackSpace' =
       [f \in Functions |-> IF f = currentFunctionLabel THEN stackSpace
                            ELSE functionStackSpace[f]]
  /\ stackSpace' = 0
  /\ currentFunctionLabel' = codeLine.dest
  /\ funcArg' = TRUE
  /\ functionVariables' = [functionVariables EXCEPT ![codeLine.dest] = <<>>]
  /\ nextArray' = 1
  /\ UNCHANGED <<code, at, variableStackOffset, arrayStackOffset,
                 curLocalOffset, curParamOffset>>

(* A function starts where the one before it ends: setFunctionStackSpace   *)
(* for that one, and the offsets start anew.                               *)
enterFunction ==
  /\ AtLine
  /\ codeLine.op = "ENTRY"
  /\ functionStackSpace' =
       [f \in Functions |-> IF f = currentFunctionLabel THEN stackSpace
                            ELSE functionStackSpace[f]]
  /\ stackSpace' = 0
  /\ curLocalOffset' = initLocalOffset
  /\ curParamOffset' = initParamOffset
  /\ currentFunctionLabel' = codeLine.dest
  /\ funcArg' = TRUE
  /\ functionVariables' = [functionVariables EXCEPT ![codeLine.dest] = <<>>]
  /\ nextArray' = 1
  /\ UNCHANGED <<code, at, variableStackOffset, arrayStackOffset>>

IsNewTarget ==
  /\ codeLine.op # "ENTRY"
  /\ codeLine.target # NoVar
  /\ variableStackOffset[<<currentFunctionLabel, codeLine.target>>] = 0

(* Mutant: the offset is moved on before it is used.                       *)
placeParameterAbove ==
  /\ AtLine
  /\ IsNewTarget
  /\ funcArg /\ codeLine.op = "POP"
  /\ curParamOffset' = curParamOffset + getSize(TypeOf[codeLine.target])
  /\ variableStackOffset' =
       [variableStackOffset EXCEPT
          ![<<currentFunctionLabel, codeLine.target>>] = curParamOffset']
  /\ functionVariables' =
       [functionVariables EXCEPT
          ![currentFunctionLabel] = Append(@, codeLine.target)]
  /\ nextArray' = 1
  /\ UNCHANGED <<code, at, currentFunctionLabel, funcArg, stackSpace,
                 curLocalOffset, arrayStackOffset, functionStackSpace>>

placeParameter ==
  /\ AtLine
  /\ IsNewTarget
  /\ funcArg /\ codeLine.op = "POP"
  /\ variableStackOffset' =
       [variableStackOffset EXCEPT
          ![<<currentFunctionLabel, codeLine.target>>] = curParamOffset]
  /\ curParamOffset' = curParamOffset + getSize(TypeOf[codeLine.target])
  /\ functionVariables' =
       [functionVariables EXCEPT
          ![currentFunctionLabel] = Append(@, codeLine.target)]
  /\ nextArray' = 1
  /\ UNCHANGED <<code, at, currentFunctionLabel, funcArg, stackSpace,
                 curLocalOffset, arrayStackOffset, functionStackSpace>>

placeLocal ==
  /\ AtLine
  /\ IsNewTarget
  /\ ~(funcArg /\ codeLine.op = "POP")
  /\ funcArg' = FALSE
  /\ variableStackOffset' =
       [variableStackOffset EXCEPT
          ![<<currentFunctionLabel, codeLine.target>>] = curLocalOffset]
  /\ curLocalOffset' = curLocalOffset - getSize(TypeOf[codeLine.target])
  /\ stackSpace' = stackSpace + getSize(TypeOf[codeLine.target])
  /\ nextArray' = 1
  /\ UNCHANGED <<code, at, currentFunctionLabel, curParamOffset,
                 arrayStackOffset, functionVariables, functionStackSpace>>

passLine ==
  /\ AtLine
  /\ codeLine.op # "ENTRY" /\ ~IsNewTarget
  /\ nextArray' = 1
  /\ UNCHANGED <<code, at, currentFunctionLabel, funcArg, stackSpace,
                 curLocalOffset, curParamOffset, variableStackOffset,
                 arrayStackOffset, functionVariables, functionStackSpace>>

-----------------------------------------------------------------------------
AtArray == at <= Len(code.lines) /\ nextArray \in 1 .. Len(code.arrays)

arrDecl == code.arrays[nextArray]

(* Mutant: a slot for an array is not counted.                             *)
placeArrayFree ==
  /\ AtArray
  /\ arrDecl.line = at
  /\ arrayStackOffset[<<currentFunctionLabel, arrDecl.array>>] = 0
  /\ arrayStackOffset' =
       [arrayStackOffset EXCEPT
          ![<<currentFunctionLabel, arrDecl.array>>] = curLocalOffset]
  /\ nextArray' = nextArray + 1
  /\ UNCHANGED <<code, at, currentFunctionLabel, funcArg, curParamOffset,
                 variableStackOffset, functionVariables, functionStackSpace,
                 curLocalOffset, stackSpace>>

(* An array takes one slot, for its start address.                         *)
placeArray ==
  /\ AtArray
  /\ arrDecl.line = at
  /\ arrayStackOffset[<<currentFunctionLabel, arrDecl.array>>] = 0
  /\ arrayStackOffset' =
       [arrayStackOffset EXCEPT
          ![<<currentFunctionLabel, arrDecl.array>>] = curLocalOffset]
  /\ curLocalOffset' = curLocalOffset - 4
  /\ stackSpace' = stackSpace + 4
  /\ nextArray' = nextArray + 1
  /\ UNCHANGED <<code, at, currentFunctionLabel, funcArg, curParamOffset,
                 variableStackOffset, functionVariables, functionStackSpace>>

(* labelArrayPairLess orders the keys of the map by "label less or array   *)
(* less", no strict weak ordering: with an entry of which neither agrees,  *)
(* find may miss an array that is there, depending on the names, whose     *)
(* order is left open.  It takes another slot, and has one entry or two,   *)
(* of which each lookup takes the first.                                   *)
placeArrayAgain ==
  /\ AtArray
  /\ arrDecl.line = at
  /\ arrayStackOffset[<<currentFunctionLabel, arrDecl.array>>] # 0
  /\ \E f \in Functions \ {currentFunctionLabel} :
       \E a \in Arrays \ {arrDecl.array} : arrayStackOffset[<<f, a>>] # 0
  /\ \/ UNCHANGED arrayStackOffset
     \/ arrayStackOffset' =
          [arrayStackOffset EXCEPT
             ![<<currentFunctionLabel, arrDecl.array>>] = curLocalOffset]
  /\ curLocalOffset' = curLocalOffset - 4
  /\ stackSpace' = stackSpace + 4
  /\ nextArray' = nextArray + 1
  /\ UNCHANGED <<code, at, currentFunctionLabel, funcArg, curParamOffset,
                 variableStackOffset, functionVariables, functionStackSpace>>

(* Declared elsewhere, or by another declaration of the same name and      *)
(* length in this function.                                                *)
passArray ==
  /\ AtArray
  /\ \/ arrDecl.line # at
     \/ arrayStackOffset[<<currentFunctionLabel, arrDecl.array>>] # 0
  /\ nextArray' = nextArray + 1
  /\ UNCHANGED <<code, at, currentFunctionLabel, funcArg, stackSpace,
                 curLocalOffset, curParamOffset, variableStackOffset,
                 arrayStackOffset, functionVariables, functionStackSpace>>

nextLine ==
  /\ at <= Len(code.lines) /\ nextArray = Len(code.arrays) + 1
  /\ at' = at + 1
  /\ nextArray' = 0
  /\ UNCHANGED <<code, currentFunctionLabel, funcArg, stackSpace,
                 curLocalOffset, curParamOffset, variableStackOffset,
                 arrayStackOffset, functionVariables, functionStackSpace>>

(* The last function's stack space.                                        *)
addLastFunction ==
  /\ at = Len(code.lines) + 1 /\ nextArray = 0
  /\ functionStackSpace' =
       [functionStackSpace EXCEPT ![currentFunctionLabel] = stackSpace]
  /\ nextArray' = -1
  /\ UNCHANGED <<code, at, currentFunctionLabel, funcArg, stackSpace,
                 curLocalOffset, curParamOffset, variableStackOffset,
                 arrayStackOffset, functionVariables>>

LayoutNext ==
  \/ enterFunction \/ placeParameter \/ placeLocal \/ passLine
  \/ placeArray \/ placeArrayAgain \/ passArray \/ nextLine \/ addLastFunction

LayoutSpec == LayoutInit /\ [][LayoutNext]_layoutVars

-----------------------------------------------------------------------------
(* functionArgSizeMap: what the caller takes off the stack.                *)
lookupFunctionArgSize(f) ==
  LET Sum[n \in 0 .. Len(code.params[f])] ==
        IF n = 0 THEN 0 ELSE Sum[n - 1] + getSize(code.params[f][n])
  IN Sum[Len(code.params[f])]

Owners == Vars \cup Arrays

Offset(f, o) == IF o \in Vars THEN variableStackOffset[<<f, o>>]
                ELSE arrayStackOffset[<<f, o>>]

OwnSize(o) == IF o \in Vars THEN getSize(TypeOf[o]) ELSE 4

(* What has a place in the frame of f: whatever is on the stack is written *)
(* there as a word, also a BOOL, which takes no space.                     *)
Placed(f) == {o \in Owners : Offset(f, o) < 0}

Unsized(o) == OwnSize(o) = 0

TypeOK ==
  /\ code \in Programs
  /\ at \in 1 .. Len(code.lines) + 1
  /\ nextArray \in -1 .. Len(code.arrays) + 1
  /\ currentFunctionLabel \in Functions \cup {NoLabel}
  /\ funcArg \in BOOLEAN
  /\ stackSpace \in Nat
  /\ curLocalOffset \in Int /\ curParamOffset \in Nat
  /\ variableStackOffset \in [Functions \X Vars -> Int]
  /\ arrayStackOffset \in [Functions \X Arrays -> Int]
  /\ functionVariables \in [Functions -> Seq(Vars)]
  /\ functionStackSpace \in [Functions -> Nat]

(* No two variables, temporaries or arrays of a function overlap in its    *)
(* frame, whatever the order they come in, unless one of them has size 0:  *)
(* a BOOL ("Is not stored in assembly") shares its word with what is placed *)
(* after it, the BOOLs before the next owner with a size and that owner.   *)
SlotsDisjoint ==
  \A f \in Functions : \A o, q \in Placed(f) :
    o # q =>
      \/ Offset(f, o) + 4 <= Offset(f, q) \/ Offset(f, q) + 4 <= Offset(f, o)
      \/ Offset(f, o) = Offset(f, q) /\ (Unsized(o) \/ Unsized(q))

(* Each slot is within what the prologue takes off ESP: below the saved    *)
(* EBP, above the registers saved next.  Only a BOOL with nothing behind it *)
(* lies one word further down, where the prologue saves EBX.               *)
SlotsReserved ==
  LayoutDone =>
    \A f \in Functions : \A o \in Placed(f) :
      /\ Offset(f, o) <= -4
      /\ \/ -functionStackSpace[f] <= Offset(f, o)
         \/ Unsized(o) /\ Offset(f, o) = -functionStackSpace[f] - 4

(* A caller pushes one word per argument, the first one last; a function   *)
(* looks for its i-th parameter i - 1 words above its return address.  True*)
(* of parameters with a size, which BOOL has not.                          *)
ParametersWherePushed ==
  \A f \in Functions : \A i \in 1 .. Len(functionVariables[f]) :
    (\A j \in 1 .. i : getSize(TypeOf[functionVariables[f][j]]) > 0) =>
      variableStackOffset[<<f, functionVariables[f][i]>>] = 8 + 4 * (i - 1)
=============================================================================
