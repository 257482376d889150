----------------------------- MODULE Conversion -----------------------------
(***************************************************************************)
(* The AST converters, as far as control goes: which lines they append to  *)
(* the Tac for functions, branches, loops, calls and returns, and how the  *)
(* lines are cut into basic blocks.  The converters walk over the syntax   *)
(* tree; here the tree is revealed node by node, so one step is what a     *)
(* converter does before, between or after the parts of its node, and open *)
(* is the stack of nodes it is inside of.  Expressions are lines without   *)
(* control, or calls.                                                      *)
(***************************************************************************)
EXTENDS TacCode, SequencesExt

CONSTANTS Funs,       \* names of functions
          MaxLines    \* bound of the model: lines of code

ASSUME LabelsAssumption == Labels \subseteq Nat
ASSUME MaxLinesAssumption == MaxLines \in Nat

VARIABLES tac,                    \* codeLines, currentBasicBlock and its flag
          functionMap,            \* function name |-> its Label
          currentFunctionLabel,
          functionReturnMap,      \* Label |-> ids of blocks that return
          open,                   \* syntax nodes being converted
          defined,                \* defined function |-> its return type
          labelCount,             \* Label objects made so far
          explicitReturns,        \* history: return statements, as function
                                  \* and block
          prototyped,             \* history: functions with a prototype
          aborted                 \* an assertion has failed

books == <<functionMap, currentFunctionLabel, functionReturnMap>>
history == <<explicitReturns, prototyped>>
vars == <<tac, books, open, defined, labelCount, history, aborted>>

Init ==
  /\ tac = [codeLines |-> <<>>, currentBasicBlock |-> 0,
            currentBasicBlockUsed |-> FALSE]
  /\ functionMap = <<>>
  /\ currentFunctionLabel = NoLabel
  /\ functionReturnMap = <<>>
  /\ open = <<>>
  /\ defined = <<>>
  /\ labelCount = 0
  /\ explicitReturns = {}
  /\ prototyped = {}
  /\ aborted = FALSE

-----------------------------------------------------------------------------
(* Tac::addLine and Tac::nextBasicBlock                                    *)

LineFor(op, operand, label, block) ==
  [op |-> op, target |-> NoVar, arg1 |-> operand, arg2 |-> NoVar,
   index |-> {}, dest |-> label, bb |-> block]

addLineWith(t, op, operand, label) ==
  [t EXCEPT
     !.codeLines = Append(@, LineFor(op, operand, label, t.currentBasicBlock)),
     !.currentBasicBlockUsed = TRUE]

addLine(t, op, label) == addLineWith(t, op, NoVar, label)

nextBasicBlockAlways(t) ==      \* mutant: also when the block is empty
  [t EXCEPT !.currentBasicBlock = @ + 1, !.currentBasicBlockUsed = FALSE]

nextBasicBlock(t) ==
  IF t.currentBasicBlockUsed
  THEN [t EXCEPT !.currentBasicBlock = @ + 1, !.currentBasicBlockUsed = FALSE]
  ELSE t

(* The two patterns of the converters: a line that ends a block, and a     *)
(* label, which starts one.                                                *)
addLast(t, op, label) == nextBasicBlock(addLine(t, op, label))

(* Mutant: the label belongs to the block before it.                       *)
addFirstInBlock(t, op, label) == addLine(t, op, label)

addFirst(t, op, label) == addLine(nextBasicBlock(t), op, label)

HasRoom == Len(tac.codeLines) < MaxLines /\ ~aborted

Here == Last(open)
Inside(kinds) == open # <<>> /\ Here.kind \in kinds
Bodies == {"function", "then", "else", "body"}

Enter(node) == open' = Append(open, node)
Leave == open' = Front(open)
Become(node) == open' = Append(Front(open), node)

-----------------------------------------------------------------------------
(* Functions                                                               *)

(* Mutant: the label is not entered.                                       *)
addFunctionUnnamed(f, label) ==
  currentFunctionLabel' = label /\ UNCHANGED functionMap

(* Tac::addFunction: a name that the map knows keeps its label.            *)
addFunction(f, label) ==
  /\ functionMap' = [g \in DOMAIN functionMap \cup {f} |->
                       IF g \in DOMAIN functionMap THEN functionMap[g] ELSE label]
  /\ currentFunctionLabel' = label

(* The parser rejects a prototype of a function it knows.                  *)
convertFunctionPrototype(f) ==
  /\ ~aborted
  /\ open = <<>>
  /\ f \notin DOMAIN functionMap
  /\ labelCount + 1 \in Labels
  /\ labelCount' = labelCount + 1
  /\ addFunction(f, labelCount + 1)
  /\ prototyped' = prototyped \cup {f}
  /\ UNCHANGED <<tac, functionReturnMap, open, defined, explicitReturns, aborted>>

(* Mutant: the definition does not look for the label of a prototype.      *)
LooksUpNothing(f) == FALSE

LooksUp(f) == f \in DOMAIN functionMap

(* Parameters are POP lines, plain lines here.                             *)
startFunction(f, returnType) ==
  LET label == IF LooksUp(f) THEN functionMap[f] ELSE labelCount + 1
  IN /\ HasRoom
     /\ open = <<>>
     /\ f \notin DOMAIN defined
     /\ label \in Labels
     /\ IF LooksUp(f) THEN UNCHANGED <<books, labelCount>>
        ELSE /\ addFunction(f, label)
             /\ labelCount' = label
             /\ UNCHANGED functionReturnMap
     /\ tac' = addFirst(tac, "ENTRY", label)
     /\ Enter([kind |-> "function", name |-> f, returnType |-> returnType,
               codelines |-> Len(tac.codeLines)])
     /\ defined' = [g \in DOMAIN defined \cup {f} |->
                     IF g = f THEN returnType ELSE defined[g]]
     /\ UNCHANGED <<history, aborted>>

(* The returns behind the position at which the function began.            *)
retStatements(node) ==
  {i \in node.codelines + 1 .. Len(tac.codeLines) : tac.codeLines[i].op = "RET"}

TypeOfReturn(l) == IF l.arg1 = NoVar THEN "NONE" ELSE "INT"

(* Mutant: any return in a function will do.                               *)
NeedsReturnIfNone(node) ==
  node.returnType = "NONE" /\ retStatements(node) = {}

NeedsReturn(node) ==
  node.returnType = "NONE" /\ Last(tac.codeLines).op # "RET"

ReturnsMismatch(node) ==
  \/ node.returnType # "NONE" /\ retStatements(node) = {}
  \/ \E i \in retStatements(node) :
       TypeOfReturn(tac.codeLines[i]) # node.returnType

endFunction ==
  /\ HasRoom
  /\ Inside({"function"})
  /\ aborted' = ReturnsMismatch(Here)
  /\ tac' = IF NeedsReturn(Here) THEN addLine(tac, "RET", NoLabel) ELSE tac
  /\ Leave
  /\ UNCHANGED <<books, defined, labelCount, history>>

-----------------------------------------------------------------------------
(* Statements and expressions                                              *)

plainLine ==
  /\ HasRoom
  /\ Inside(Bodies \cup {"condition"})
  /\ tac' = addLine(tac, "ASSIGN", NoLabel)
  /\ UNCHANGED <<books, open, defined, labelCount, history, aborted>>

convertfunctionCallExpr(f) ==
  /\ HasRoom
  /\ Inside(Bodies \cup {"condition"})
  /\ f \in DOMAIN functionMap
  /\ tac' = addLast(tac, "CALL", functionMap[f])
  /\ UNCHANGED <<books, open, defined, labelCount, history, aborted>>

addReturn(block) ==
  functionReturnMap' =
    [l \in DOMAIN functionReturnMap \cup {currentFunctionLabel} |->
       (IF l \in DOMAIN functionReturnMap THEN functionReturnMap[l] ELSE {})
         \cup {b \in {block} : l = currentFunctionLabel}]

(* Mutant: the block is read after nextBasicBlock.                         *)
returnBlockAfter(t) == nextBasicBlock(t).currentBasicBlock

returnBlock(t) == t.currentBasicBlock

convertReturnStmt(value) ==
  LET added == addLineWith(tac, "RET", value, NoLabel)
  IN /\ HasRoom
     /\ Inside(Bodies)
     /\ addReturn(returnBlock(added))
     /\ tac' = nextBasicBlock(added)
     /\ explicitReturns' =
          explicitReturns \cup {<<open[1].name, tac.currentBasicBlock>>}
     /\ UNCHANGED <<functionMap, currentFunctionLabel, open, defined, labelCount,
                    prototyped, aborted>>

(* The condition is converted before.                                      *)
startIf(hasElse) ==
  /\ HasRoom
  /\ Inside(Bodies)
  /\ labelCount + 1 \in Labels
  /\ labelCount' = labelCount + 1
  /\ tac' = addLast(tac, "JUMPFALSE", labelCount + 1)
  /\ Enter([kind |-> "then", exit |-> labelCount + 1, hasElse |-> hasElse])
  /\ UNCHANGED <<books, defined, history, aborted>>

endThen ==
  /\ HasRoom
  /\ Inside({"then"}) /\ ~Here.hasElse
  /\ tac' = addFirst(tac, "LABEL", Here.exit)
  /\ Leave
  /\ UNCHANGED <<books, defined, labelCount, history, aborted>>

startElse ==
  /\ HasRoom
  /\ Inside({"then"}) /\ Here.hasElse
  /\ labelCount + 1 \in Labels
  /\ labelCount' = labelCount + 1
  /\ tac' = addFirst(addLine(tac, "JUMP", labelCount + 1), "LABEL", Here.exit)
  /\ Become([kind |-> "else", exit |-> labelCount + 1])
  /\ UNCHANGED <<books, defined, history, aborted>>

endElse ==
  /\ HasRoom
  /\ Inside({"else"})
  /\ tac' = addFirst(tac, "LABEL", Here.exit)
  /\ Leave
  /\ UNCHANGED <<books, defined, labelCount, history, aborted>>

startWhile ==
  /\ HasRoom
  /\ Inside(Bodies)
  /\ labelCount + 1 \in Labels
  /\ labelCount' = labelCount + 1
  /\ tac' = addFirst(tac, "LABEL", labelCount + 1)
  /\ Enter([kind |-> "condition", again |-> labelCount + 1])
  /\ UNCHANGED <<books, defined, history, aborted>>

testWhile ==
  /\ HasRoom
  /\ Inside({"condition"})
  /\ labelCount + 1 \in Labels
  /\ labelCount' = labelCount + 1
  /\ tac' = addLast(tac, "JUMPFALSE", labelCount + 1)
  /\ Become([kind |-> "body", again |-> Here.again, exit |-> labelCount + 1])
  /\ UNCHANGED <<books, defined, history, aborted>>

endWhile ==
  /\ HasRoom
  /\ Inside({"body"})
  /\ tac' = addFirst(addLine(tac, "JUMP", Here.again), "LABEL", Here.exit)
  /\ Leave
  /\ UNCHANGED <<books, defined, labelCount, history, aborted>>

Next ==
  \/ \E f \in Funs : convertFunctionPrototype(f)
  \/ \E f \in Funs, returnType \in {"NONE", "INT"} : startFunction(f, returnType)
  \/ \E f \in Funs : convertfunctionCallExpr(f)
  \/ \E value \in Vars \cup {NoVar} : convertReturnStmt(value)
  \/ \E hasElse \in BOOLEAN : startIf(hasElse)
  \/ plainLine
  \/ endThen \/ startElse \/ endElse
  \/ startWhile \/ testWhile \/ endWhile
  \/ endFunction

Spec == Init /\ [][Next]_vars

-----------------------------------------------------------------------------
(* Properties                                                              *)

TacState ==
  [codeLines : Seq(Line), currentBasicBlock : Nat, currentBasicBlockUsed : BOOLEAN]

Node ==
  [kind : {"function"}, name : Funs, returnType : {"NONE", "INT"}, codelines : Nat]
    \cup [kind : {"then"}, exit : Labels, hasElse : BOOLEAN]
    \cup [kind : {"else"}, exit : Labels]
    \cup [kind : {"condition"}, again : Labels]
    \cup [kind : {"body"}, again : Labels, exit : Labels]

Nested ==
  \A i \in 1 .. Len(open) : open[i].kind = "function" <=> i = 1

(* Types: in particular only functions are outermost and functions are     *)
(* nowhere else, and the function being converted is a defined one.        *)
TypeOK ==
  /\ tac \in TacState
  /\ open \in Seq(Node)
  /\ Nested
  /\ DOMAIN functionMap \subseteq Funs
  /\ \A f \in DOMAIN functionMap : functionMap[f] \in Labels
  /\ DOMAIN defined \subseteq DOMAIN functionMap
  /\ labelCount \in Nat
  /\ aborted \in BOOLEAN

(* A block begins at each label and behind each jump, call and return, and *)
(* nowhere else, whatever the converters nest into each other: the ids of  *)
(* the lines tell, which addLine takes from currentBasicBlock.             *)
NumberedIn(lines) ==
  \A i \in 1 .. Len(lines) :
    lines[i].bb = IF i = 1 THEN 0
                  ELSE IF StartsBlock(lines[i]) \/ EndsBlock(lines[i - 1])
                  THEN lines[i - 1].bb + 1 ELSE lines[i - 1].bb

(* The line added next goes to the block of the last one or to a new one;  *)
(* the only lines added behind the end of a block without a new one begun  *)
(* are those of the next function.                                         *)
CountingIn(t, outside) ==
  LET last == t.codeLines[Len(t.codeLines)]
  IN IF t.codeLines = <<>>
     THEN t.currentBasicBlock = 0 /\ ~t.currentBasicBlockUsed
     ELSE IF t.currentBasicBlockUsed
     THEN t.currentBasicBlock = last.bb /\ (outside \/ ~EndsBlock(last))
     ELSE t.currentBasicBlock = last.bb + 1 /\ EndsBlock(last)

BlocksNumbered ==
  NumberedIn(tac.codeLines) /\ CountingIn(tac, open = <<>>)

(* Code is handed to the analyses when the outermost node is converted: it *)
(* has the shape on which Cfg relies (successor of a conditional jump is   *)
(* the block with the next id, a jump stays in its function and its label  *)
(* is there, no label twice).                                              *)
Converted == open = <<>> /\ ~aborted /\ tac.codeLines # <<>>

DeliversWellFormed ==
  Converted => WellFormed([store |-> {}, lines |-> tac.codeLines])

(* Calls of a function and its only entry use one Label object, be the     *)
(* function declared before or not, and no two functions share it.         *)
EntriesIn(lines, label) ==
  {i \in 1 .. Len(lines) : lines[i].op = "ENTRY" /\ lines[i].dest = label}

EntriesOf(label) == EntriesIn(tac.codeLines, label)

CallsReachDefinition ==
  \A f \in DOMAIN functionMap :
    /\ \A g \in DOMAIN functionMap \ {f} : functionMap[f] # functionMap[g]
    /\ IF f \in DOMAIN defined
       THEN \E i \in DOMAIN tac.codeLines : EntriesOf(functionMap[f]) = {i}
       ELSE EntriesOf(functionMap[f]) = {}

(* lookupFunctionReturn of the label of a function without prototype gives *)
(* the blocks of its return statements (not of the RET that the converter  *)
(* adds to a void function) and no other.                                  *)
ReturnsOf(f) == {r[2] : r \in {s \in explicitReturns : s[1] = f}}

ReturnsBooked ==
  prototyped = {} =>
    \A f \in DOMAIN functionMap :
      ReturnsOf(f) = IF functionMap[f] \in DOMAIN functionReturnMap
                     THEN functionReturnMap[functionMap[f]] ELSE {}

(* The returns of accepted functions have the type of their function, a    *)
(* void function ends with one, and others have one somewhere.             *)
EndOf(i) ==
  \A j \in DOMAIN tac.codeLines : j = i + 1 => tac.codeLines[j].op = "ENTRY"

FunctionsReturn ==
  Converted =>
    \A f \in DOMAIN defined :
      LET p == [store |-> {}, lines |-> tac.codeLines]
          here == {i \in Lines(p) : FunctionAt(p, i) = functionMap[f]}
          rets == {i \in here : p.lines[i].op = "RET"}
      IN /\ rets # {}
         /\ \A i \in rets : TypeOfReturn(p.lines[i]) = defined[f]
         /\ defined[f] = "NONE" => \A i \in here : EndOf(i) => i \in rets
=============================================================================
