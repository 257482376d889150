-------------------------------- MODULE LVN --------------------------------
(***************************************************************************)
(* Local value numbering, LVN::transform: block by block, an expression    *)
(* that is in the value table is replaced by a copy of its value, and a    *)
(* temporary that was needed gets its copy inserted into the code.  The    *)
(* loops run over the blocks of the Tac while each block's insertions      *)
(* rebuild them.                                                           *)
(*                                                                         *)
(* A line is a Triple, an object shared by the code and its block: line    *)
(* gives its contents, and the code and the blocks are sequences of        *)
(* identities.  Line i of the source has identity i; when it is a binary   *)
(* operation its target is the variable i.  The temporary for its value    *)
(* is variable -i, and so is called the copy line that is inserted for it. *)
(***************************************************************************)
EXTENDS Integers, SequencesExt

CONSTANTS UserVars,    \* variables that assignments write
          Sources,     \* the codes considered: sequences of lines
          StartValues  \* what a variable of the user may begin with

Variable(v) == [variable |-> v]
IntLiteral(n) == [literal |-> n]
NoOperand == [none |-> 0]

Jumps == {"JUMP", "JUMPFALSE"}
Operand == [variable : UserVars \cup Int] \cup [literal : Int] \cup {NoOperand}
Line == [op : {"ADD", "LT", "ASSIGN", "LABEL"} \cup Jumps, target : UserVars \cup Int,
         arg1 : Operand, arg2 : Operand, bb : Nat]

(* Block ids count up without gaps, and change behind a jump and at a      *)
(* label.                                                                  *)
InBlocks(lines) ==
  /\ lines \in Seq(Line) /\ lines # <<>> /\ lines[1].bb = 0
  /\ \A i \in 1 .. Len(lines) - 1 :
       \/ lines[i + 1].bb = lines[i].bb + 1
       \/ /\ lines[i + 1].bb = lines[i].bb
          /\ lines[i].op \notin Jumps /\ lines[i + 1].op # "LABEL"

IsVariable(o) == "variable" \in DOMAIN o
IsLiteral(o) == "literal" \in DOMAIN o

(* The temporaries of the copies are new: no line of the source reads or   *)
(* writes one.                                                             *)
OwnVariables(lines) ==
  \A i \in 1 .. Len(lines) :
    /\ lines[i].target \in UserVars \cup 0 .. Len(lines)
    /\ \A o \in {lines[i].arg1, lines[i].arg2} :
         IsVariable(o) => o.variable \in UserVars \cup 0 .. Len(lines)

ASSUME SourcesAssumption == \A s \in Sources : InBlocks(s) /\ OwnVariables(s)
ASSUME UserVarsAssumption == \A v \in UserVars : v \notin Int

VARIABLES source,          \* the code as the converters left it
          line,            \* contents of each triple
          codeLines,
          blocks,          \* basicBlockIndex, members only
          blockNo,         \* the iterator over blocks
          todo,            \* members of the block not visited yet
          currentPos,
          valueMap,        \* key |-> operand
          tempVarAssign,   \* temporary |-> its variable and position
          tempVarUsed,
          numInserted,
          phase            \* "visit", "update" or "done"; "undefined" when
                           \* the vector is not the one iterated over

tables == <<valueMap, tempVarAssign, tempVarUsed>>
position == <<blockNo, todo, currentPos>>
vars == <<source, line, codeLines, blocks, position, tables, numInserted, phase>>

-----------------------------------------------------------------------------
(* Tac::createBasicBlockIndex: another block wherever the id changes.      *)
BlocksOf(lines, content) ==
  LET Index[n \in 0 .. Len(lines)] ==
        IF n = 0 THEN <<>>
        ELSE LET made == Index[n - 1]
             IN IF n > 1 /\ content[lines[n]].bb = content[lines[n - 1]].bb
                THEN [made EXCEPT ![Len(made)] = Append(@, lines[n])]
                ELSE Append(made, <<lines[n]>>)
  IN Index[Len(lines)]

Init ==
  /\ source \in Sources
  /\ line = source
  /\ codeLines = [i \in 1 .. Len(source) |-> i]
  /\ blocks = BlocksOf(codeLines, line)
  /\ blockNo = 1
  /\ todo = blocks[1]
  /\ currentPos = 0
  /\ valueMap = <<>>
  /\ tempVarAssign = <<>>
  /\ tempVarUsed = {}
  /\ numInserted = 0
  /\ phase = "visit"

-----------------------------------------------------------------------------
(* One line of the block.  An ASSIGN is a binary operation too, but never  *)
(* in the table.                                                           *)
IsBinary(l) == l.op \in {"ADD", "LT", "ASSIGN"}
isValidOperator(l) == l.op = "ADD"

(* Mutant: the operands alone.                                             *)
KeyOfOperands(l) == <<l.arg1, "ADD", l.arg2>>

Key(l) == <<l.arg1, l.op, l.arg2>>

This == line[Head(todo)]
InTable == IsBinary(This) /\ Key(This) \in DOMAIN valueMap
Foldable == IsLiteral(This.arg1) /\ IsLiteral(This.arg2)

Visiting == phase = "visit" /\ todo # <<>>

(* Mutant: only lines that get a temporary are counted.                    *)
nextPosWithValue ==
  IF isValidOperator(This) THEN currentPos + 1 ELSE currentPos

nextPos == currentPos + 1

Step ==
  /\ todo' = Tail(todo)
  /\ currentPos' = nextPos
  /\ UNCHANGED <<source, codeLines, blocks, blockNo, numInserted, phase>>

updateTriple(value) ==
  line' = [line EXCEPT ![Head(todo)] =
             [@ EXCEPT !.op = "ASSIGN", !.arg1 = Variable(This.target),
                       !.arg2 = value]]

Enter(map, key, value) ==
  [k \in DOMAIN map \cup {key} |-> IF k \in DOMAIN map THEN map[k] ELSE value]

enterValue(value) == valueMap' = Enter(valueMap, Key(This), value)

reuseValue ==
  /\ Visiting /\ InTable
  /\ LET value == valueMap[Key(This)]
     IN /\ updateTriple(value)
        /\ tempVarUsed' = IF IsVariable(value) THEN tempVarUsed \cup {value.variable}
                          ELSE tempVarUsed
  /\ Step
  /\ UNCHANGED <<valueMap, tempVarAssign>>

foldConstants ==
  /\ Visiting /\ IsBinary(This) /\ ~InTable
  /\ isValidOperator(This) /\ Foldable
  /\ LET result == IntLiteral(This.arg1.literal + This.arg2.literal)
     IN enterValue(result) /\ updateTriple(result)
  /\ Step
  /\ UNCHANGED <<tempVarAssign, tempVarUsed>>

insertBehind == currentPos + 1

addTempVar ==
  /\ Visiting /\ IsBinary(This) /\ ~InTable
  /\ isValidOperator(This) /\ ~Foldable
  /\ enterValue(Variable(-Head(todo)))
  /\ tempVarAssign' =
       Enter(tempVarAssign, -Head(todo),
             [variable |-> This.target, position |-> insertBehind])
  /\ Step
  /\ UNCHANGED <<line, tempVarUsed>>

passBy ==
  /\ Visiting
  /\ ~InTable /\ ~(IsBinary(This) /\ isValidOperator(This))
  /\ Step
  /\ UNCHANGED <<line, tables>>

-----------------------------------------------------------------------------
(* The end of a block.                                                     *)

updateTac ==
  /\ phase = "visit" /\ todo = <<>>
  /\ phase' = "update"
  /\ numInserted' = 0
  /\ UNCHANGED <<source, line, codeLines, blocks, position, tables>>

Pending == (tempVarUsed \cap DOMAIN tempVarAssign) \ DOMAIN line

(* Tac::addLine at a position: the block id of the line before.            *)
(* Mutant: a label is taken for the end of a block.                        *)
blockBehindLabelToo(l) ==
  IF l.op \in Jumps \cup {"LABEL"} THEN l.bb + 1 ELSE l.bb

blockBehind(l) == IF l.op \in Jumps THEN l.bb + 1 ELSE l.bb

(* The map of temporaries is ordered by the addresses of the objects: any  *)
(* of them may come next.                                                  *)
addTempVarAssignment(t) ==
  LET at == tempVarAssign[t].position + numInserted
  IN /\ phase = "update"
     /\ t \in Pending
     /\ line' = Enter(line, t, [op |-> "ASSIGN", target |-> t,
                                arg1 |-> Variable(t),
                                arg2 |-> Variable(tempVarAssign[t].variable),
                                bb |-> blockBehind(line[codeLines[at]])])
     /\ codeLines' = InsertAt(codeLines, at + 1, t)
     /\ numInserted' = numInserted + 1
     /\ UNCHANGED <<source, blocks, position, tables, phase>>

(* createBasicBlockIndex clears the vector that the loop of transform runs *)
(* over and fills it again.  As long as it gets as many blocks as before   *)
(* it keeps its memory, and the loop goes on with the block in the next    *)
(* place.                                                                  *)
rebuild ==
  /\ phase = "update" /\ Pending = {}
  /\ blocks' = BlocksOf(codeLines, line)
  /\ phase' = IF Len(blocks') # Len(blocks) THEN "undefined"
              ELSE IF blockNo = Len(blocks) THEN "done"
              ELSE "visit"
  /\ blockNo' = blockNo + 1
  /\ todo' = IF phase' = "visit" THEN blocks'[blockNo'] ELSE <<>>
  /\ valueMap' = <<>>
  /\ tempVarAssign' = <<>>
  /\ tempVarUsed' = {}
  /\ UNCHANGED <<source, line, codeLines, currentPos, numInserted>>

Next ==
  \/ reuseValue \/ foldConstants \/ addTempVar \/ passBy
  \/ updateTac
  \/ \E t \in Pending : addTempVarAssignment(t)
  \/ rebuild

Spec == Init /\ [][Next]_vars

-----------------------------------------------------------------------------
(* What a code computes.  A jump goes to the next label.                   *)

Copies == {t \in DOMAIN line : t < 0}
Variables == UserVars \cup (-Len(source) .. Len(source))

ValueOf(o, env) == IF IsVariable(o) THEN env[o.variable] ELSE o.literal

Computed(l, env) ==
  LET left == ValueOf(l.arg1, env)
      right == ValueOf(l.arg2, env)
  IN CASE l.op = "ADD" -> left + right
       [] l.op = "LT"  -> IF left < right THEN 1 ELSE 0
       [] OTHER        -> right

(* Values after a line, and whether control is on its way to a label.      *)
After(l, before) ==
  IF l.op = "LABEL" THEN [before EXCEPT !.jumping = FALSE]
  ELSE IF before.jumping THEN before
  ELSE IF l.op \in Jumps
  THEN [before EXCEPT !.jumping =
          l.op = "JUMP" \/ ValueOf(l.arg1, before.env) = 0]
  ELSE [before EXCEPT !.env =
          [@ EXCEPT ![l.target] = Computed(l, before.env)]]

Run(lines, content, start) ==
  LET State[n \in 0 .. Len(lines)] ==
        IF n = 0 THEN [env |-> start, jumping |-> FALSE]
        ELSE After(content[lines[n]], State[n - 1])
  IN State[Len(lines)].env

(* Variables of the user begin with all kinds of values, the others with   *)
(* an arbitrary one.                                                       *)
Starts ==
  {[v \in Variables |-> IF v \in UserVars THEN user[v] ELSE 9] :
     user \in [UserVars -> StartValues]}

Equivalent ==
  \A start \in Starts :
    LET before == Run([i \in 1 .. Len(source) |-> i], source, start)
        after == Run(codeLines, line, start)
    IN \A v \in UserVars \cup 1 .. Len(source) : before[v] = after[v]

(* No variable of an expression is assigned between two computations of    *)
(* it in one block.                                                        *)
SameExpression(i, j) ==
  /\ source[i].bb = source[j].bb /\ source[i].op = "ADD"
  /\ Key(source[i]) = Key(source[j])

Undisturbed ==
  \A i, j \in 1 .. Len(source) :
    i < j /\ SameExpression(i, j) =>
      \A k \in i .. j : Variable(source[k].target) \notin
                          {source[i].arg1, source[i].arg2}

-----------------------------------------------------------------------------
(* Properties                                                              *)

(* Every line of the source is visited once, in its turn, and currentPos   *)
(* is its place in the source.                                             *)
VisitsInOrder ==
  /\ \A k \in 1 .. Len(todo) : todo[k] = currentPos + k
  /\ phase = "visit" /\ todo = <<>> =>
       currentPos = Len(source) \/ source[currentPos + 1].bb # source[currentPos].bb
  /\ phase = "done" => currentPos = Len(source)

(* Insertions change neither the order of the lines of the source nor      *)
(* their blocks, and make no block and split none.                         *)
BlocksKept ==
  /\ \A i \in 1 .. Len(source) : \E n \in 1 .. Len(codeLines) : codeLines[n] = i
  /\ \A n, m \in 1 .. Len(codeLines) :
       n < m /\ codeLines[n] > 0 /\ codeLines[m] > 0 => codeLines[n] < codeLines[m]
  /\ \A i \in 1 .. Len(source) : line[i].bb = source[i].bb
  /\ \A n \in 1 .. Len(codeLines) - 1 :
       line[codeLines[n]].bb <= line[codeLines[n + 1]].bb

(* The blocks are rebuilt while transform runs over them, and the loop     *)
(* stays inside of their vector, misses no line and sees none twice.       *)
RebuildHarmless == phase # "undefined" /\ VisitsInOrder /\ BlocksKept

(* The copy of a value is taken behind the line that computes it: the only *)
(* copy that is inserted is in its place, whatever block it is in.         *)
IsBehindDefinition(t) ==
  \E n \in 1 .. Len(codeLines) - 1 : codeLines[n] = -t /\ codeLines[n + 1] = t

SingleCopyInPlace ==
  \A t \in Copies : Copies = {t} => IsBehindDefinition(t)

(* Code keeps its meaning when copies are in their places and no operand   *)
(* of an expression in the table is assigned.                              *)
CopiesInPlace == \A t \in Copies : IsBehindDefinition(t)

MeaningKept ==
  phase = "done" /\ Undisturbed /\ CopiesInPlace => Equivalent

(* The test RedundantExpression: an expression is replaced by the value of *)
(* an earlier one when it is redundant.                                    *)
OnlyRedundantReplaced == phase = "done" /\ CopiesInPlace => Equivalent
=============================================================================
