------------------------------ MODULE CfgBuild ------------------------------
(***************************************************************************)
(* From three-address code to the flow graph: Tac::createBasicBlockIndex   *)
(* cuts the code into BasicBlocks, which collect their defined and their   *)
(* upward exposed variables line by line; the constructor of Cfg then      *)
(* makes a vertex per block and walks over the code once more to connect   *)
(* them.  One step is one line of code (or the loop over the blocks).      *)
(***************************************************************************)
EXTENDS TacCode

INSTANCE LiveSets
D == INSTANCE Dominators

CONSTANT Programs

ASSUME ProgramsAssumption == \A p \in Programs : WellFormed(p)

VARIABLES code,            \* the Tac: lines and variable store
          stage,           \* what is running
          at,              \* the line it is at
          blockIndex,      \* basicBlockIndex: a sequence of basic blocks
          notKilled,       \* block |-> variables, a map of the Cfg
          succ,            \* block |-> targets of the edges of its graph
          prevBlockId,     \* the constructor's locals
          alreadyHandled

vars == <<code, stage, at, blockIndex, notKilled, succ, prevBlockId,
          alreadyHandled>>

NewBlock(id) == [id |-> id, defVar |-> {}, ueVar |-> {}]

Init ==
  /\ code \in Programs
  /\ stage = "index"
  /\ at = 1
  /\ blockIndex = <<NewBlock(code.lines[1].bb)>>
  /\ notKilled = <<>>
  /\ succ = <<>>
  /\ prevBlockId = 0
  /\ alreadyHandled = FALSE

line == code.lines[at]

AtEnd == at = Len(code.lines)

-----------------------------------------------------------------------------
(* BasicBlock::push_back: the target counts as defined before the operands *)
(* of the same line are looked at.                                         *)
WithLineExposed(block, l) ==     \* mutant: earlier definitions are ignored
  [block EXCEPT !.defVar = @ \cup Writes(l), !.ueVar = @ \cup Operands(l)]

WithLine(block, l) ==
  LET defined == block.defVar \cup Writes(l)
  IN [block EXCEPT !.defVar = defined,
                   !.ueVar = @ \cup (Operands(l) \ defined)]

(* Mutant: every label starts another block.                               *)
BelongsUnlessLabel(block, l) == l.bb = block.id /\ ~StartsBlock(l)

Belongs(block, l) == l.bb = block.id

(* One round of the loop of createBasicBlockIndex.                         *)
pushLine ==
  LET last == blockIndex[Len(blockIndex)]
  IN /\ stage = "index"
     /\ blockIndex' =
          IF Belongs(last, line)
          THEN [blockIndex EXCEPT ![Len(blockIndex)] = WithLine(last, line)]
          ELSE Append(blockIndex, WithLine(NewBlock(line.bb), line))
     /\ at' = IF AtEnd THEN 1 ELSE at + 1
     /\ stage' = IF AtEnd THEN "vertices" ELSE stage
     /\ UNCHANGED <<code, notKilled, succ, prevBlockId, alreadyHandled>>

(* The vertex of the i-th block of the index has descriptor i - 1, and the *)
(* maps are keyed by block id; the constructor asserts that the two agree. *)
addVertices ==
  LET ids == {blockIndex[i].id : i \in 1 .. Len(blockIndex)}
      Block(id) == blockIndex[CHOOSE i \in 1 .. Len(blockIndex) :
                                blockIndex[i].id = id]
  IN /\ stage = "vertices"
     /\ notKilled' = [id \in ids |-> code.store \ Block(id).defVar]
     /\ succ' = [id \in ids |-> {}]
     /\ stage' = "edges"
     /\ UNCHANGED <<code, at, blockIndex, prevBlockId, alreadyHandled>>

(* The edges one line gives rise to: into its block, when it is the first  *)
(* of a block that control can fall into, and out of it, when it jumps.    *)
FallsIntoAnything(l) == prevBlockId # l.bb /\ ~alreadyHandled   \* mutant

FallsInto(l) ==
  prevBlockId # l.bb /\ ~alreadyHandled /\ l.op # "ENTRY"

(* Mutant: a conditional jump is always taken.                             *)
JumpTargetsTaken(l) ==
  IF IsJump(l) THEN {code.lines[Position(code, l.dest)].bb} ELSE {}

JumpTargets(l) ==
  CASE l.op = "JUMP"      -> {code.lines[Position(code, l.dest)].bb}
    [] l.op = "JUMPFALSE" -> {l.bb + 1, code.lines[Position(code, l.dest)].bb}
    [] OTHER              -> {}

connect ==
  /\ stage = "edges"
  /\ succ' = [b \in DOMAIN succ |->
                succ[b]
                  \cup (IF b = line.bb THEN JumpTargets(line) ELSE {})
                  \cup {t \in {line.bb} : FallsInto(line) /\ b = prevBlockId}]
  /\ alreadyHandled' = (IsJump(line) \/ line.op = "RET")
  /\ prevBlockId' = line.bb
  /\ at' = IF AtEnd THEN at ELSE at + 1
  /\ stage' = IF AtEnd THEN "built" ELSE stage
  /\ UNCHANGED <<code, blockIndex, notKilled>>

Next == pushLine \/ addVertices \/ connect

Spec == Init /\ [][Next]_vars

-----------------------------------------------------------------------------
(* The flow graph that live variable analysis starts from.                 *)
flowGraph ==
  [size |-> Len(blockIndex), succ |-> succ, notKilled |-> notKilled,
   ueVar |-> [b \in DOMAIN succ |-> blockIndex[b + 1].ueVar]]

(* The block at position i of the index is the block with id i - 1, which  *)
(* the constructor asserts and Cfg::getVertex relies on, and the result is *)
(* a flow graph.                                                           *)
DescriptorsMatch ==
  /\ \A i \in 1 .. Len(blockIndex) : blockIndex[i].id = i - 1
  /\ stage = "built" => IsFlowGraph(flowGraph)

IsFirst(i) == i = 1 \/ code.lines[i].bb # code.lines[i - 1].bb
IsLast(i) == IsFirst(i + 1) \/ i = Len(code.lines)

(* No step of the program is lost: control goes to the next line of the    *)
(* same block, or from the last line of a block along an edge to the first *)
(* line of a block.                                                        *)
EdgesComplete ==
  stage = "built" =>
    \A i \in Lines(code) : \A j \in LineSuccessors(code, i) :
      \/ j = i + 1 /\ code.lines[j].bb = code.lines[i].bb /\ ~IsFirst(j)
      \/ i = Len(code.lines) /\ IsFirst(j)
           /\ code.lines[j].bb \in succ[code.lines[i].bb]
      \/ i # Len(code.lines) /\ IsFirst(i + 1) /\ IsFirst(j)
           /\ code.lines[j].bb \in succ[code.lines[i].bb]

(* No step is made up: along every edge control can really go.  Neither a  *)
(* return, nor a jump, nor the end of a function falls into the next block.*)
EdgesSound ==
  stage = "built" =>
    \A b \in DOMAIN succ : \A t \in succ[b] :
      \E i \in LinesOf(code, b) : \E j \in LineSuccessors(code, i) :
        code.lines[j].bb = t /\ (j # i + 1 \/ IsFirst(j))

(* Lines whose operands are all that they read and, besides, write, and    *)
(* which do not define a variable they read; what the converters emit but  *)
(* for x = x, for lines with array accesses, and for the assignment within *)
(* int x = (y = 1), of which y stays an operand when x becomes the target. *)
PlainLine(l) ==
  /\ l.index = {}
  /\ Reads(l) \cap Writes(l) = {}
  /\ Operands(l) \subseteq Reads(l) \cup Writes(l)

(* A variable is upward exposed in a block exactly when a line of the      *)
(* block reads it and no earlier line of the block writes it.              *)
ExposedExact ==
  stage = "built" =>
    \A b \in DOMAIN succ :
      (\A i \in LinesOf(code, b) : PlainLine(code.lines[i])) =>
        blockIndex[b + 1].ueVar =
          {v \in Vars : \E i \in LinesOf(code, b) :
             /\ v \in Reads(code.lines[i])
             /\ \A j \in LinesOf(code, b) :
                  j < i => v \notin Writes(code.lines[j])}

(* Blocks are numbered downwards: the converters emit no block that only   *)
(* blocks behind it lead to.                                               *)
NumberedDownwards ==
  \A v \in D!Reachable(flowGraph) \ {0} :
    \E u \in D!Reachable(flowGraph) : u < v /\ v \in succ[u]

(* The dominator set of a block of the first function holds the blocks     *)
(* that every execution reaching it has been through.                      *)
DominatorsExact ==
  stage = "built" /\ NumberedDownwards =>
    \A v \in D!Reachable(flowGraph) :
      D!getDomSet(flowGraph, v) = D!DominatorsOf(flowGraph, v)
=============================================================================
