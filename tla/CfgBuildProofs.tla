--------------------------- MODULE CfgBuildProofs ---------------------------
(***************************************************************************)
(* What the block index and the flow graph are when the constructor of Cfg *)
(* returns, for well formed code of any length.                            *)
(*                                                                         *)
(* Both loops run over the code, so the inductive invariant says of the    *)
(* lines passed so far what the theorems say of all of them: the blocks    *)
(* are those of the lines pushed, and the edges those that the lines       *)
(* connected give rise to.                                                 *)
(***************************************************************************)
EXTENDS CfgBuild, SequenceTheorems, FiniteSetTheorems, WellFoundedInduction, TLAPS

Block == [id : Nat, defVar : SUBSET Vars, ueVar : SUBSET Vars]

(* How many lines the two loops have passed.                               *)
pushed == IF stage = "index" THEN at - 1 ELSE Len(code.lines)

connected ==
  CASE stage = "edges" -> at - 1
    [] stage = "built" -> Len(code.lines)
    [] OTHER           -> 0

TypeOK ==
  /\ code \in Programs
  /\ stage \in {"index", "vertices", "edges", "built"}
  /\ at \in Lines(code)
  /\ stage = "vertices" => at = 1
  /\ blockIndex \in Seq(Block) /\ blockIndex # <<>>

(* The last block is that of the last line pushed.                         *)
BlocksCounted ==
  /\ \A i \in 1 .. Len(blockIndex) : blockIndex[i].id = i - 1
  /\ \A i \in 1 .. pushed : code.lines[i].bb < Len(blockIndex)
  /\ Len(blockIndex) = IF pushed = 0 THEN 1 ELSE code.lines[pushed].bb + 1

(* The sets of block b, of which the first n lines have been pushed.       *)
Members(b, n) == {i \in 1 .. n : code.lines[i].bb = b}

DefinedIn(b, n) == UNION {Writes(code.lines[i]) : i \in Members(b, n)}

ExposedIn(b, n) ==
  {v \in Vars : \E i \in Members(b, n) :
     /\ v \in Reads(code.lines[i])
     /\ \A j \in Members(b, n) : j < i => v \notin Writes(code.lines[j])}

PlainIn(b, n) == \A i \in Members(b, n) : PlainLine(code.lines[i])

SetsCollected ==
  \A b \in 0 .. Len(blockIndex) - 1 :
    /\ blockIndex[b + 1].defVar = DefinedIn(b, pushed)
    /\ PlainIn(b, pushed) => blockIndex[b + 1].ueVar = ExposedIn(b, pushed)

(* Line i connects block b to block t.                                     *)
Falls(i, b, t) ==
  /\ i > 1
  /\ code.lines[i - 1].bb = b /\ code.lines[i].bb = t /\ b # t
  /\ code.lines[i].op # "ENTRY"
  /\ ~IsJump(code.lines[i - 1]) /\ code.lines[i - 1].op # "RET"

Jumps(i, b, t) == code.lines[i].bb = b /\ t \in JumpTargets(code.lines[i])

EdgesCollected ==
  stage \in {"edges", "built"} =>
    /\ succ \in [0 .. Len(blockIndex) - 1 -> SUBSET (0 .. Len(blockIndex) - 1)]
    /\ \A b \in DOMAIN succ :
         succ[b] = {t \in DOMAIN succ :
                      \E i \in 1 .. connected : Falls(i, b, t) \/ Jumps(i, b, t)}
    /\ notKilled \in [DOMAIN succ -> SUBSET Vars]

(* What the constructor remembers of the line before.                      *)
LineRemembered ==
  stage # "built" =>
    IF stage # "edges" \/ at = 1 THEN prevBlockId = 0 /\ ~alreadyHandled
    ELSE LET last == code.lines[at - 1]
         IN /\ prevBlockId = last.bb
            /\ alreadyHandled = (IsJump(last) \/ last.op = "RET")

(* A variable of the store is not killed in a block that does not write it.*)
KillsKnown ==
  stage \in {"edges", "built"} =>
    \A b \in 0 .. Len(blockIndex) - 1 :
      notKilled[b] = code.store \ blockIndex[b + 1].defVar

Inv ==
  /\ TypeOK
  /\ BlocksCounted
  /\ SetsCollected
  /\ EdgesCollected
  /\ KillsKnown
  /\ LineRemembered

-----------------------------------------------------------------------------
(* What well formed code gives, line by line.                              *)
LEMMA CodeFacts ==
  ASSUME code \in Programs
  PROVE  /\ code.store \subseteq Vars
         /\ code.lines \in Seq(Line)
         /\ Len(code.lines) \in Nat \ {0}
         /\ Lines(code) = 1 .. Len(code.lines)
         /\ code.lines[1].op = "ENTRY" /\ code.lines[1].bb = 0
         /\ \A i \in Lines(code) : code.lines[i] \in Line /\ code.lines[i].bb \in Nat
         /\ \A i \in Lines(code) \ {1} :
              code.lines[i].bb = code.lines[i - 1].bb +
                (IF StartsBlock(code.lines[i]) \/ EndsBlock(code.lines[i - 1])
                 THEN 1 ELSE 0)
<1>1. WellFormed(code)
  BY ProgramsAssumption
<1>2. code.lines \in Seq(Line) /\ code.lines # <<>> /\ Lines(code) = 1 .. Len(code.lines)
  BY <1>1 DEF WellFormed, Lines
<1>3. Len(code.lines) \in Nat \ {0}
  BY <1>2
<1>4. \A i \in Lines(code) : code.lines[i] \in Line
  BY <1>2
<1>5. \A i \in Lines(code) : code.lines[i].bb \in Nat
  BY <1>4 DEF Line
<1> QED
  BY <1>1, <1>2, <1>3, <1>4, <1>5 DEF WellFormed

(* A jump finds its label, at the first line of a block.                   *)
LEMMA JumpFacts ==
  ASSUME code \in Programs, NEW i \in Lines(code), IsJump(code.lines[i])
  PROVE  /\ Position(code, code.lines[i].dest) \in Lines(code)
         /\ StartsBlock(code.lines[Position(code, code.lines[i].dest)])
<1> DEFINE label == code.lines[i].dest
<1>1. WellFormed(code)
  BY ProgramsAssumption
<1>2. \E j \in Lines(code) : code.lines[j].op = "LABEL" /\ code.lines[j].dest = label
  BY <1>1 DEF WellFormed
<1>3. \E j \in Lines(code) : IsDeclarationOf(code.lines[j], label)
  BY <1>2 DEF IsDeclarationOf
<1>4. /\ Position(code, label) \in Lines(code)
      /\ IsDeclarationOf(code.lines[Position(code, label)], label)
  BY <1>3 DEF Position
<1> QED
  BY <1>4 DEF IsDeclarationOf, StartsBlock

LEMMA ConditionalFacts ==
  ASSUME code \in Programs, NEW i \in Lines(code), code.lines[i].op = "JUMPFALSE"
  PROVE  /\ i + 1 \in Lines(code) /\ code.lines[i + 1].op # "ENTRY"
         /\ code.lines[i + 1].bb = code.lines[i].bb + 1
<1>1. WellFormed(code)
  BY ProgramsAssumption
<1>2. i + 1 \in Lines(code) /\ code.lines[i + 1].op # "ENTRY"
  BY <1>1 DEF WellFormed
<1>3. i \in Nat /\ i + 1 # 1 /\ i + 1 - 1 = i
  BY CodeFacts
<1>4. EndsBlock(code.lines[i])
  BY DEF EndsBlock
<1> QED
  BY <1>2, <1>3, <1>4, CodeFacts

-----------------------------------------------------------------------------
(* What one more line adds to the sets of its block, and of no other.      *)
LEMMA OtherMembers ==
  ASSUME code \in Programs, NEW n \in Nat, NEW b, code.lines[n + 1].bb # b
  PROVE  /\ DefinedIn(b, n + 1) = DefinedIn(b, n)
         /\ ExposedIn(b, n + 1) = ExposedIn(b, n)
         /\ PlainIn(b, n + 1) <=> PlainIn(b, n)
<1>1. Members(b, n + 1) = Members(b, n)
  <2>1. 1 .. n + 1 = (1 .. n) \cup {n + 1}
    OBVIOUS
  <2> QED
    BY <2>1 DEF Members
<1> QED
  BY <1>1 DEF DefinedIn, ExposedIn, PlainIn

LEMMA OneMoreMember ==
  ASSUME code \in Programs, NEW n \in Nat, n + 1 \in Lines(code)
  PROVE  LET l == code.lines[n + 1]
         IN /\ DefinedIn(l.bb, n + 1) = DefinedIn(l.bb, n) \cup Writes(l)
            /\ ExposedIn(l.bb, n + 1) =
                 ExposedIn(l.bb, n) \cup (Reads(l) \ DefinedIn(l.bb, n))
            /\ PlainIn(l.bb, n + 1) => PlainIn(l.bb, n) /\ PlainLine(l)
<1> DEFINE l == code.lines[n + 1]
           b == l.bb
<1>1. Members(b, n + 1) = Members(b, n) \cup {n + 1}
  <2>1. 1 .. n + 1 = (1 .. n) \cup {n + 1}
    OBVIOUS
  <2> QED
    BY <2>1 DEF Members
<1>2. \A j \in Members(b, n) : j \in Nat /\ j < n + 1
  BY DEF Members
<1>3. l \in Line
  BY CodeFacts
<1>4. Reads(l) \subseteq Vars
  BY <1>3 DEF Reads, getVariables, Line
<1> HIDE DEF b, l
<1>5. DefinedIn(b, n + 1) = DefinedIn(b, n) \cup Writes(l)
  BY <1>1 DEF DefinedIn, l
<1>6. PlainIn(b, n + 1) => PlainIn(b, n) /\ PlainLine(l)
  BY <1>1 DEF PlainIn, l
<1>7. ASSUME NEW v \in Vars
      PROVE  v \in ExposedIn(b, n + 1) <=>
               v \in ExposedIn(b, n) \/ v \in Reads(l) \ DefinedIn(b, n)
  <2>1. ASSUME NEW i \in Members(b, n)
        PROVE  (\A j \in Members(b, n + 1) : j < i => v \notin Writes(code.lines[j]))
               <=> (\A j \in Members(b, n) : j < i => v \notin Writes(code.lines[j]))
    <3>1. ~(n + 1 < i)
      BY <1>2
    <3> QED
      BY <1>1, <3>1
  <2>2. (\A j \in Members(b, n + 1) : j < n + 1 => v \notin Writes(code.lines[j]))
        <=> v \notin DefinedIn(b, n)
    <3>1. ~(n + 1 < n + 1)
      OBVIOUS
    <3> QED
      BY <1>1, <1>2, <3>1 DEF DefinedIn
  <2>3. v \in ExposedIn(b, n + 1) <=>
          \/ \E i \in Members(b, n) :
               /\ v \in Reads(code.lines[i])
               /\ \A j \in Members(b, n + 1) : j < i => v \notin Writes(code.lines[j])
          \/ /\ v \in Reads(l)
             /\ \A j \in Members(b, n + 1) : j < n + 1 => v \notin Writes(code.lines[j])
    BY <1>1 DEF ExposedIn, l
  <2> QED
    BY <2>1, <2>2, <2>3 DEF ExposedIn
<1>8. ExposedIn(b, n + 1) = ExposedIn(b, n) \cup (Reads(l) \ DefinedIn(b, n))
  <2>1. ExposedIn(b, n + 1) \subseteq Vars /\ ExposedIn(b, n) \subseteq Vars
    BY DEF ExposedIn
  <2> QED
    BY <1>4, <1>7, <2>1
<1> QED
  BY <1>5, <1>6, <1>8 DEF b, l

(* BasicBlock::push_back of a line to a block with the sets D and E.       *)
LEMMA LinePushed ==
  ASSUME NEW block \in Block, NEW l \in Line
  PROVE  LET new == WithLine(block, l)
         IN /\ new \in Block
            /\ new.id = block.id
            /\ new.defVar = block.defVar \cup Writes(l)
            /\ PlainLine(l) =>
                 new.ueVar = block.ueVar \cup (Reads(l) \ block.defVar)
<1> DEFINE defined == block.defVar \cup Writes(l)
           new == WithLine(block, l)
<1>1. Writes(l) \subseteq Vars /\ Operands(l) \subseteq Vars
  BY DEF Writes, Operands, Line
<1>2. new = [id |-> block.id, defVar |-> defined,
             ueVar |-> block.ueVar \cup (Operands(l) \ defined)]
  <2>1. new = [block EXCEPT !.defVar = defined,
                            !.ueVar = block.ueVar \cup (Operands(l) \ defined)]
    BY DEF WithLine
  <2> HIDE DEF new, defined
  <2> QED
    BY <2>1 DEF Block
<1>3. new \in Block
  BY <1>1, <1>2 DEF Block
<1>4. PlainLine(l) => Operands(l) \ defined = Reads(l) \ block.defVar
  <2>1. SUFFICES ASSUME PlainLine(l) PROVE Operands(l) \ defined = Reads(l) \ block.defVar
    OBVIOUS
  <2>2. Reads(l) \subseteq Operands(l)
    BY <2>1 DEF PlainLine, Reads, getVariables, Operands
  <2> QED
    BY <2>1, <2>2 DEF PlainLine
<1> HIDE DEF new
<1> QED
  BY <1>2, <1>3, <1>4 DEF new

(* The block that a line is pushed to has the id of the line.              *)
LEMMA NextBlockId ==
  ASSUME TypeOK, BlocksCounted, stage = "index"
  PROVE  LET size == Len(blockIndex)
         IN /\ Belongs(blockIndex[size], line) => line.bb = size - 1
            /\ ~Belongs(blockIndex[size], line) => line.bb = size /\ at > 1
            /\ size \in Nat \ {0} /\ blockIndex[size] \in Block
<1> DEFINE size == Len(blockIndex)
<1>1. size \in Nat \ {0} /\ blockIndex[size] \in Block /\ blockIndex[size].id = size - 1
  BY DEF TypeOK, BlocksCounted
<1>2. at \in Lines(code) /\ at \in Nat /\ pushed = at - 1
  BY CodeFacts DEF TypeOK, pushed
<1>3. CASE at = 1
  <2>1. size = 1 /\ line.bb = 0
    BY <1>2, <1>3, CodeFacts DEF BlocksCounted, line, TypeOK
  <2> QED
    BY <1>1, <1>3, <2>1 DEF Belongs
<1>4. CASE at # 1
  <2>1. at - 1 \in Lines(code) /\ at - 1 # 0
    BY <1>2, <1>4, CodeFacts DEF TypeOK
  <2>2. code.lines[at - 1].bb \in Nat /\ size = code.lines[at - 1].bb + 1
    BY <1>2, <2>1, CodeFacts DEF BlocksCounted, TypeOK
  <2>3. line.bb = code.lines[at - 1].bb \/ line.bb = code.lines[at - 1].bb + 1
    BY <1>2, <1>4, <2>2, CodeFacts DEF line, TypeOK
  <2>4. Belongs(blockIndex[size], line) <=> line.bb = size - 1
    BY <1>1 DEF Belongs
  <2>5. at > 1
    BY <1>2, <1>4, CodeFacts DEF TypeOK
  <2> HIDE DEF size
  <2> QED
    BY <1>1, <2>2, <2>3, <2>4, <2>5 DEF size
<1> QED
  BY <1>3, <1>4

(* Init: an empty block, of the first line.                                *)
LEMMA InitInv == Init => Inv
<1> SUFFICES ASSUME Init PROVE Inv
  OBVIOUS
<1>1. code \in Programs /\ 1 \in Lines(code) /\ pushed = 0 /\ code.lines[1].bb = 0
  BY CodeFacts DEF Init, pushed
<1>2. blockIndex = <<NewBlock(0)>> /\ NewBlock(0) \in Block
  BY <1>1 DEF Init, NewBlock, Block
<1>3. TypeOK
  BY <1>1, <1>2 DEF Init, TypeOK
<1>4. Len(blockIndex) = 1 /\ blockIndex[1] = NewBlock(0)
  BY <1>2
<1>5. BlocksCounted
  BY <1>1, <1>4 DEF BlocksCounted, NewBlock
<1>6. SetsCollected
  <2>1. \A b : Members(b, 0) = {}
    BY DEF Members
  <2>2. \A b : DefinedIn(b, 0) = {} /\ ExposedIn(b, 0) = {}
    BY <2>1 DEF DefinedIn, ExposedIn
  <2>3. ASSUME NEW b \in 0 .. Len(blockIndex) - 1
        PROVE  /\ blockIndex[b + 1].defVar = {}
               /\ blockIndex[b + 1].ueVar = {}
    BY <1>4 DEF NewBlock
  <2> QED
    BY <1>1, <2>2, <2>3 DEF SetsCollected
<1>7. EdgesCollected /\ KillsKnown /\ LineRemembered
  BY DEF Init, EdgesCollected, KillsKnown, LineRemembered
<1> QED
  BY <1>3, <1>5, <1>6, <1>7 DEF Inv

LEMMA PushStep ==
  ASSUME Inv, pushLine
  PROVE  Inv'
<1> DEFINE size == Len(blockIndex)
           n == at - 1
           changed == line.bb + 1       \* the position of the block
           before == IF Belongs(blockIndex[size], line) THEN blockIndex[size]
                     ELSE NewBlock(line.bb)
<1>1. /\ code \in Programs /\ at \in Lines(code) /\ n \in Nat /\ at = n + 1
      /\ pushed = n /\ stage = "index" /\ line = code.lines[n + 1]
      /\ line \in Line /\ line.bb \in Nat
  <2>1. code \in Programs /\ at \in Lines(code) /\ stage = "index"
    BY DEF Inv, TypeOK, pushLine
  <2>2. at \in Nat \ {0}
    BY <2>1, CodeFacts
  <2> QED
    BY <2>1, <2>2, CodeFacts DEF line, pushed
<1>2. /\ code' = code /\ pushed' = n + 1
      /\ stage' = IF AtEnd THEN "vertices" ELSE "index"
      /\ at' = IF AtEnd THEN 1 ELSE at + 1
  BY <1>1 DEF pushLine, pushed, AtEnd
<1>3. /\ size \in Nat \ {0} /\ blockIndex \in Seq(Block) /\ blockIndex[size] \in Block
      /\ Belongs(blockIndex[size], line) => line.bb = size - 1
      /\ ~Belongs(blockIndex[size], line) => line.bb = size /\ n > 0
      /\ line.bb = size - 1 \/ line.bb = size
  BY <1>1, NextBlockId DEF Inv, TypeOK
<1>4. before \in Block /\ before.id = line.bb
  <2>1. NewBlock(line.bb) \in Block /\ NewBlock(line.bb).id = line.bb
    BY <1>1 DEF NewBlock, Block
  <2>2. Belongs(blockIndex[size], line) => blockIndex[size].id = line.bb
    BY DEF Belongs
  <2> QED
    BY <1>3, <2>1, <2>2
<1>5. /\ blockIndex' \in Seq(Block) /\ Len(blockIndex') = changed
      /\ blockIndex'[changed] = WithLine(before, line)
      /\ \A i \in 1 .. line.bb : blockIndex'[i] = blockIndex[i]
      /\ changed \in 1 .. size + 1 /\ line.bb <= size
  <2>1. WithLine(before, line) \in Block
    BY <1>1, <1>4, LinePushed
  <2>2. CASE Belongs(blockIndex[size], line)
    <3>1. blockIndex' = [blockIndex EXCEPT ![size] = WithLine(before, line)]
      BY <2>2 DEF pushLine
    <3> HIDE DEF before
    <3> QED
      BY <1>1, <1>3, <2>1, <2>2, <3>1
  <2>3. CASE ~Belongs(blockIndex[size], line)
    <3>1. blockIndex' = Append(blockIndex, WithLine(before, line))
      BY <2>3 DEF pushLine
    <3>2. line.bb = size
      BY <1>3, <2>3
    <3> DEFINE new == WithLine(before, line)
    <3>3. /\ blockIndex' \in Seq(Block) /\ Len(blockIndex') = size + 1
          /\ blockIndex'[size + 1] = new
          /\ \A i \in 1 .. size : blockIndex'[i] = blockIndex[i]
      <4> HIDE DEF new
      <4> QED
        BY <1>3, <2>1, <3>1 DEF new
    <3> HIDE DEF before, size
    <3> QED
      BY <1>3, <3>2, <3>3
  <2> QED
    BY <2>2, <2>3
<1>6. TypeOK'
  <2>1. at' \in Lines(code)
    BY <1>1, <1>2, CodeFacts DEF AtEnd
  <2>2. blockIndex' # <<>>
    BY <1>1, <1>5
  <2> QED
    BY <1>1, <1>2, <1>5, <2>1, <2>2 DEF TypeOK, Lines
<1>7. BlocksCounted'
  <2>1. ASSUME NEW i \in 1 .. Len(blockIndex')
        PROVE  blockIndex'[i].id = i - 1
    <3>1. CASE i = changed
      <4>1. blockIndex'[i] = WithLine(before, line)
        BY <1>5, <3>1
      <4>2. WithLine(before, line).id = line.bb
        BY <1>1, <1>4, LinePushed
      <4> QED
        BY <1>1, <3>1, <4>1, <4>2
    <3>2. CASE i # changed
      <4>1. i \in 1 .. line.bb
        BY <1>1, <1>5, <3>2
      <4>2. i \in 1 .. size
        BY <1>1, <1>3, <1>5, <4>1
      <4> QED
        BY <1>5, <4>1, <4>2 DEF Inv, BlocksCounted
    <3> QED
      BY <3>1, <3>2
  <2>2. ASSUME NEW i \in 1 .. n + 1
        PROVE  code.lines[i].bb < changed
    <3>1. CASE i = n + 1
      BY <1>1, <3>1
    <3>2. CASE i # n + 1
      <4>1. i \in 1 .. n /\ code.lines[i].bb < size
        BY <1>1, <3>2 DEF Inv, BlocksCounted
      <4>2. i \in Lines(code)
        BY <1>1, <4>1, CodeFacts
      <4>3. code.lines[i].bb \in Nat
        BY <1>1, <4>2, CodeFacts
      <4> HIDE DEF size
      <4> QED
        BY <1>1, <1>3, <4>1, <4>3
    <3> QED
      BY <3>1, <3>2
  <2> QED
    BY <1>1, <1>2, <1>5, <2>1, <2>2 DEF BlocksCounted
<1>8. SetsCollected'
  <2>1. \A b : /\ DefinedIn(b, pushed)' = DefinedIn(b, n + 1)
               /\ ExposedIn(b, pushed)' = ExposedIn(b, n + 1)
               /\ PlainIn(b, pushed)' <=> PlainIn(b, n + 1)
    BY <1>2 DEF DefinedIn, ExposedIn, PlainIn, Members
  <2>2. SUFFICES
          ASSUME NEW b \in 0 .. line.bb
          PROVE  /\ blockIndex'[b + 1].defVar = DefinedIn(b, n + 1)
                 /\ PlainIn(b, n + 1) => blockIndex'[b + 1].ueVar = ExposedIn(b, n + 1)
    <3>1. 0 .. Len(blockIndex') - 1 = 0 .. line.bb
      BY <1>1, <1>5
    <3> QED
      BY <2>1, <3>1 DEF SetsCollected
  <2>3. CASE b # line.bb
    <3>1. b + 1 \in 1 .. line.bb /\ b \in 0 .. size - 1
      <4> HIDE DEF size
      <4> QED
        BY <1>1, <1>3, <2>3
    <3>2. blockIndex'[b + 1] = blockIndex[b + 1]
      BY <1>5, <3>1
    <3>3. /\ blockIndex[b + 1].defVar = DefinedIn(b, n)
          /\ PlainIn(b, n) => blockIndex[b + 1].ueVar = ExposedIn(b, n)
      BY <1>1, <3>1 DEF Inv, SetsCollected
    <3>4. /\ DefinedIn(b, n + 1) = DefinedIn(b, n)
          /\ ExposedIn(b, n + 1) = ExposedIn(b, n)
          /\ PlainIn(b, n + 1) <=> PlainIn(b, n)
      BY <1>1, <2>3, OtherMembers
    <3> QED
      BY <3>2, <3>3, <3>4
  <2>4. CASE b = line.bb
    <3>1. /\ before.defVar = DefinedIn(b, n)
          /\ PlainIn(b, n) => before.ueVar = ExposedIn(b, n)
      <4>1. CASE Belongs(blockIndex[size], line)
        <5>1. before = blockIndex[b + 1] /\ b \in 0 .. size - 1
          BY <1>1, <1>3, <2>4, <4>1
        <5> QED
          BY <1>1, <5>1 DEF Inv, SetsCollected
      <4>2. CASE ~Belongs(blockIndex[size], line)
        <5>1. Members(b, n) = {}
          BY <1>1, <1>3, <2>4, <4>2 DEF Inv, BlocksCounted, Members
        <5>2. DefinedIn(b, n) = {} /\ ExposedIn(b, n) = {}
          BY <5>1 DEF DefinedIn, ExposedIn
        <5>3. before.defVar = {} /\ before.ueVar = {}
          BY <4>2 DEF NewBlock
        <5> QED
          BY <5>2, <5>3
      <4> QED
        BY <4>1, <4>2
    <3>2. blockIndex'[b + 1] = WithLine(before, line)
      BY <1>5, <2>4
    <3> HIDE DEF before
    <3>3. /\ WithLine(before, line).defVar = before.defVar \cup Writes(line)
          /\ PlainLine(line) =>
               WithLine(before, line).ueVar
                 = before.ueVar \cup (Reads(line) \ before.defVar)
      BY <1>1, <1>4, LinePushed
    <3>4. /\ DefinedIn(b, n + 1) = DefinedIn(b, n) \cup Writes(line)
          /\ ExposedIn(b, n + 1)
               = ExposedIn(b, n) \cup (Reads(line) \ DefinedIn(b, n))
          /\ PlainIn(b, n + 1) => PlainIn(b, n) /\ PlainLine(line)
      BY <1>1, <2>4, OneMoreMember
    <3> QED
      BY <3>1, <3>2, <3>3, <3>4
  <2> QED
    BY <2>3, <2>4
<1>9. EdgesCollected' /\ KillsKnown' /\ LineRemembered'
  BY <1>1, <1>2 DEF Inv, EdgesCollected, KillsKnown, LineRemembered, pushLine
<1> QED
  BY <1>6, <1>7, <1>8, <1>9 DEF Inv

(* Every line is in a block of the index once all are pushed.              *)
LEMMA LineInBlock ==
  ASSUME TypeOK, BlocksCounted, stage # "index", NEW i \in Lines(code)
  PROVE  code.lines[i].bb \in 0 .. Len(blockIndex) - 1
<1>1. code.lines[i].bb \in Nat /\ i \in 1 .. Len(code.lines)
  BY CodeFacts DEF TypeOK
<1>2. code.lines[i].bb < Len(blockIndex) /\ Len(blockIndex) \in Nat
  BY <1>1 DEF BlocksCounted, pushed, TypeOK
<1> QED
  BY <1>1, <1>2

(* The vertices: one per block, with no edge yet.                          *)
LEMMA VerticesStep ==
  ASSUME Inv, addVertices
  PROVE  Inv'
<1> DEFINE size == Len(blockIndex)
           ids == {blockIndex[i].id : i \in 1 .. size}
<1>1. /\ code \in Programs /\ stage = "vertices" /\ at = 1 /\ at \in Lines(code)
      /\ blockIndex \in Seq(Block) /\ size \in Nat \ {0}
      /\ code.store \subseteq Vars
  BY CodeFacts DEF Inv, TypeOK, addVertices
<1>2. ids = 0 .. size - 1
  <2>1. \A i \in 1 .. size : blockIndex[i].id = i - 1
    BY DEF Inv, BlocksCounted
  <2>2. \A b \in 0 .. size - 1 : b + 1 \in 1 .. size /\ b = (b + 1) - 1
    BY <1>1
  <2>3. \A i \in 1 .. size : i - 1 \in 0 .. size - 1
    BY <1>1
  <2> HIDE DEF size
  <2> QED
    BY <2>1, <2>2, <2>3
<1>3. /\ code' = code /\ at' = at /\ blockIndex' = blockIndex /\ stage' = "edges"
      /\ prevBlockId' = prevBlockId /\ alreadyHandled' = alreadyHandled
      /\ succ' = [id \in ids |-> {}]
      /\ \E defined : notKilled' = [id \in ids |-> code.store \ defined[id]]
  <2>1. \E defined : notKilled' = [id \in ids |-> code.store \ defined[id]]
    <3> DEFINE defined == [id \in ids |-> blockIndex[CHOOSE i \in 1 .. Len(blockIndex) :
                                                      blockIndex[i].id = id].defVar]
    <3>1. notKilled' = [id \in ids |-> code.store \ defined[id]]
      BY DEF addVertices
    <3> HIDE DEF defined
    <3> QED
      BY <3>1
  <2> QED
    BY <2>1 DEF addVertices
<1>4. pushed' = pushed /\ connected' = 0
  BY <1>1, <1>3 DEF pushed, connected
<1>5. TypeOK'
  BY <1>1, <1>3 DEF Inv, TypeOK, Lines
<1>6. BlocksCounted'
  BY <1>3, <1>4 DEF Inv, BlocksCounted
<1>7. SetsCollected'
  <2>1. \A b : /\ DefinedIn(b, pushed)' = DefinedIn(b, pushed)
               /\ ExposedIn(b, pushed)' = ExposedIn(b, pushed)
               /\ PlainIn(b, pushed)' <=> PlainIn(b, pushed)
    BY <1>3, <1>4 DEF DefinedIn, ExposedIn, PlainIn, Members
  <2> QED
    BY <1>3, <2>1 DEF Inv, SetsCollected
<1>8. EdgesCollected'
  <2>1. DOMAIN succ' = 0 .. Len(blockIndex') - 1 /\ \A b \in DOMAIN succ' : succ'[b] = {}
    BY <1>2, <1>3
  <2>2. 1 .. connected' = {}
    BY <1>4
  <2> DEFINE blocks == 0 .. Len(blockIndex') - 1
  <2>4. succ' \in [blocks -> SUBSET blocks]
    BY <1>2, <1>3
  <2> HIDE DEF blocks
  <2>3. notKilled' \in [DOMAIN succ' -> SUBSET Vars]
    BY <1>1, <1>2, <1>3
  <2> QED
    BY <2>1, <2>2, <2>3, <2>4 DEF EdgesCollected, blocks
<1>9. LineRemembered'
  BY <1>1, <1>3 DEF Inv, LineRemembered
<1>10. KillsKnown'
  <2> SUFFICES ASSUME NEW b \in 0 .. size - 1
               PROVE  notKilled'[b] = code.store \ blockIndex[b + 1].defVar
    BY <1>3 DEF KillsKnown
  <2> DEFINE i == CHOOSE i \in 1 .. Len(blockIndex) : blockIndex[i].id = b
  <2>1. b + 1 \in 1 .. size /\ (b + 1) - 1 = b
    BY <1>1
  <2>2. \A j \in 1 .. size : blockIndex[j].id = j - 1 /\ (j - 1 = b => j = b + 1)
    BY <2>1 DEF Inv, BlocksCounted
  <2>3. \E j \in 1 .. size : blockIndex[j].id = b
    BY <2>1, <2>2
  <2>4. i \in 1 .. size /\ blockIndex[i].id = b
    BY <2>3
  <2>5. i = b + 1
    <3> HIDE DEF i
    <3> QED
      BY <2>2, <2>4
  <2>6. b \in ids
    BY <1>2
  <2>7. notKilled'[b] = code.store \ blockIndex[i].defVar
    BY <2>6 DEF addVertices
  <2> QED
    BY <2>5, <2>7
<1> QED
  BY <1>5, <1>6, <1>7, <1>8, <1>9, <1>10 DEF Inv

(* The targets of a line's jumps are blocks.                               *)
LEMMA TargetsAreBlocks ==
  ASSUME TypeOK, BlocksCounted, stage # "index", NEW i \in Lines(code)
  PROVE  JumpTargets(code.lines[i]) \subseteq 0 .. Len(blockIndex) - 1
<1> DEFINE l == code.lines[i]
<1>1. code \in Programs
  BY DEF TypeOK
<1>2. ASSUME IsJump(l)
      PROVE  code.lines[Position(code, l.dest)].bb \in 0 .. Len(blockIndex) - 1
  BY <1>1, <1>2, JumpFacts, LineInBlock
<1>3. ASSUME l.op = "JUMPFALSE"
      PROVE  l.bb + 1 \in 0 .. Len(blockIndex) - 1
  <2>1. i + 1 \in Lines(code) /\ code.lines[i + 1].bb = l.bb + 1
    BY <1>1, <1>3, ConditionalFacts
  <2> QED
    BY <2>1, LineInBlock
<1> SUFFICES JumpTargets(l) \subseteq 0 .. Len(blockIndex) - 1
  OBVIOUS
<1> HIDE DEF l
<1>4. CASE l.op = "JUMP"
  BY <1>2, <1>4 DEF IsJump, JumpTargets
<1>5. CASE l.op = "JUMPFALSE"
  <2>1. JumpTargets(l) = {l.bb + 1, code.lines[Position(code, l.dest)].bb}
    BY <1>5 DEF JumpTargets
  <2>2. IsJump(l)
    BY <1>5 DEF IsJump
  <2> QED
    BY <1>2, <1>3, <1>5, <2>1, <2>2
<1>6. CASE l.op \notin {"JUMP", "JUMPFALSE"}
  BY <1>6 DEF JumpTargets
<1> QED
  BY <1>4, <1>5, <1>6

(* What the step of line i adds to the successors of block b.              *)
LEMMA LineConnects ==
  ASSUME Inv, connect, NEW b \in DOMAIN succ
  PROVE  succ'[b] = succ[b] \cup
           {t \in DOMAIN succ : Falls(at, b, t) \/ Jumps(at, b, t)}
<1> DEFINE blocks == 0 .. Len(blockIndex) - 1
<1>1. /\ code \in Programs /\ at \in Lines(code) /\ stage = "edges"
      /\ line = code.lines[at] /\ at \in Nat \ {0}
      /\ TypeOK /\ BlocksCounted /\ LineRemembered
      /\ DOMAIN succ = blocks
  <2>1. code \in Programs /\ at \in Lines(code) /\ stage = "edges"
    BY DEF Inv, TypeOK, connect
  <2>2. at \in Nat \ {0}
    BY <2>1, CodeFacts
  <2> QED
    BY <2>1, <2>2 DEF Inv, line, EdgesCollected
<1>2. succ'[b] = succ[b]
        \cup (IF b = line.bb THEN JumpTargets(line) ELSE {})
        \cup {t \in {line.bb} : FallsInto(line) /\ b = prevBlockId}
  BY DEF connect
<1>3. line.bb \in blocks /\ JumpTargets(line) \subseteq blocks
  BY <1>1, LineInBlock, TargetsAreBlocks
<1>4. (IF b = line.bb THEN JumpTargets(line) ELSE {})
        = {t \in blocks : Jumps(at, b, t)}
  BY <1>1, <1>3 DEF Jumps
<1>5. ASSUME NEW t
      PROVE  (t = line.bb /\ FallsInto(line) /\ b = prevBlockId) <=> Falls(at, b, t)
  <2>1. CASE at = 1
    <3>1. line.op = "ENTRY"
      BY <1>1, <2>1, CodeFacts
    <3> QED
      BY <1>1, <2>1, <3>1 DEF FallsInto, Falls
  <2>2. CASE at # 1
    <3>1. /\ prevBlockId = code.lines[at - 1].bb
          /\ alreadyHandled <=> IsJump(code.lines[at - 1]) \/ code.lines[at - 1].op = "RET"
      BY <1>1, <2>2 DEF LineRemembered
    <3>2. at > 1
      BY <1>1, <2>2
    <3> QED
      BY <1>1, <3>1, <3>2 DEF FallsInto, Falls
  <2> QED
    BY <2>1, <2>2
<1>6. {t \in {line.bb} : FallsInto(line) /\ b = prevBlockId}
        = {t \in blocks : Falls(at, b, t)}
  BY <1>3, <1>5
<1> QED
  BY <1>1, <1>2, <1>4, <1>6

LEMMA ConnectStep ==
  ASSUME Inv, connect
  PROVE  Inv'
<1> DEFINE blocks == 0 .. Len(blockIndex) - 1
<1>1. /\ code \in Programs /\ at \in Lines(code) /\ stage = "edges"
      /\ line = code.lines[at] /\ at \in Nat \ {0}
      /\ Lines(code) = 1 .. Len(code.lines) /\ Len(code.lines) \in Nat
      /\ connected = at - 1
  <2>1. code \in Programs /\ at \in Lines(code) /\ stage = "edges"
    BY DEF Inv, TypeOK, connect
  <2> QED
    BY <2>1, CodeFacts DEF line, connected
<1>2. /\ code' = code /\ blockIndex' = blockIndex /\ notKilled' = notKilled
      /\ at' = (IF AtEnd THEN at ELSE at + 1)
      /\ stage' = (IF AtEnd THEN "built" ELSE "edges")
      /\ prevBlockId' = line.bb
      /\ alreadyHandled' = (IsJump(line) \/ line.op = "RET")
      /\ DOMAIN succ' = DOMAIN succ
  BY <1>1 DEF connect
<1>3. pushed' = pushed /\ connected' = at
  BY <1>1, <1>2 DEF pushed, connected, AtEnd
<1>4. TypeOK'
  <2>1. at' \in Lines(code)
    BY <1>1, <1>2 DEF AtEnd
  <2> QED
    BY <1>1, <1>2, <2>1 DEF Inv, TypeOK, Lines
<1>5. BlocksCounted'
  BY <1>2, <1>3 DEF Inv, BlocksCounted
<1>6. SetsCollected'
  <2>1. \A b : /\ DefinedIn(b, pushed)' = DefinedIn(b, pushed)
               /\ ExposedIn(b, pushed)' = ExposedIn(b, pushed)
               /\ PlainIn(b, pushed)' <=> PlainIn(b, pushed)
    BY <1>2, <1>3 DEF DefinedIn, ExposedIn, PlainIn, Members
  <2> QED
    BY <1>2, <2>1 DEF Inv, SetsCollected
<1>7. EdgesCollected'
  <2>1. /\ DOMAIN succ = blocks /\ notKilled \in [blocks -> SUBSET Vars]
        /\ \A b \in blocks :
             succ[b] = {t \in blocks :
                          \E i \in 1 .. at - 1 : Falls(i, b, t) \/ Jumps(i, b, t)}
    BY <1>1 DEF Inv, EdgesCollected
  <2>2. 1 .. at = (1 .. at - 1) \cup {at}
    BY <1>1
  <2>3. ASSUME NEW b \in blocks
        PROVE  succ'[b] = {t \in blocks :
                             \E i \in 1 .. at : Falls(i, b, t) \/ Jumps(i, b, t)}
    <3>1. succ'[b] = succ[b] \cup
            {t \in DOMAIN succ : Falls(at, b, t) \/ Jumps(at, b, t)}
      BY <2>1, LineConnects
    <3> HIDE DEF blocks
    <3> QED
      BY <2>1, <2>2, <3>1
  <2>4. \A i, b, t : Falls(i, b, t)' <=> Falls(i, b, t)
    BY <1>2 DEF Falls
  <2>5. \A i, b, t : Jumps(i, b, t)' <=> Jumps(i, b, t)
    BY <1>2 DEF Jumps, JumpTargets, Position, Lines
  <2>6. DOMAIN succ' = blocks /\ blocks = 0 .. Len(blockIndex') - 1
    BY <1>2, <2>1
  <2>7. succ' \in [blocks -> SUBSET blocks]
    <3>1. \E f : succ' = [b \in blocks |-> f[b]]
      <4> DEFINE f == [b \in DOMAIN succ |->
                succ[b]
                  \cup (IF b = line.bb THEN JumpTargets(line) ELSE {})
                  \cup {t \in {line.bb} : FallsInto(line) /\ b = prevBlockId}]
      <4>1. succ' = f /\ f = [b \in blocks |-> f[b]]
        BY <2>1 DEF connect
      <4> HIDE DEF f
      <4> QED
        BY <4>1
    <3> HIDE DEF blocks
    <3> QED
      BY <2>3, <3>1
  <2> HIDE DEF blocks
  <2> QED
    BY <1>2, <1>3, <2>1, <2>3, <2>4, <2>5, <2>6, <2>7 DEF EdgesCollected
<1>8. LineRemembered'
  <2>1. CASE AtEnd
    BY <1>2, <2>1 DEF LineRemembered
  <2>2. CASE ~AtEnd
    BY <1>1, <1>2, <2>2 DEF LineRemembered
  <2> QED
    BY <2>1, <2>2
<1>9. KillsKnown'
  BY <1>1, <1>2 DEF Inv, KillsKnown
<1> QED
  BY <1>4, <1>5, <1>6, <1>7, <1>8, <1>9 DEF Inv

LEMMA Stutter ==
  ASSUME Inv, UNCHANGED vars
  PROVE  Inv'
<1>1. /\ code' = code /\ stage' = stage /\ at' = at /\ blockIndex' = blockIndex
      /\ notKilled' = notKilled /\ succ' = succ /\ prevBlockId' = prevBlockId
      /\ alreadyHandled' = alreadyHandled
  BY DEF vars
<1>2. pushed' = pushed /\ connected' = connected
  BY <1>1 DEF pushed, connected
<1>3. TypeOK' /\ BlocksCounted' /\ KillsKnown' /\ LineRemembered'
  BY <1>1, <1>2 DEF Inv, TypeOK, BlocksCounted, KillsKnown, LineRemembered, Lines
<1>4. SetsCollected'
  <2>1. \A b : /\ DefinedIn(b, pushed)' = DefinedIn(b, pushed)
               /\ ExposedIn(b, pushed)' = ExposedIn(b, pushed)
               /\ PlainIn(b, pushed)' <=> PlainIn(b, pushed)
    BY <1>1, <1>2 DEF DefinedIn, ExposedIn, PlainIn, Members
  <2> QED
    BY <1>1, <2>1 DEF Inv, SetsCollected
<1>5. EdgesCollected'
  <2>1. \A i, b, t : Falls(i, b, t)' <=> Falls(i, b, t)
    BY <1>1 DEF Falls
  <2>2. \A i, b, t : Jumps(i, b, t)' <=> Jumps(i, b, t)
    BY <1>1 DEF Jumps, JumpTargets, Position, Lines
  <2> QED
    BY <1>1, <1>2, <2>1, <2>2 DEF Inv, EdgesCollected
<1> QED
  BY <1>3, <1>4, <1>5 DEF Inv

(* The invariant that the theorems about the flow graph follow from.       *)
THEOREM InvariantHolds == Spec => []Inv
<1>1. Inv /\ [Next]_vars => Inv'
  BY PushStep, VerticesStep, ConnectStep, Stutter DEF Next
<1> QED
  BY InitInv, <1>1, PTL DEF Spec

-----------------------------------------------------------------------------
(* The ids of the blocks are their positions, as the constructor of Cfg    *)
(* asserts, and what it builds is a flow graph: every edge ends at a       *)
(* block, every set is one of variables.                                   *)
THEOREM DescriptorsCorrect == Spec => []DescriptorsMatch
<1>1. Inv => DescriptorsMatch
  <2> SUFFICES ASSUME Inv PROVE DescriptorsMatch
    OBVIOUS
  <2> DEFINE size == Len(blockIndex)
             blocks == 0 .. size - 1
  <2>1. \A i \in 1 .. size : blockIndex[i].id = i - 1
    BY DEF Inv, BlocksCounted
  <2>2. ASSUME stage = "built"
        PROVE  IsFlowGraph(flowGraph)
    <3>1. size \in Nat \ {0} /\ \A b \in blocks : blockIndex[b + 1] \in Block
      BY DEF Inv, TypeOK
    <3>2. DOMAIN succ = blocks /\ notKilled \in [blocks -> SUBSET Vars]
      BY <2>2 DEF Inv, EdgesCollected
    <3>3. succ \in [blocks -> SUBSET blocks]
      BY <2>2 DEF Inv, EdgesCollected
    <3> HIDE DEF size, blocks
    <3>4. [b \in DOMAIN succ |-> blockIndex[b + 1].ueVar] \in [blocks -> SUBSET Vars]
      BY <3>1, <3>2 DEF Block
    <3> QED
      BY <3>1, <3>2, <3>3, <3>4 DEF IsFlowGraph, Blocks, flowGraph, size, blocks
  <2> QED
    BY <2>1, <2>2 DEF DescriptorsMatch
<1> QED
  BY InvariantHolds, <1>1, PTL

(* The graph when it is built.                                             *)
LEMMA BuiltFacts ==
  ASSUME Inv, stage = "built"
  PROVE  /\ code \in Programs /\ TypeOK /\ BlocksCounted
         /\ DOMAIN succ = 0 .. Len(blockIndex) - 1
         /\ \A i \in Lines(code) : code.lines[i].bb \in DOMAIN succ
         /\ \A b, t \in DOMAIN succ :
              t \in succ[b] <=>
                \E i \in Lines(code) : Falls(i, b, t) \/ Jumps(i, b, t)
         /\ \A b \in DOMAIN succ : succ[b] \subseteq DOMAIN succ
<1>1. code \in Programs /\ TypeOK /\ BlocksCounted
  BY DEF Inv, TypeOK
<1>2. connected = Len(code.lines) /\ Lines(code) = 1 .. Len(code.lines)
  BY <1>1, CodeFacts DEF connected
<1>3. DOMAIN succ = 0 .. Len(blockIndex) - 1
  BY DEF Inv, EdgesCollected
<1>4. \A i \in Lines(code) : code.lines[i].bb \in DOMAIN succ
  BY <1>1, <1>3, LineInBlock
<1>5. \A b \in DOMAIN succ :
        succ[b] = {t \in DOMAIN succ :
                     \E i \in Lines(code) : Falls(i, b, t) \/ Jumps(i, b, t)}
  BY <1>2 DEF Inv, EdgesCollected
<1> QED
  BY <1>1, <1>3, <1>4, <1>5

(* A label is the first line of its block, and so is what follows a jump.  *)
LEMMA FirstLines ==
  ASSUME code \in Programs, NEW i \in Lines(code)
  PROVE  /\ StartsBlock(code.lines[i]) => IsFirst(i)
         /\ EndsBlock(code.lines[i]) /\ i + 1 \in Lines(code) => IsFirst(i + 1)
<1>1. /\ i \in Nat \ {0} /\ (i # 1 => i - 1 \in Lines(code))
      /\ (i + 1) - 1 = i /\ i + 1 # 1
      /\ code.lines[i].bb \in Nat
  BY CodeFacts
<1>2. i # 1 => code.lines[i - 1].bb \in Nat
  BY <1>1, CodeFacts
<1>3. ASSUME StartsBlock(code.lines[i]), i # 1
      PROVE  code.lines[i].bb = code.lines[i - 1].bb + 1
  BY <1>3, CodeFacts
<1>4. ASSUME EndsBlock(code.lines[i]), i + 1 \in Lines(code)
      PROVE  code.lines[i + 1].bb = code.lines[i].bb + 1
  BY <1>1, <1>4, CodeFacts
<1>5. StartsBlock(code.lines[i]) => IsFirst(i)
  BY <1>1, <1>2, <1>3 DEF IsFirst
<1>6. EndsBlock(code.lines[i]) /\ i + 1 \in Lines(code) => IsFirst(i + 1)
  BY <1>1, <1>4 DEF IsFirst
<1> QED
  BY <1>5, <1>6

(* Where a jump may lead: to the first lines of the blocks of its targets. *)
LEMMA JumpsLead ==
  ASSUME code \in Programs, NEW i \in Lines(code), IsJump(code.lines[i])
  PROVE  /\ JumpTargets(code.lines[i])
              = {code.lines[j].bb : j \in LineSuccessors(code, i)}
         /\ \A j \in LineSuccessors(code, i) : j \in Lines(code) /\ IsFirst(j)
<1> DEFINE l == code.lines[i]
           label == Position(code, l.dest)
<1>1. label \in Lines(code) /\ IsFirst(label)
  BY JumpFacts, FirstLines
<1>2. CASE l.op = "JUMP"
  <2>1. LineSuccessors(code, i) = {label} /\ JumpTargets(l) = {code.lines[label].bb}
    BY <1>2 DEF LineSuccessors, JumpTargets
  <2> HIDE DEF label
  <2> QED
    BY <1>1, <2>1
<1>3. CASE l.op = "JUMPFALSE"
  <2>1. /\ LineSuccessors(code, i) = {i + 1, label}
        /\ JumpTargets(l) = {l.bb + 1, code.lines[label].bb}
    BY <1>3 DEF LineSuccessors, JumpTargets
  <2>2. /\ i + 1 \in Lines(code) /\ code.lines[i + 1].bb = l.bb + 1
        /\ IsFirst(i + 1)
    BY <1>3, ConditionalFacts, FirstLines DEF EndsBlock
  <2> HIDE DEF label
  <2> QED
    BY <1>1, <2>1, <2>2
<1> QED
  BY <1>2, <1>3 DEF IsJump

(* Control goes along every edge: no return, jump or end of a function     *)
(* falls into the block behind it, and no edge is left from a line that    *)
(* does not lead to its target.                                            *)
THEOREM SoundEdges == Spec => []EdgesSound
<1>1. Inv => EdgesSound
  <2> SUFFICES ASSUME Inv, stage = "built", NEW b \in DOMAIN succ, NEW t \in succ[b]
               PROVE  \E i \in LinesOf(code, b) : \E j \in LineSuccessors(code, i) :
                        code.lines[j].bb = t /\ (j # i + 1 \/ IsFirst(j))
    BY DEF EdgesSound
  <2>1. code \in Programs /\ Lines(code) = 1 .. Len(code.lines)
    BY BuiltFacts, CodeFacts
  <2>2. PICK i \in Lines(code) : Falls(i, b, t) \/ Jumps(i, b, t)
    BY BuiltFacts
  <2>3. CASE Falls(i, b, t)
    <3> DEFINE before == i - 1
    <3>1. /\ before \in Lines(code) /\ before + 1 = i /\ i \in Nat
          /\ code.lines[before].bb = b /\ code.lines[i].bb = t /\ b # t
          /\ code.lines[i].op # "ENTRY"
          /\ ~IsJump(code.lines[before]) /\ code.lines[before].op # "RET"
      BY <2>1, <2>3, CodeFacts DEF Falls
    <3>2. IsFirst(i)
      BY <3>1 DEF IsFirst
    <3> HIDE DEF before
    <3>3. i \in LineSuccessors(code, before)
      BY <3>1 DEF LineSuccessors, IsJump
    <3>4. before \in LinesOf(code, b)
      BY <3>1 DEF LinesOf
    <3> QED
      BY <3>1, <3>2, <3>3, <3>4
  <2>4. CASE Jumps(i, b, t)
    <3>1. i \in LinesOf(code, b) /\ t \in JumpTargets(code.lines[i])
      BY <2>4 DEF Jumps, LinesOf
    <3>2. IsJump(code.lines[i])
      BY <3>1 DEF JumpTargets, IsJump
    <3>3. /\ t \in {code.lines[j].bb : j \in LineSuccessors(code, i)}
          /\ \A j \in LineSuccessors(code, i) : IsFirst(j)
      BY <2>1, <3>1, <3>2, JumpsLead
    <3> QED
      BY <3>1, <3>3
  <2> QED
    BY <2>2, <2>3, <2>4
<1> QED
  BY InvariantHolds, <1>1, PTL

(* Every step of the program is a step within a block or has its edge,     *)
(* from the end of a block to the first line of one: live variable         *)
(* analysis misses no way that control can go.                             *)
THEOREM CompleteEdges == Spec => []EdgesComplete
<1>1. Inv => EdgesComplete
  <2> SUFFICES ASSUME Inv, stage = "built", NEW i \in Lines(code),
                      NEW j \in LineSuccessors(code, i)
               PROVE  \/ j = i + 1 /\ code.lines[j].bb = code.lines[i].bb /\ ~IsFirst(j)
                      \/ i = Len(code.lines) /\ IsFirst(j)
                           /\ code.lines[j].bb \in succ[code.lines[i].bb]
                      \/ i # Len(code.lines) /\ IsFirst(i + 1) /\ IsFirst(j)
                           /\ code.lines[j].bb \in succ[code.lines[i].bb]
    BY DEF EdgesComplete
  <2> DEFINE l == code.lines[i]
  <2>1. /\ code \in Programs /\ Lines(code) = 1 .. Len(code.lines)
        /\ Len(code.lines) \in Nat /\ i \in Nat \ {0}
    BY BuiltFacts, CodeFacts
  <2>2. i # Len(code.lines) => i + 1 \in Lines(code)
    BY <2>1
  <2>3. ASSUME IsJump(l)
        PROVE  /\ IsFirst(j) /\ code.lines[j].bb \in succ[l.bb]
               /\ i # Len(code.lines) => IsFirst(i + 1)
    <3>1. /\ code.lines[j].bb \in JumpTargets(l) /\ j \in Lines(code) /\ IsFirst(j)
      BY <2>1, <2>3, JumpsLead
    <3>2. EndsBlock(l)
      BY <2>3 DEF IsJump, EndsBlock
    <3>3. Jumps(i, l.bb, code.lines[j].bb)
      BY <3>1 DEF Jumps
    <3>4. l.bb \in DOMAIN succ /\ code.lines[j].bb \in DOMAIN succ
      BY <3>1, BuiltFacts
    <3> QED
      BY <2>1, <2>2, <3>1, <3>2, <3>3, <3>4, BuiltFacts, FirstLines
  <2>4. ASSUME ~IsJump(l)
        PROVE  j = i + 1 /\ j \in Lines(code) /\ l.op # "RET" /\ code.lines[j].op # "ENTRY"
    BY <2>4 DEF LineSuccessors, IsJump
  <2>5. CASE ~IsJump(l) /\ code.lines[j].bb = l.bb
    BY <2>1, <2>4, <2>5 DEF IsFirst
  <2>6. CASE ~IsJump(l) /\ code.lines[j].bb # l.bb
    <3>1. j > 1 /\ j - 1 = i /\ i # Len(code.lines)
      BY <2>1, <2>4, <2>6
    <3>2. Falls(j, l.bb, code.lines[j].bb)
      BY <2>4, <2>6, <3>1 DEF Falls
    <3>3. l.bb \in DOMAIN succ /\ code.lines[j].bb \in DOMAIN succ
      BY <2>4, <2>6, BuiltFacts
    <3>4. code.lines[j].bb \in succ[l.bb]
      BY <2>4, <2>6, <3>2, <3>3, BuiltFacts
    <3>5. IsFirst(j)
      BY <2>6, <3>1 DEF IsFirst
    <3> QED
      BY <2>4, <2>6, <3>1, <3>4, <3>5
  <2> QED
    BY <2>3, <2>5, <2>6
<1> QED
  BY InvariantHolds, <1>1, PTL

(* The upward exposed variables of a block of plain lines are those that   *)
(* one of them reads before any of them writes it.                         *)
THEOREM ExposedCorrect == Spec => []ExposedExact
<1>1. Inv => ExposedExact
  <2> SUFFICES ASSUME Inv, stage = "built", NEW b \in DOMAIN succ,
                      \A i \in LinesOf(code, b) : PlainLine(code.lines[i])
               PROVE  blockIndex[b + 1].ueVar =
                        {v \in Vars : \E i \in LinesOf(code, b) :
                           /\ v \in Reads(code.lines[i])
                           /\ \A j \in LinesOf(code, b) :
                                j < i => v \notin Writes(code.lines[j])}
    BY DEF ExposedExact
  <2>1. pushed = Len(code.lines) /\ b \in 0 .. Len(blockIndex) - 1
    BY BuiltFacts DEF pushed
  <2>2. Members(b, pushed) = LinesOf(code, b)
    BY <2>1, BuiltFacts, CodeFacts DEF Members, LinesOf
  <2>3. blockIndex[b + 1].ueVar = ExposedIn(b, pushed)
    BY <2>1, <2>2 DEF Inv, SetsCollected, PlainIn
  <2> QED
    BY <2>2, <2>3 DEF ExposedIn
<1> QED
  BY InvariantHolds, <1>1, PTL

-----------------------------------------------------------------------------
(* Dominators.  Induction over natural numbers, without the number: a set  *)
(* of them has a least element.                                            *)
Descending == {p \in Nat \X Nat : p[1] < p[2]}

LEMMA Least ==
  ASSUME NEW T \in SUBSET Nat, T # {}
  PROVE  \E x \in T : \A y \in T : x <= y
<1>1. Descending = OpToRel(<, Nat)
  BY Zenon DEF Descending, OpToRel
<1>2. IsWellFoundedOn(Descending, Nat)
  BY <1>1, NatLessThanWellFounded, Zenon
<1>3. PICK x \in T : \A y \in T : ~(<<y, x>> \in Descending)
  BY <1>2, WFMin, Zenon
<1>4. ASSUME NEW y \in T PROVE x <= y
  <2>1. ~(y < x)
    BY <1>3 DEF Descending
  <2> QED
    BY <2>1
<1> QED
  BY <1>4

(* n rounds of step, from start.                                           *)
Rounds(f, step, start, n) ==
  f = [m \in 0 .. n |-> IF m = 0 THEN start ELSE step[f[m - 1]]]

LEMMA RoundsExist ==
  ASSUME NEW X, NEW step \in [X -> X], NEW start \in X, NEW n \in Nat
  PROVE  \E f \in [0 .. n -> X] : Rounds(f, step, start, n)
<1> DEFINE Good(k) == \E f \in [0 .. k -> X] : Rounds(f, step, start, k)
           T == {k \in Nat : ~Good(k)}
<1>1. Good(0)
  <2> DEFINE f == [m \in 0 .. 0 |-> start]
  <2>1. \A m \in 0 .. 0 : m = 0
    OBVIOUS
  <2>2. f \in [0 .. 0 -> X]
    OBVIOUS
  <2>3. f = [m \in 0 .. 0 |-> IF m = 0 THEN start ELSE step[f[m - 1]]]
    BY <2>1
  <2> QED
    BY <2>2, <2>3 DEF Rounds
<1>2. ASSUME NEW k \in Nat, k # 0, Good(k - 1) PROVE Good(k)
  <2>1. PICK g \in [0 .. k - 1 -> X] : Rounds(g, step, start, k - 1)
    BY <1>2
  <2> DEFINE f == [m \in 0 .. k |-> IF m = k THEN step[g[k - 1]] ELSE g[m]]
  <2>2. k - 1 \in 0 .. k - 1 /\ \A m \in 0 .. k : m # k => m \in 0 .. k - 1
    BY <1>2
  <2>3. f \in [0 .. k -> X]
    BY <2>2
  <2>4. ASSUME NEW m \in 0 .. k
        PROVE  f[m] = IF m = 0 THEN start ELSE step[f[m - 1]]
    <3>1. CASE m = 0
      BY <1>2, <2>1, <2>2, <3>1 DEF Rounds
    <3>2. CASE m # 0
      <4>1. m - 1 \in 0 .. k /\ m - 1 # k /\ m - 1 \in 0 .. k - 1
        BY <1>2, <3>2
      <4>2. f[m - 1] = g[m - 1]
        BY <4>1
      <4>3. CASE m = k
        BY <3>2, <4>2, <4>3
      <4>4. CASE m # k
        <5>1. m \in 0 .. k - 1 /\ f[m] = g[m]
          BY <2>2, <4>4
        <5> QED
          BY <2>1, <3>2, <4>2, <5>1 DEF Rounds
      <4> QED
        BY <4>3, <4>4
    <3> QED
      BY <3>1, <3>2
  <2>5. f = [m \in 0 .. k |-> IF m = 0 THEN start ELSE step[f[m - 1]]]
    BY <2>4
  <2> HIDE DEF f
  <2> QED
    BY <2>3, <2>5 DEF Rounds
<1>3. T = {}
  <2> SUFFICES ASSUME T # {} PROVE FALSE
    OBVIOUS
  <2>1. PICK k \in T : \A y \in T : k <= y
    <3>1. T \in SUBSET Nat
      OBVIOUS
    <3> HIDE DEF T
    <3> QED
      BY <3>1, Least
  <2>2. k \in Nat /\ ~Good(k) /\ k # 0
    <3> HIDE DEF Good
    <3> QED
      BY <1>1, <2>1
  <2>3. k - 1 \in Nat /\ ~(k <= k - 1)
    BY <2>2
  <2>4. Good(k - 1)
    <3> HIDE DEF Good
    <3> QED
      BY <2>1, <2>3
  <2> HIDE DEF Good
  <2> QED
    BY <1>2, <2>2, <2>4
<1>4. Good(n)
  <2> HIDE DEF Good
  <2> QED
    BY <1>3
<1> QED
  BY <1>4

(* Sets within U that grow cannot do so more often than U has elements     *)
(* and still leave one out.                                                *)
LEMMA RoundsSettle ==
  ASSUME NEW U, NEW n \in Nat, IsFiniteSet(U), Cardinality(U) = n,
         NEW f \in [0 .. n -> SUBSET U], \A m \in 1 .. n : f[m - 1] \subseteq f[m]
  PROVE  f[n] = U \/ \E m \in 1 .. n : f[m - 1] = f[m]
<1> SUFFICES ASSUME \A m \in 1 .. n : f[m - 1] # f[m] PROVE f[n] = U
  OBVIOUS
<1>2. ASSUME NEW m \in 0 .. n
      PROVE  f[m] \in SUBSET U /\ IsFiniteSet(f[m]) /\ Cardinality(f[m]) \in Nat
  <2>1. f[m] \in SUBSET U
    OBVIOUS
  <2> QED
    BY <2>1, FS_Subset, FS_CardinalityType
<1> DEFINE T == {m \in 0 .. n : Cardinality(f[m]) < m}
<1>3. T = {}
  <2> SUFFICES ASSUME T # {} PROVE FALSE
    OBVIOUS
  <2>1. T \in SUBSET Nat
    OBVIOUS
  <2>2. PICK m \in T : \A k \in T : m <= k
    <3> HIDE DEF T
    <3> QED
      BY <2>1, Least
  <2>3. m \in 0 .. n /\ Cardinality(f[m]) < m
    BY <2>2
  <2>4. m \in 1 .. n /\ m - 1 \in 0 .. n /\ ~(m <= m - 1)
    BY <1>2, <2>3
  <2>5. ~(Cardinality(f[m - 1]) < m - 1)
    BY <2>2, <2>4
  <2>6. f[m - 1] \in SUBSET f[m] /\ f[m - 1] # f[m]
    BY <2>4
  <2>7. /\ Cardinality(f[m - 1]) <= Cardinality(f[m])
        /\ Cardinality(f[m]) # Cardinality(f[m - 1])
    BY <1>2, <2>3, <2>6, FS_Subset
  <2>8. Cardinality(f[m]) \in Nat /\ Cardinality(f[m - 1]) \in Nat
    BY <1>2, <2>3, <2>4
  <2> QED
    BY <2>3, <2>4, <2>5, <2>7, <2>8
<1>4. n \in 0 .. n
  OBVIOUS
<1>5. ~(Cardinality(f[n]) < n)
  BY <1>3, <1>4
<1>6. /\ f[n] \in SUBSET U /\ Cardinality(f[n]) \in Nat
      /\ Cardinality(f[n]) <= Cardinality(U)
  BY <1>2, <1>4, FS_Subset
<1>7. Cardinality(U) = Cardinality(f[n])
  BY <1>5, <1>6
<1> QED
  BY <1>6, <1>7, FS_Subset

-----------------------------------------------------------------------------
(* The blocks that can be reached without entering d: the least set that   *)
(* has block 0 and is closed under successors, but for d.                  *)

IsGraph(g) ==
  /\ g.size \in Nat \ {0}
  /\ g.succ \in [0 .. g.size - 1 -> SUBSET (0 .. g.size - 1)]

Forward(g, d, X) == X \cup ((UNION {g.succ[b] : b \in X}) \ {d})

Closed(g, d, X) == \A b \in X : g.succ[b] \ {d} \subseteq X

LEMMA ForwardHas ==
  ASSUME NEW g, NEW d, NEW X
  PROVE  \A t : t \in Forward(g, d, X) <=>
                  t \in X \/ (t # d /\ \E b \in X : t \in g.succ[b])
BY DEF Forward

LEMMA ForwardWithin ==
  ASSUME NEW g, NEW d, NEW X, Closed(g, d, X), NEW Y, Y \subseteq X
  PROVE  Forward(g, d, Y) \subseteq X
BY ForwardHas DEF Closed

LEMMA ReachedByRounds ==
  ASSUME NEW g, IsGraph(g), NEW d
  PROVE  \E f \in [0 .. g.size -> SUBSET (0 .. g.size - 1)] :
           /\ f[0] = {0} \ {d}
           /\ \A m \in 1 .. g.size : f[m] = Forward(g, d, f[m - 1])
           /\ D!ReachedWithout(g, d) = f[g.size]
<1> DEFINE n == g.size
           U == 0 .. n - 1
           step == [X \in SUBSET U |-> Forward(g, d, X)]
           F(h) == [m \in 0 .. n |->
                      IF m = 0 THEN {0} \ {d}
                      ELSE LET before == h[m - 1]
                           IN before \cup ((UNION {g.succ[b] : b \in before}) \ {d})]
           f == CHOOSE h : h = F(h)
<1>1. D!ReachedWithout(g, d) = f[n]
  BY DEF D!ReachedWithout
<1>2. \A h : h = F(h) <=>
        h = [m \in 0 .. n |-> IF m = 0 THEN {0} \ {d} ELSE Forward(g, d, h[m - 1])]
  BY DEF Forward
<1>3. n \in Nat \ {0} /\ {0} \ {d} \in SUBSET U
  BY DEF IsGraph
<1>4. step \in [SUBSET U -> SUBSET U]
  <2>1. \A X \in SUBSET U : Forward(g, d, X) \in SUBSET U
    BY DEF Forward, IsGraph
  <2> QED
    BY <2>1
<1> HIDE DEF f, F, n, U
<1>5. PICK h \in [0 .. n -> SUBSET U] : Rounds(h, step, {0} \ {d}, n)
  <2> HIDE DEF step
  <2> QED
    BY <1>3, <1>4, RoundsExist
<1>6. ASSUME NEW m \in 0 .. n, m # 0 PROVE step[h[m - 1]] = Forward(g, d, h[m - 1])
  <2>1. m - 1 \in 0 .. n
    BY <1>3, <1>6
  <2> QED
    BY <2>1
<1> HIDE DEF step
<1>7. h = [m \in 0 .. n |-> IF m = 0 THEN {0} \ {d} ELSE Forward(g, d, h[m - 1])]
  BY <1>5, <1>6 DEF Rounds
<1>8. h = F(h)
  BY <1>2, <1>7
<1>9. f = F(f)
  BY <1>8 DEF f
<1>10. f = [m \in 0 .. n |-> IF m = 0 THEN {0} \ {d} ELSE Forward(g, d, f[m - 1])]
  BY <1>2, <1>9
<1>11. f = h
  \* both are determined from 0 upwards
  <2> DEFINE T == {m \in 0 .. n : f[m] # h[m]}
  <2>1. T = {}
    <3> SUFFICES ASSUME T # {} PROVE FALSE
      OBVIOUS
    <3>1. T \in SUBSET Nat
      BY <1>3
    <3>2. PICK m \in T : \A y \in T : m <= y
      <4> HIDE DEF T
      <4> QED
        BY <3>1, Least
    <3>3. m \in 0 .. n /\ f[m] # h[m]
      BY <3>2
    <3>4. m # 0
      BY <1>3, <1>7, <1>10, <3>3
    <3>5. m - 1 \in 0 .. n /\ ~(m <= m - 1)
      BY <1>3, <3>3, <3>4
    <3>6. f[m - 1] = h[m - 1]
      BY <3>2, <3>5
    <3> QED
      BY <1>7, <1>10, <3>3, <3>4, <3>6
  <2>2. \A m \in 0 .. n : f[m] = h[m]
    BY <2>1
  <2>3. DOMAIN f = 0 .. n /\ f = [m \in 0 .. n |-> f[m]]
    BY <1>10
  <2> QED
    BY <1>5, <2>2, <2>3
<1>12. f[0] = {0} \ {d} /\ \A m \in 1 .. n : f[m] = Forward(g, d, f[m - 1])
  <2>1. 0 \in 0 .. n /\ \A m \in 1 .. n : m \in 0 .. n /\ m # 0
    BY <1>3
  <2> QED
    BY <1>10, <2>1
<1> QED
  BY <1>1, <1>5, <1>11, <1>12 DEF n, U


LEMMA ReachedIsClosed ==
  ASSUME NEW g, IsGraph(g), NEW d
  PROVE  LET W == D!ReachedWithout(g, d)
         IN /\ W \subseteq 0 .. g.size - 1 /\ d \notin W
            /\ d # 0 => 0 \in W
            /\ Closed(g, d, W)
<1> DEFINE n == g.size
           U == 0 .. n - 1
           W == D!ReachedWithout(g, d)
<1>1. n \in Nat \ {0}
  BY DEF IsGraph
<1>2. PICK f \in [0 .. n -> SUBSET U] :
        /\ f[0] = {0} \ {d}
        /\ \A m \in 1 .. n : f[m] = Forward(g, d, f[m - 1])
        /\ W = f[n]
  BY ReachedByRounds
<1>3. \A b \in U : g.succ[b] \subseteq U
  BY DEF IsGraph
<1> HIDE DEF n, W
<1>4. \A m \in 1 .. n : f[m - 1] \subseteq f[m]
  BY <1>2 DEF Forward
<1>5. IsFiniteSet(U) /\ Cardinality(U) = n
  <2>1. 0 \in Int /\ n - 1 \in Int /\ ~(0 > n - 1) /\ n - 1 - 0 + 1 = n
    BY <1>1
  <2> QED
    BY <2>1, FS_Interval
<1>6. f[n] = U \/ \E m \in 1 .. n : f[m - 1] = f[m]
  <2> HIDE DEF U
  <2> QED
    BY <1>1, <1>2, <1>4, <1>5, RoundsSettle
<1> DEFINE Out(m) == d \in f[m] \/ (d # 0 /\ 0 \notin f[m])
<1>7. \A m \in 0 .. n : ~Out(m)
  <2> DEFINE T == {m \in 0 .. n : Out(m)}
  <2> SUFFICES ASSUME T # {} PROVE FALSE
    OBVIOUS
  <2>1. T \in SUBSET Nat
    BY <1>1
  <2>2. PICK m \in T : \A y \in T : m <= y
    <3> HIDE DEF T
    <3> QED
      BY <2>1, Least
  <2>3. m \in 0 .. n /\ Out(m)
    BY <2>2
  <2>4. m # 0
    BY <1>2, <2>3
  <2>5. m \in 1 .. n /\ m - 1 \in 0 .. n /\ ~(m <= m - 1)
    BY <1>1, <2>3, <2>4
  <2>6. ~Out(m - 1)
    <3> HIDE DEF Out
    <3> QED
      BY <2>2, <2>5
  <2>7. f[m] = Forward(g, d, f[m - 1])
    BY <1>2, <2>5
  <2> QED
    BY <2>3, <2>6, <2>7, ForwardHas
<1>8. n \in 0 .. n
  BY <1>1
<1>9. W \subseteq U /\ d \notin W /\ (d # 0 => 0 \in W)
  BY <1>2, <1>7, <1>8
<1>10. ASSUME NEW m \in 1 .. n, f[m - 1] = f[m] PROVE f[n] = f[m]
  <2> DEFINE T == {k \in 0 .. n : k >= m /\ f[k] # f[m]}
  <2>1. T = {}
    <3> SUFFICES ASSUME T # {} PROVE FALSE
      OBVIOUS
    <3>1. T \in SUBSET Nat
      BY <1>1
    <3>2. PICK k \in T : \A y \in T : k <= y
      <4> HIDE DEF T
      <4> QED
        BY <3>1, Least
    <3>3. k \in 0 .. n /\ k >= m /\ f[k] # f[m]
      BY <3>2
    <3>4. k # m /\ k \in 1 .. n /\ k - 1 \in 0 .. n /\ k - 1 >= m /\ ~(k <= k - 1)
      BY <1>1, <3>3
    <3>5. f[k - 1] = f[m]
      BY <3>2, <3>4
    <3>6. f[k] = Forward(g, d, f[k - 1]) /\ f[m] = Forward(g, d, f[m - 1])
      BY <1>2, <3>4
    <3> QED
      BY <1>10, <3>3, <3>5, <3>6
  <2>2. n >= m
    BY <1>1
  <2> QED
    BY <1>8, <2>1, <2>2
<1>11. Closed(g, d, W)
  <2>1. CASE f[n] = U
    <3>1. d \notin U
      BY <1>2, <1>9, <2>1
    <3> QED
      BY <1>2, <1>3, <2>1, <3>1 DEF Closed
  <2>2. CASE \E m \in 1 .. n : f[m - 1] = f[m]
    <3>1. PICK m \in 1 .. n : f[m - 1] = f[m]
      BY <2>2
    <3>2. f[n] = f[m - 1] /\ f[n] = f[m]
      BY <1>10, <3>1
    <3>3. W = Forward(g, d, W)
      BY <1>2, <3>1, <3>2
    <3> QED
      BY <3>3, ForwardHas DEF Closed
  <2> QED
    BY <1>6, <2>1, <2>2
<1> QED
  BY <1>9, <1>11 DEF W, n

LEMMA ReachedIsLeast ==
  ASSUME NEW g, IsGraph(g), NEW d, NEW X, {0} \ {d} \subseteq X, Closed(g, d, X)
  PROVE  D!ReachedWithout(g, d) \subseteq X
<1> DEFINE n == g.size
           U == 0 .. n - 1
           W == D!ReachedWithout(g, d)
<1>1. n \in Nat \ {0}
  BY DEF IsGraph
<1>2. PICK f \in [0 .. n -> SUBSET U] :
        /\ f[0] = {0} \ {d}
        /\ \A m \in 1 .. n : f[m] = Forward(g, d, f[m - 1])
        /\ W = f[n]
  BY ReachedByRounds
<1> HIDE DEF n, W
<1> DEFINE T == {m \in 0 .. n : ~(f[m] \subseteq X)}
<1>3. T = {}
  <2> SUFFICES ASSUME T # {} PROVE FALSE
    OBVIOUS
  <2>1. T \in SUBSET Nat
    BY <1>1
  <2>2. PICK m \in T : \A y \in T : m <= y
    <3> HIDE DEF T
    <3> QED
      BY <2>1, Least
  <2>3. m \in 0 .. n /\ ~(f[m] \subseteq X)
    BY <2>2
  <2>4. m # 0
    BY <1>2, <2>3
  <2>5. m \in 1 .. n /\ m - 1 \in 0 .. n /\ ~(m <= m - 1)
    BY <1>1, <2>3, <2>4
  <2>6. f[m - 1] \subseteq X
    BY <2>2, <2>5
  <2>7. f[m] = Forward(g, d, f[m - 1])
    BY <1>2, <2>5
  <2>8. Forward(g, d, f[m - 1]) \subseteq X
    BY <2>6, ForwardWithin
  <2> QED
    BY <2>3, <2>7, <2>8
<1>4. n \in 0 .. n
  BY <1>1
<1> QED
  BY <1>2, <1>3, <1>4 DEF W

-----------------------------------------------------------------------------
(* What dominators are to each other.                                      *)

Dominates(g, d, v) == d \in D!DominatorsOf(g, v)

LEMMA DominatesIs ==
  ASSUME NEW g, IsGraph(g), NEW d, NEW v
  PROVE  /\ Dominates(g, d, v) <=>
              d \in 0 .. g.size - 1 /\ v \notin D!ReachedWithout(g, d)
         /\ D!DominatorsOf(g, v) = {c \in 0 .. g.size - 1 : Dominates(g, c, v)}
BY DEF Dominates, D!DominatorsOf, D!Vertices

LEMMA ReachableIs ==
  ASSUME NEW g, IsGraph(g)
  PROVE  LET R == D!Reachable(g)
         IN /\ R \subseteq 0 .. g.size - 1 /\ 0 \in R
            /\ \A b \in R : g.succ[b] \subseteq R
            /\ \A d : D!ReachedWithout(g, d) \subseteq R
            /\ g.size \in Nat \ {0}
<1> DEFINE R == D!Reachable(g)
<1>1. R = D!ReachedWithout(g, g.size) /\ g.size # 0
  BY DEF D!Reachable, IsGraph
<1>2. R \subseteq 0 .. g.size - 1 /\ 0 \in R /\ Closed(g, g.size, R)
  BY <1>1, ReachedIsClosed
<1>3. \A b \in R : g.succ[b] \subseteq R
  <2>1. \A b \in 0 .. g.size - 1 : g.size \notin g.succ[b]
    BY DEF IsGraph
  <2> QED
    BY <1>2, <2>1 DEF Closed
<1> HIDE DEF R
<1>4. ASSUME NEW d PROVE D!ReachedWithout(g, d) \subseteq R
  <2>1. Closed(g, d, R) /\ {0} \ {d} \subseteq R
    BY <1>2, <1>3 DEF Closed
  <2> QED
    BY <2>1, ReachedIsLeast
<1> QED
  BY <1>2, <1>3, <1>4 DEF R, IsGraph

(* What dominates a block that can be reached can be reached itself, and   *)
(* dominates the blocks before it.                                         *)
LEMMA DominatorsReachable ==
  ASSUME NEW g, IsGraph(g), NEW v \in D!Reachable(g), NEW d, Dominates(g, d, v)
  PROVE  /\ d \in D!Reachable(g)
         /\ v = 0 => d = 0
         /\ \A u \in D!Reachable(g) :
              v # d /\ v \in g.succ[u] => Dominates(g, d, u)
<1> DEFINE R == D!Reachable(g)
           W == D!ReachedWithout(g, d)
<1>1. R \subseteq 0 .. g.size - 1 /\ 0 \in R /\ \A b \in R : g.succ[b] \subseteq R
  BY ReachableIs
<1>2. v \notin W /\ d \in 0 .. g.size - 1
  BY DominatesIs
<1>3. Closed(g, d, W) /\ (d # 0 => 0 \in W)
  BY ReachedIsClosed
<1> HIDE DEF R, W
<1>4. d \in R
  <2> SUFFICES ASSUME d \notin R PROVE FALSE
    OBVIOUS
  <2> DEFINE X == R \cap W
  <2>1. {0} \ {g.size} \subseteq X
    BY <1>1, <1>3
  <2>2. Closed(g, g.size, X)
    BY <1>1, <1>3 DEF Closed
  <2> HIDE DEF X
  <2>3. R \subseteq X
    BY <2>1, <2>2, ReachedIsLeast DEF R, D!Reachable
  <2> QED
    BY <1>2, <2>3 DEF X, R
<1>5. v = 0 => d = 0
  BY <1>2, <1>3
<1>6. ASSUME NEW u \in R, v # d, v \in g.succ[u] PROVE Dominates(g, d, u)
  <2>1. u \notin W
    BY <1>2, <1>3, <1>6 DEF Closed
  <2> QED
    BY <1>2, <2>1, DominatesIs DEF W
<1> QED
  BY <1>4, <1>5, <1>6 DEF R

LEMMA DominatesItself ==
  ASSUME NEW g, IsGraph(g), NEW v \in D!Reachable(g)
  PROVE  Dominates(g, v, v) /\ Dominates(g, 0, v)
<1>1. v \in 0 .. g.size - 1 /\ 0 \in 0 .. g.size - 1
  BY ReachableIs
<1>2. v \notin D!ReachedWithout(g, v)
  BY ReachedIsClosed
<1>3. v \notin D!ReachedWithout(g, 0)
  <2>1. Closed(g, 0, {})
    BY DEF Closed
  <2> QED
    BY <2>1, ReachedIsLeast
<1> QED
  BY <1>1, <1>2, <1>3, DominatesIs

LEMMA DominatesOnwards ==
  ASSUME NEW g, IsGraph(g), NEW c, NEW d, NEW v,
         Dominates(g, c, d), Dominates(g, d, v)
  PROVE  Dominates(g, c, v)
<1> DEFINE C == D!ReachedWithout(g, c)
           E == D!ReachedWithout(g, d)
           X == C \cap E
<1>1. d \notin C /\ v \notin E /\ c \in 0 .. g.size - 1
  BY DominatesIs
<1>2. Closed(g, c, C) /\ (c # 0 => 0 \in C) /\ Closed(g, d, E) /\ (d # 0 => 0 \in E)
  BY ReachedIsClosed
<1> HIDE DEF C, E
<1>3. {0} \ {c} \subseteq X /\ Closed(g, c, X)
  BY <1>1, <1>2 DEF Closed
<1> HIDE DEF X
<1>4. C \subseteq X
  BY <1>3, ReachedIsLeast DEF C
<1>5. v \notin C
  BY <1>1, <1>4 DEF X
<1> QED
  BY <1>1, <1>5, DominatesIs DEF C

(* The dominators of a block are in a row.                                 *)
LEMMA DominatorsInARow ==
  ASSUME NEW g, IsGraph(g), NEW v \in D!Reachable(g), NEW c, NEW d,
         Dominates(g, c, v), Dominates(g, d, v)
  PROVE  Dominates(g, c, d) \/ Dominates(g, d, c)
<1> SUFFICES ASSUME ~Dominates(g, c, d), ~Dominates(g, d, c) PROVE FALSE
  OBVIOUS
<1> DEFINE C == D!ReachedWithout(g, c)
           E == D!ReachedWithout(g, d)
           X == C \cup E
<1>1. v \notin C /\ v \notin E /\ d \in C /\ c \in E
  BY DominatesIs
<1>2. Closed(g, c, C) /\ (c # 0 => 0 \in C) /\ Closed(g, d, E) /\ (d # 0 => 0 \in E)
  BY ReachedIsClosed
<1>3. c \notin C
  BY ReachedIsClosed
<1> HIDE DEF C, E
<1>4. {0} \ {g.size} \subseteq X /\ Closed(g, g.size, X)
  BY <1>1, <1>2, <1>3 DEF Closed
<1> HIDE DEF X
<1>5. D!Reachable(g) \subseteq X
  BY <1>4, ReachedIsLeast DEF D!Reachable
<1> QED
  BY <1>1, <1>5 DEF X


-----------------------------------------------------------------------------
(* Blocks that are numbered downwards: immediate dominators have smaller   *)
(* ids, and the walk up the tree ends at the root.                         *)

Downwards(g) ==
  \A v \in D!Reachable(g) \ {0} : \E u \in D!Reachable(g) : u < v /\ v \in g.succ[u]

LEMMA DominatorsSmaller ==
  ASSUME NEW g, IsGraph(g), Downwards(g), NEW v \in D!Reachable(g),
         NEW d, Dominates(g, d, v)
  PROVE  d <= v
<1> DEFINE R == D!Reachable(g)
           T == {w \in R : Dominates(g, d, w) /\ ~(d <= w)}
<1>1. R \subseteq 0 .. g.size - 1 /\ g.size \in Nat \ {0}
  BY ReachableIs
<1>2. d \in 0 .. g.size - 1
  BY DominatesIs
<1>3. T = {}
  <2> SUFFICES ASSUME T # {} PROVE FALSE
    OBVIOUS
  <2>1. T \in SUBSET Nat
    BY <1>1
  <2>2. PICK w \in T : \A y \in T : w <= y
    <3> HIDE DEF T
    <3> QED
      BY <2>1, Least
  <2>3. w \in R /\ Dominates(g, d, w) /\ w # d /\ w \in Nat /\ d \in Nat /\ w < d
    BY <1>1, <1>2, <2>2
  <2>4. w # 0
    BY <2>3, DominatorsReachable
  <2>5. PICK u \in R : u < w /\ w \in g.succ[u]
    BY <2>3, <2>4 DEF Downwards
  <2>6. Dominates(g, d, u)
    BY <2>3, <2>5, DominatorsReachable
  <2>7. u \in Nat /\ ~(d <= u) /\ ~(w <= u)
    BY <1>1, <2>3, <2>5
  <2> QED
    BY <2>2, <2>6, <2>7
<1> QED
  BY <1>3

LEMMA IdomIs ==
  ASSUME NEW g, IsGraph(g), Downwards(g), NEW v \in D!Reachable(g), v # 0
  PROVE  /\ D!getIdom(g, v) \in D!Reachable(g)
         /\ D!getIdom(g, v) < v
         /\ D!DominatorsOf(g, v) = {v} \cup D!DominatorsOf(g, D!getIdom(g, v))
<1> DEFINE R == D!Reachable(g)
           strict == D!DominatorsOf(g, v) \ {v}
           Immediate(d) == d \in strict /\ strict \subseteq D!DominatorsOf(g, d)
           idom == D!getIdom(g, v)
<1>1. R \subseteq 0 .. g.size - 1 /\ g.size \in Nat \ {0} /\ 0 \in R
  BY ReachableIs
<1>2. \A d : d \in strict <=> Dominates(g, d, v) /\ d # v
  BY DEF Dominates
<1>3. \A d \in strict : d \in R /\ d < v /\ d \in Nat
  <2> SUFFICES ASSUME NEW d \in strict PROVE d \in R /\ d < v /\ d \in Nat
    OBVIOUS
  <2>1. Dominates(g, d, v) /\ d # v
    BY <1>2
  <2>2. d \in R /\ d <= v
    BY <2>1, DominatorsReachable, DominatorsSmaller
  <2> QED
    BY <1>1, <2>1, <2>2
<1>4. idom = CHOOSE d \in strict : Immediate(d)
  BY DEF D!getIdom
<1> HIDE DEF strict, idom
<1>5. \E d \in strict : Immediate(d)
  <2> DEFINE T == {v - d : d \in strict}
  <2>1. T \in SUBSET Nat
    BY <1>1, <1>3
  <2>2. T # {}
    <3>1. 0 \in strict
      BY <1>2, DominatesItself
    <3> QED
      BY <3>1
  <2>3. PICK x \in T : \A y \in T : x <= y
    <3> HIDE DEF T
    <3> QED
      BY <2>1, <2>2, Least
  <2>4. PICK d \in strict : x = v - d
    BY <2>3
  <2>5. ASSUME NEW c \in strict PROVE c \in D!DominatorsOf(g, d)
    <3>1. v - d <= v - c
      BY <2>3, <2>4
    <3>2. c <= d /\ c \in Nat /\ d \in Nat
      BY <1>1, <1>3, <3>1
    <3>3. Dominates(g, c, d) \/ Dominates(g, d, c)
      BY <1>2, DominatorsInARow
    <3>4. CASE Dominates(g, d, c)
      <4>1. d <= c
        BY <1>3, <3>4, DominatorsSmaller
      <4>2. c = d
        BY <3>2, <4>1
      <4> QED
        BY <3>4, <4>2 DEF Dominates
    <3> QED
      BY <3>3, <3>4 DEF Dominates
  <2> QED
    BY <2>5
<1>6. idom \in strict /\ strict \subseteq D!DominatorsOf(g, idom)
  <2> HIDE DEF Immediate
  <2>1. idom \in strict /\ Immediate(idom)
    BY <1>4, <1>5
  <2> QED
    BY <2>1 DEF Immediate
<1>7. Dominates(g, idom, v) /\ Dominates(g, v, v)
  BY <1>2, <1>6, DominatesItself
<1>8. D!DominatorsOf(g, idom) \subseteq D!DominatorsOf(g, v)
  <2>1. \A c : Dominates(g, c, idom) => Dominates(g, c, v)
    BY <1>7, DominatesOnwards
  <2> QED
    BY <2>1 DEF Dominates
<1>9. D!DominatorsOf(g, v) = {v} \cup D!DominatorsOf(g, idom)
  BY <1>6, <1>7, <1>8 DEF Dominates, strict
<1> QED
  BY <1>3, <1>6, <1>9 DEF idom

(* The walk from x up a tree whose edges are up.                           *)
Climbs(f, up, n) ==
  f = [x \in 0 .. n - 1 |-> IF x > up[x] THEN {x} \cup f[up[x]] ELSE {x}]

LEMMA ClimbExists ==
  ASSUME NEW n \in Nat, NEW up \in [0 .. n - 1 -> 0 .. n - 1]
  PROVE  \E f : Climbs(f, up, n)
<1> DEFINE Good(k) == \E f : Climbs(f, up, k)
           T == {k \in 0 .. n : ~Good(k)}
<1>1. Good(0)
  <2> DEFINE f == [x \in 0 .. 0 - 1 |-> {x}]
  <2>1. 0 .. 0 - 1 = {}
    OBVIOUS
  <2>2. Climbs(f, up, 0)
    BY <2>1 DEF Climbs
  <2> QED
    BY <2>2
<1>2. ASSUME NEW k \in 1 .. n, Good(k - 1) PROVE Good(k)
  <2>1. PICK g : Climbs(g, up, k - 1)
    BY <1>2
  <2> DEFINE top == k - 1
             f == [x \in 0 .. k - 1 |->
                     IF x # top THEN g[x]
                     ELSE IF top > up[top] THEN {top} \cup g[up[top]] ELSE {top}]
  <2>2. \A x \in 0 .. k - 1 : x # top => x \in 0 .. (k - 1) - 1
    OBVIOUS
  <2>3. \A x \in 0 .. k - 1 : up[x] \in 0 .. n - 1
    OBVIOUS
  <2>4. ASSUME NEW x \in 0 .. k - 1
        PROVE  f[x] = IF x > up[x] THEN {x} \cup f[up[x]] ELSE {x}
    <3>1. up[x] \in 0 .. n - 1
      BY <2>3
    <3>2. CASE ~(x > up[x])
      <4>1. x # top => g[x] = {x}
        BY <2>1, <2>2, <3>2 DEF Climbs
      <4> QED
        BY <3>2, <4>1
    <3>3. CASE x > up[x]
      <4>1. up[x] \in 0 .. k - 1 /\ up[x] # top
        BY <3>1, <3>3
      <4>2. f[up[x]] = g[up[x]]
        BY <4>1
      <4>3. x # top => g[x] = {x} \cup g[up[x]]
        BY <2>1, <2>2, <3>3 DEF Climbs
      <4>4. f[x] = IF x # top THEN g[x] ELSE {x} \cup g[up[x]]
        BY <3>3
      <4> QED
        BY <3>3, <4>2, <4>3, <4>4
    <3> QED
      BY <3>2, <3>3
  <2>5. f = [x \in 0 .. k - 1 |-> IF x > up[x] THEN {x} \cup f[up[x]] ELSE {x}]
    BY <2>4
  <2> HIDE DEF f
  <2> QED
    BY <2>5 DEF Climbs
<1>3. T = {}
  <2> SUFFICES ASSUME T # {} PROVE FALSE
    OBVIOUS
  <2>1. PICK k \in T : \A y \in T : k <= y
    <3>1. T \in SUBSET Nat
      OBVIOUS
    <3> HIDE DEF T
    <3> QED
      BY <3>1, Least
  <2>2. k \in 0 .. n /\ ~Good(k) /\ k # 0
    <3> HIDE DEF Good
    <3> QED
      BY <1>1, <2>1
  <2>3. k \in 1 .. n /\ k - 1 \in 0 .. n /\ ~(k <= k - 1)
    BY <2>2
  <2>4. Good(k - 1)
    <3> HIDE DEF Good
    <3> QED
      BY <2>1, <2>3
  <2> HIDE DEF Good
  <2> QED
    BY <1>2, <2>2, <2>3, <2>4
<1>4. Good(n)
  <2> HIDE DEF Good
  <2> QED
    BY <1>3
<1> QED
  BY <1>4

LEMMA WalkIs ==
  ASSUME NEW g, IsGraph(g), Downwards(g), NEW v \in D!Reachable(g)
  PROVE  D!getDomSet(g, v) = D!DominatorsOf(g, v)
<1> DEFINE n == g.size
           R == D!Reachable(g)
           up == [x \in 0 .. n - 1 |-> D!getIdom(g, x)]
           F(h) == [x \in 0 .. n - 1 |->
                      IF x > D!getIdom(g, x) THEN {x} \cup h[D!getIdom(g, x)] ELSE {x}]
           f == CHOOSE h : h = F(h)
<1>1. D!getDomSet(g, v) = {v} \cup f[D!getIdom(g, v)]
  BY DEF D!getDomSet, D!Vertices
<1>2. R \subseteq 0 .. n - 1 /\ n \in Nat \ {0} /\ 0 \in R
  BY ReachableIs
<1>3. \A x : x = 0 \/ x \notin R => D!getIdom(g, x) = 0
  BY DEF D!getIdom
<1>4. up \in [0 .. n - 1 -> 0 .. n - 1]
  <2> SUFFICES ASSUME NEW x \in 0 .. n - 1 PROVE D!getIdom(g, x) \in 0 .. n - 1
    OBVIOUS
  <2>1. CASE x = 0 \/ x \notin R
    BY <1>2, <1>3, <2>1
  <2>2. CASE x # 0 /\ x \in R
    BY <1>2, <2>2, IdomIs
  <2> QED
    BY <2>1, <2>2
<1>5. \E h : h = F(h)
  <2>1. PICK h : Climbs(h, up, n)
    <3> HIDE DEF up, n
    <3> QED
      BY <1>2, <1>4, ClimbExists
  <2>2. h = [x \in 0 .. n - 1 |-> IF x > up[x] THEN {x} \cup h[up[x]] ELSE {x}]
    BY <2>1 DEF Climbs
  <2>3. h = F(h)
    BY <2>2
  <2> QED
    BY <2>3
<1>6. f = F(f)
  <2> HIDE DEF F
  <2> QED
    BY <1>5
<1> HIDE DEF f, up, n
<1>7. \A x \in 0 .. n - 1 :
        f[x] = IF x > D!getIdom(g, x) THEN {x} \cup f[D!getIdom(g, x)] ELSE {x}
  BY <1>6
<1>8. f[0] = D!DominatorsOf(g, 0) /\ D!DominatorsOf(g, 0) = {0}
  <2>1. \A d : Dominates(g, d, 0) <=> d = 0
    BY <1>2, DominatorsReachable, DominatesItself
  <2>2. D!DominatorsOf(g, 0) = {0}
    BY <2>1, DominatesIs, <1>2 DEF n
  <2>3. D!getIdom(g, 0) = 0 /\ 0 \in 0 .. n - 1 /\ ~(0 > 0)
    BY <1>2, <1>3
  <2>4. f[0] = {0}
    BY <1>7, <2>3
  <2> QED
    BY <2>2, <2>4
<1> DEFINE T == {w \in R : f[w] # D!DominatorsOf(g, w)}
<1>9. T = {}
  <2> SUFFICES ASSUME T # {} PROVE FALSE
    OBVIOUS
  <2>1. T \in SUBSET Nat
    BY <1>2
  <2>2. PICK w \in T : \A y \in T : w <= y
    <3> HIDE DEF T
    <3> QED
      BY <2>1, Least
  <2>3. w \in R /\ f[w] # D!DominatorsOf(g, w) /\ w # 0 /\ w \in Nat
    BY <1>2, <1>8, <2>2
  <2> DEFINE d == D!getIdom(g, w)
  <2>4. d \in R /\ d < w /\ D!DominatorsOf(g, w) = {w} \cup D!DominatorsOf(g, d)
    BY <2>3, IdomIs
  <2>5. d \in Nat /\ ~(w <= d) /\ w > d
    BY <1>2, <2>3, <2>4
  <2>6. f[d] = D!DominatorsOf(g, d)
    BY <2>2, <2>4, <2>5
  <2>7. f[w] = {w} \cup f[d]
    BY <1>2, <1>7, <2>3, <2>5
  <2> QED
    BY <2>3, <2>4, <2>6, <2>7
<1>10. CASE v = 0
  BY <1>1, <1>3, <1>8, <1>10
<1>11. CASE v # 0
  <2>1. /\ D!getIdom(g, v) \in R
        /\ D!DominatorsOf(g, v) = {v} \cup D!DominatorsOf(g, D!getIdom(g, v))
    BY <1>11, IdomIs
  <2>2. f[D!getIdom(g, v)] = D!DominatorsOf(g, D!getIdom(g, v))
    BY <1>9, <2>1
  <2> QED
    BY <1>1, <2>1, <2>2
<1> QED
  BY <1>10, <1>11

(* getDomSet is right: for blocks numbered downwards, in graphs of any     *)
(* size, the walk up the tree collects exactly the blocks that every way   *)
(* from block 0 leads through.                                             *)
THEOREM DominatorsCorrect == Spec => []DominatorsExact
<1>1. DescriptorsMatch => DominatorsExact
  <2> SUFFICES ASSUME DescriptorsMatch, stage = "built", NumberedDownwards,
                      NEW v \in D!Reachable(flowGraph)
               PROVE  D!getDomSet(flowGraph, v) = D!DominatorsOf(flowGraph, v)
    BY DEF DominatorsExact
  <2>1. IsGraph(flowGraph)
    BY DEF DescriptorsMatch, IsFlowGraph, Blocks, IsGraph
  <2>2. Downwards(flowGraph)
    BY DEF NumberedDownwards, Downwards, flowGraph
  <2> QED
    BY <2>1, <2>2, WalkIs
<1> QED
  BY <1>1, DescriptorsCorrect, PTL

=============================================================================
