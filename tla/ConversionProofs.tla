-------------------------- MODULE ConversionProofs --------------------------
(***************************************************************************)
(* Proofs about the conversion, for programs of any size and nesting: the  *)
(* lines are numbered by basic blocks as the flow graph takes them to be,  *)
(* and calls and definitions agree on the labels of functions.  Then: the  *)
(* code has the shape that the analyses rely on, functions return what     *)
(* they declare, and their returns are booked.                             *)
(***************************************************************************)
EXTENDS Conversion, SequenceTheorems, TLAPS

Good(t, outside) == NumberedIn(t.codeLines) /\ CountingIn(t, outside)

-----------------------------------------------------------------------------
(* What addLine and nextBasicBlock make of a well numbered Tac.            *)

LEMMA LineIsTyped ==
  ASSUME NEW op \in Ops, NEW operand \in Vars \cup {NoVar},
         NEW label \in Labels \cup {NoLabel}, NEW block \in Nat
  PROVE  LineFor(op, operand, label, block) \in Line
BY DEF LineFor, Line

LEMMA AddedLine ==
  ASSUME NEW t \in TacState, NEW op \in Ops, NEW operand \in Vars \cup {NoVar},
         NEW label \in Labels \cup {NoLabel}
  PROVE  LET u == addLineWith(t, op, operand, label)
         IN /\ u \in TacState
            /\ u.codeLines = Append(t.codeLines,
                               LineFor(op, operand, label, t.currentBasicBlock))
            /\ u.currentBasicBlock = t.currentBasicBlock
            /\ u.currentBasicBlockUsed
<1> DEFINE l == LineFor(op, operand, label, t.currentBasicBlock)
<1>1. t.codeLines \in Seq(Line) /\ t.currentBasicBlock \in Nat
  BY DEF TacState
<1>2. Append(t.codeLines, l) \in Seq(Line)
  BY <1>1, LineIsTyped
<1> QED
  BY <1>1, <1>2 DEF addLineWith, TacState

LEMMA NumberedAppend ==
  ASSUME NEW lines \in Seq(Line), NEW l \in Line, NumberedIn(lines),
         l.bb = IF lines = <<>> THEN 0
                ELSE IF StartsBlock(l) \/ EndsBlock(lines[Len(lines)])
                THEN lines[Len(lines)].bb + 1 ELSE lines[Len(lines)].bb
  PROVE  NumberedIn(Append(lines, l))
<1> DEFINE n == Len(lines)
           longer == Append(lines, l)
<1>1. /\ n \in Nat /\ Len(longer) = n + 1 /\ longer[n + 1] = l
      /\ \A i \in 1 .. n : longer[i] = lines[i]
      /\ lines = <<>> <=> n = 0
  OBVIOUS
<1>2. ASSUME NEW i \in 1 .. Len(longer)
      PROVE  longer[i].bb =
               IF i = 1 THEN 0
               ELSE IF StartsBlock(longer[i]) \/ EndsBlock(longer[i - 1])
               THEN longer[i - 1].bb + 1 ELSE longer[i - 1].bb
  <2>1. CASE i = n + 1
    <3>1. CASE n = 0
      BY <1>1, <2>1, <3>1
    <3>2. CASE n # 0
      <4>1. longer[i] = l /\ longer[i - 1] = lines[n] /\ i # 1
        BY <1>1, <2>1, <3>2
      <4>2. lines # <<>>
        BY <1>1, <3>2
      <4> QED
        BY <4>1, <4>2
    <3> QED
      BY <3>1, <3>2
  <2>2. CASE i # n + 1
    <3>1. i \in 1 .. n /\ longer[i] = lines[i]
      BY <1>1, <2>2
    <3>2. i # 1 => longer[i - 1] = lines[i - 1]
      BY <1>1, <3>1
    <3> HIDE DEF longer
    <3> QED
      BY <3>1, <3>2 DEF NumberedIn
  <2> QED
    BY <2>1, <2>2
<1> HIDE DEF longer
<1>3. NumberedIn(longer)
  BY <1>2 DEF NumberedIn
<1> QED
  BY <1>3 DEF longer

(* A line that is no label, in the block that is open.                     *)
LEMMA PlainLine ==
  ASSUME NEW t \in TacState, Good(t, FALSE),
         NEW op \in Ops \ {"LABEL", "ENTRY"}, NEW operand \in Vars \cup {NoVar},
         NEW label \in Labels \cup {NoLabel}
  PROVE  LET u == addLineWith(t, op, operand, label)
         IN /\ NumberedIn(u.codeLines)
            /\ CountingIn(u, op \in {"JUMP", "JUMPFALSE", "RET", "CALL"})
<1> DEFINE u == addLineWith(t, op, operand, label)
           l == LineFor(op, operand, label, t.currentBasicBlock)
           n == Len(t.codeLines)
<1>1. /\ t.codeLines \in Seq(Line) /\ n \in Nat
      /\ t.currentBasicBlock \in Nat
  BY DEF TacState
<1>2. /\ u.codeLines = Append(t.codeLines, l)
      /\ u.currentBasicBlock = t.currentBasicBlock
      /\ u.currentBasicBlockUsed
  BY AddedLine
<1>3. l.op = op /\ l.bb = t.currentBasicBlock
  BY DEF LineFor
<1>4. /\ Len(u.codeLines) = n + 1 /\ u.codeLines[n + 1] = l
      /\ \A i \in 1 .. n : u.codeLines[i] = t.codeLines[i]
      /\ u.codeLines # <<>>
  BY <1>1, <1>2
<1>5. CountingIn(u, op \in {"JUMP", "JUMPFALSE", "RET", "CALL"})
  BY <1>2, <1>3, <1>4 DEF CountingIn, EndsBlock
<1>6. ~StartsBlock(l)
  BY <1>3 DEF StartsBlock
<1>7. l \in Line
  BY <1>1, LineIsTyped
<1> HIDE DEF l
<1>8. l.bb = IF t.codeLines = <<>> THEN 0
             ELSE IF StartsBlock(l) \/ EndsBlock(t.codeLines[n])
             THEN t.codeLines[n].bb + 1 ELSE t.codeLines[n].bb
  BY <1>1, <1>3, <1>6 DEF Good, CountingIn
<1>9. NumberedIn(u.codeLines)
  BY <1>1, <1>2, <1>7, <1>8, NumberedAppend DEF Good
<1> QED
  BY <1>5, <1>9

LEMMA NextBlock ==
  ASSUME NEW t \in TacState, Good(t, TRUE)
  PROVE  LET u == nextBasicBlock(t)
         IN /\ u \in TacState
            /\ u.codeLines = t.codeLines
            /\ ~u.currentBasicBlockUsed
            /\ t.codeLines = <<>> => u.currentBasicBlock = 0
            /\ t.codeLines # <<>> =>
                 u.currentBasicBlock = t.codeLines[Len(t.codeLines)].bb + 1
<1> DEFINE u == nextBasicBlock(t)
<1>1. CASE t.currentBasicBlockUsed
  <2>1. /\ t.codeLines # <<>>
        /\ t.currentBasicBlock = t.codeLines[Len(t.codeLines)].bb
    BY <1>1 DEF Good, CountingIn
  <2>2. /\ u \in TacState /\ u.codeLines = t.codeLines
        /\ u.currentBasicBlock = t.currentBasicBlock + 1
        /\ ~u.currentBasicBlockUsed
    <3>1. /\ u = [t EXCEPT !.currentBasicBlock = t.currentBasicBlock + 1,
                          !.currentBasicBlockUsed = FALSE]
          /\ t.currentBasicBlock + 1 \in Nat
      BY <1>1 DEF nextBasicBlock, TacState
    <3> HIDE DEF u
    <3> QED
      BY <3>1 DEF TacState
  <2> QED
    BY <2>1, <2>2
<1>2. CASE ~t.currentBasicBlockUsed
  <2>1. u = t
    BY <1>2 DEF nextBasicBlock
  <2>2. /\ t.codeLines = <<>> => t.currentBasicBlock = 0
        /\ t.codeLines # <<>> =>
             t.currentBasicBlock = t.codeLines[Len(t.codeLines)].bb + 1
    BY <1>2 DEF Good, CountingIn
  <2> QED
    BY <1>2, <2>1, <2>2
<1> QED
  BY <1>1, <1>2

(* A line that ends a block.                                               *)
LEMMA LastLine ==
  ASSUME NEW t \in TacState, Good(t, FALSE),
         NEW op \in {"JUMP", "JUMPFALSE", "RET", "CALL"},
         NEW operand \in Vars \cup {NoVar}, NEW label \in Labels \cup {NoLabel}
  PROVE  LET u == nextBasicBlock(addLineWith(t, op, operand, label))
         IN /\ u \in TacState /\ Good(u, FALSE)
            /\ u.codeLines = Append(t.codeLines,
                               LineFor(op, operand, label, t.currentBasicBlock))
<1> DEFINE s == addLineWith(t, op, operand, label)
           l == LineFor(op, operand, label, t.currentBasicBlock)
<1>1. op \in Ops
  BY DEF Ops
<1>2. /\ s \in TacState /\ s.codeLines = Append(t.codeLines, l)
  BY <1>1, AddedLine
<1>3. Good(s, TRUE)
  <2>1. op \in Ops \ {"LABEL", "ENTRY"}
    BY <1>1
  <2>2. NumberedIn(s.codeLines)
    BY <2>1, PlainLine
  <2>3. CountingIn(s, op \in {"JUMP", "JUMPFALSE", "RET", "CALL"})
    BY <2>1, PlainLine
  <2>4. CountingIn(s, TRUE)
    BY <2>3 DEF CountingIn
  <2> QED
    BY <2>2, <2>4 DEF Good
<1>4. s.codeLines # <<>> /\ s.codeLines[Len(s.codeLines)] = l /\ EndsBlock(l)
  <2>1. t.codeLines \in Seq(Line)
    BY DEF TacState
  <2>2. l.op = op
    BY DEF LineFor
  <2> QED
    BY <1>2, <2>1, <2>2 DEF EndsBlock
<1> HIDE DEF s, l
<1>5. /\ nextBasicBlock(s) \in TacState /\ Good(nextBasicBlock(s), FALSE)
      /\ nextBasicBlock(s).codeLines = s.codeLines
  BY <1>2, <1>3, <1>4, NextBlock DEF Good, CountingIn
<1> QED
  BY <1>2, <1>5 DEF s, l

(* A label.                                                                *)
LEMMA FirstLine ==
  ASSUME NEW t \in TacState, Good(t, TRUE),
         NEW op \in {"LABEL", "ENTRY"}, NEW label \in Labels \cup {NoLabel}
  PROVE  LET u == addFirst(t, op, label)
         IN /\ u \in TacState /\ Good(u, FALSE)
            /\ \E b \in Nat : u.codeLines = Append(t.codeLines,
                                              LineFor(op, NoVar, label, b))
<1> DEFINE s == nextBasicBlock(t)
           u == addFirst(t, op, label)
           l == LineFor(op, NoVar, label, s.currentBasicBlock)
           n == Len(t.codeLines)
<1>1. op \in Ops
  BY DEF Ops
<1>2. /\ s \in TacState /\ s.codeLines = t.codeLines
      /\ t.codeLines = <<>> => s.currentBasicBlock = 0
      /\ t.codeLines # <<>> => s.currentBasicBlock = t.codeLines[n].bb + 1
      /\ s.currentBasicBlock \in Nat
  BY NextBlock DEF TacState
<1>3. u = addLineWith(s, op, NoVar, label)
  BY DEF addFirst, addLine
<1> HIDE DEF s, u
<1>4. /\ u \in TacState /\ u.codeLines = Append(s.codeLines, l)
      /\ u.currentBasicBlock = s.currentBasicBlock
      /\ u.currentBasicBlockUsed
  BY <1>1, <1>2, <1>3, AddedLine
<1>5. t.codeLines \in Seq(Line) /\ n \in Nat
  BY DEF TacState
<1>6. l.op = op /\ l.bb = s.currentBasicBlock
  BY DEF LineFor
<1> HIDE DEF l
<1>7. /\ Len(u.codeLines) = n + 1 /\ u.codeLines[n + 1] = l
      /\ \A i \in 1 .. n : u.codeLines[i] = t.codeLines[i]
      /\ u.codeLines # <<>>
  BY <1>2, <1>4, <1>5
<1>8. CountingIn(u, FALSE)
  BY <1>4, <1>6, <1>7 DEF CountingIn, EndsBlock
<1>9. l.bb = IF t.codeLines = <<>> THEN 0 ELSE t.codeLines[n].bb + 1
  BY <1>2, <1>6
<1>10. StartsBlock(l)
  BY <1>6 DEF StartsBlock
<1>11. l \in Line
  BY <1>1, <1>2, LineIsTyped DEF l
<1>12. NumberedIn(u.codeLines)
  BY <1>2, <1>4, <1>5, <1>9, <1>10, <1>11, NumberedAppend DEF Good
<1> QED
  BY <1>2, <1>4, <1>8, <1>12 DEF Good, u, l

-----------------------------------------------------------------------------
(* The stack of nodes.                                                     *)

StackOK == open \in Seq(Node) /\ Nested

LEMMA HereIsNode ==
  ASSUME StackOK, NEW kinds, Inside(kinds)
  PROVE  /\ open # <<>> /\ Here \in Node /\ Here.kind \in kinds
         /\ Here = open[Len(open)]
BY DEF StackOK, Inside, Here, Last

LEMMA NodeParts ==
  ASSUME NEW node \in Node
  PROVE  /\ node.kind \in {"then", "else", "body"} => node.exit \in Labels
         /\ node.kind \in {"condition", "body"} => node.again \in Labels
BY DEF Node

LEMMA Entered ==
  ASSUME StackOK, NEW node \in Node, node.kind = "function" <=> open = <<>>,
         Enter(node)
  PROVE  StackOK'
<1> DEFINE n == Len(open)
<1>1. /\ open \in Seq(Node) /\ n \in Nat /\ open' = Append(open, node)
      /\ open = <<>> <=> n = 0
  BY DEF StackOK, Enter
<1>2. /\ open' \in Seq(Node) /\ Len(open') = n + 1 /\ open'[n + 1] = node
      /\ \A i \in 1 .. n : open'[i] = open[i]
  BY <1>1
<1>3. \A i \in 1 .. n + 1 : open'[i].kind = "function" <=> i = 1
  BY <1>1, <1>2 DEF StackOK, Nested
<1> QED
  BY <1>2, <1>3 DEF StackOK, Nested

LEMMA FrontOf ==
  ASSUME open \in Seq(Node), open # <<>>
  PROVE  LET front == SubSeq(open, 1, Len(open) - 1)
         IN /\ front \in Seq(Node) /\ Len(front) = Len(open) - 1
            /\ \A i \in 1 .. Len(open) - 1 : front[i] = open[i]
<1> DEFINE n == Len(open) - 1
           front == SubSeq(open, 1, n)
<1>1. /\ 1 \in Int /\ n \in Int /\ n >= 0 /\ n = n - 1 + 1
      /\ \A i \in 1 .. n : open[i] \in Node
  OBVIOUS
<1>2. /\ front \in Seq(Node)
      /\ Len(front) = IF 1 <= n THEN n - 1 + 1 ELSE 0
      /\ \A i \in 1 .. n - 1 + 1 : front[i] = open[1 + i - 1]
  <2> HIDE DEF n
  <2> QED
    BY <1>1, SubSeqProperties
<1>3. \A i \in 1 .. n : 1 + i - 1 = i
  BY <1>1
<1> HIDE DEF front
<1> QED
  BY <1>1, <1>2, <1>3 DEF front

LEMMA Left ==
  ASSUME StackOK, open # <<>>, Leave
  PROVE  /\ StackOK'
         /\ Here.kind = "function" => open' = <<>>
<1> DEFINE n == Len(open)
<1>1. /\ open \in Seq(Node) /\ n \in Nat \ {0} /\ open' = SubSeq(open, 1, n - 1)
      /\ Here = open[n]
  BY DEF StackOK, Leave, Front, Here, Last
<1>2. /\ open' \in Seq(Node) /\ Len(open') = n - 1
      /\ \A i \in 1 .. n - 1 : open'[i] = open[i]
  BY <1>1, FrontOf
<1>3. \A i \in 1 .. n - 1 : open'[i].kind = "function" <=> i = 1
  BY <1>1, <1>2 DEF StackOK, Nested
<1>4. Here.kind = "function" => n = 1
  <2>1. n \in 1 .. Len(open)
    BY <1>1
  <2> QED
    BY <1>1, <2>1 DEF StackOK, Nested
<1>5. n = 1 => open' = <<>>
  BY <1>1, <1>2
<1> QED
  BY <1>2, <1>3, <1>4, <1>5 DEF StackOK, Nested

LEMMA Became ==
  ASSUME StackOK, open # <<>>, Here.kind # "function",
         NEW node \in Node, node.kind # "function", Become(node)
  PROVE  StackOK'
<1> DEFINE n == Len(open)
           front == SubSeq(open, 1, n - 1)
<1>1. /\ open \in Seq(Node) /\ n \in Nat \ {0} /\ open' = Append(front, node)
      /\ Here = open[n]
  BY DEF StackOK, Become, Front, Here, Last
<1>2. /\ front \in Seq(Node) /\ Len(front) = n - 1
      /\ \A i \in 1 .. n - 1 : front[i] = open[i]
  BY <1>1, FrontOf
<1>3. n # 1
  <2>1. n \in 1 .. Len(open)
    BY <1>1
  <2> QED
    BY <1>1, <2>1 DEF StackOK, Nested
<1> HIDE DEF front
<1>4. /\ open' \in Seq(Node) /\ Len(open') = n /\ open'[n] = node
      /\ \A i \in 1 .. n - 1 : open'[i] = open[i]
  BY <1>1, <1>2
<1>5. \A i \in 1 .. n : open'[i].kind = "function" <=> i = 1
  BY <1>1, <1>3, <1>4 DEF StackOK, Nested
<1> QED
  BY <1>4, <1>5 DEF StackOK, Nested

-----------------------------------------------------------------------------
(* Every step keeps the types and the numbering.                           *)

MapsOK ==
  /\ DOMAIN functionMap \subseteq Funs
  /\ \A f \in DOMAIN functionMap : functionMap[f] \in Labels
  /\ DOMAIN defined \subseteq DOMAIN functionMap
  /\ labelCount \in Nat
  /\ aborted \in BOOLEAN

Inv == tac \in TacState /\ StackOK /\ MapsOK /\ BlocksNumbered

LEMMA InvIs == Inv <=> TypeOK /\ BlocksNumbered
BY DEF Inv, TypeOK, StackOK, MapsOK

LEMMA GoodHere ==
  ASSUME BlocksNumbered
  PROVE  Good(tac, TRUE) /\ (open # <<>> => Good(tac, FALSE))
BY DEF BlocksNumbered, Good, CountingIn

LEMMA NumberedHere ==
  ASSUME Good(tac, FALSE)'
  PROVE  BlocksNumbered'
BY DEF BlocksNumbered, Good, CountingIn

LEMMA Weaker ==
  ASSUME NEW t, Good(t, FALSE)
  PROVE  Good(t, TRUE)
BY DEF Good, CountingIn

LEMMA NewLabels ==
  ASSUME Inv, labelCount + 1 \in Labels, labelCount' = labelCount + 1,
         UNCHANGED <<books, defined, aborted>>
  PROVE  MapsOK'
BY DEF Inv, MapsOK, books

LEMMA SameMaps ==
  ASSUME Inv, UNCHANGED <<books, defined, labelCount, aborted>>
  PROVE  MapsOK'
BY DEF Inv, MapsOK, books

LEMMA SameStack ==
  ASSUME Inv, UNCHANGED open
  PROVE  StackOK'
BY DEF Inv, StackOK, Nested

(* A jump to label a followed by label b, which ends the block of the jump.*)
LEMMA JumpAndLabel ==
  ASSUME NEW t \in TacState, Good(t, FALSE), NEW a \in Labels, NEW b \in Labels
  PROVE  LET u == addFirst(addLine(t, "JUMP", a), "LABEL", b)
         IN u \in TacState /\ Good(u, FALSE)
<1> DEFINE s == addLine(t, "JUMP", a)
<1>1. s = addLineWith(t, "JUMP", NoVar, a)
  BY DEF addLine
<1>2. "JUMP" \in Ops \ {"LABEL", "ENTRY"} /\ "JUMP" \in {"JUMP", "JUMPFALSE", "RET", "CALL"}
  BY DEF Ops
<1>3. s \in TacState
  BY <1>1, <1>2, AddedLine
<1>4. NumberedIn(s.codeLines) /\ CountingIn(s, TRUE)
  <2>1. CountingIn(s, "JUMP" \in {"JUMP", "JUMPFALSE", "RET", "CALL"})
    BY <1>1, <1>2, PlainLine
  <2>2. NumberedIn(s.codeLines)
    BY <1>1, <1>2, PlainLine
  <2> QED
    BY <2>1, <2>2 DEF CountingIn
<1> HIDE DEF s
<1>5. Good(s, TRUE)
  BY <1>4 DEF Good
<1>6. addFirst(s, "LABEL", b) \in TacState /\ Good(addFirst(s, "LABEL", b), FALSE)
  BY <1>3, <1>5, FirstLine
<1> QED
  BY <1>6 DEF s

LEMMA PrototypeStep ==
  ASSUME Inv, NEW f \in Funs, convertFunctionPrototype(f)
  PROVE  Inv'
<1>1. tac' \in TacState /\ BlocksNumbered'
  BY DEF Inv, convertFunctionPrototype, BlocksNumbered
<1>2. StackOK'
  BY SameStack DEF convertFunctionPrototype
<1>3. MapsOK'
  BY DEF Inv, MapsOK, convertFunctionPrototype, addFunction
<1> QED
  BY <1>1, <1>2, <1>3 DEF Inv

LEMMA StartFunctionStep ==
  ASSUME Inv, NEW f \in Funs, NEW returnType \in {"NONE", "INT"},
         startFunction(f, returnType)
  PROVE  Inv'
<1> DEFINE label == IF LooksUp(f) THEN functionMap[f] ELSE labelCount + 1
           node == [kind |-> "function", name |-> f, returnType |-> returnType,
                    codelines |-> Len(tac.codeLines)]
<1>1. label \in Labels /\ tac' = addFirst(tac, "ENTRY", label) /\ open = <<>>
  BY DEF startFunction
<1> HIDE DEF label
<1>2. tac' \in TacState /\ BlocksNumbered'
  <2>1. tac' \in TacState /\ Good(tac', FALSE)
    BY <1>1, GoodHere, FirstLine DEF Inv
  <2> QED
    BY <2>1, NumberedHere
<1>3. StackOK'
  <2>1. Len(tac.codeLines) \in Nat
    BY DEF Inv, TacState
  <2>2. node \in Node /\ node.kind = "function"
    BY <2>1 DEF Node
  <2>3. Enter(node)
    BY DEF startFunction
  <2> HIDE DEF node
  <2> QED
    BY <1>1, <2>2, <2>3, Entered DEF Inv
<1>4. MapsOK'
  BY <1>1 DEF Inv, MapsOK, startFunction, addFunction, LooksUp, books, label
<1> QED
  BY <1>2, <1>3, <1>4 DEF Inv

LEMMA EndFunctionStep ==
  ASSUME Inv, endFunction
  PROVE  Inv'
<1>1. open # <<>> /\ Here.kind = "function"
  BY HereIsNode DEF endFunction, Inv
<1>2. StackOK' /\ open' = <<>>
  BY <1>1, Left DEF endFunction, Inv
<1>3. tac' \in TacState /\ NumberedIn(tac'.codeLines) /\ CountingIn(tac', TRUE)
  <2>1. CASE tac' = tac
    BY <2>1, GoodHere DEF Inv, Good
  <2>2. CASE tac' = addLineWith(tac, "RET", NoVar, NoLabel)
    <3>1. "RET" \in Ops \ {"LABEL", "ENTRY"}
      BY DEF Ops
    <3>2. Good(tac, FALSE) /\ tac \in TacState
      BY <1>1, GoodHere DEF Inv
    <3>3. tac' \in TacState
      BY <2>2, <3>1, <3>2, AddedLine
    <3>4. NumberedIn(tac'.codeLines)
      BY <2>2, <3>1, <3>2, PlainLine
    <3>5. CountingIn(tac', "RET" \in {"JUMP", "JUMPFALSE", "RET", "CALL"})
      BY <2>2, <3>1, <3>2, PlainLine
    <3> QED
      BY <3>3, <3>4, <3>5 DEF CountingIn
  <2> QED
    BY <2>1, <2>2 DEF endFunction, addLine
<1>4. BlocksNumbered'
  BY <1>2, <1>3 DEF BlocksNumbered, CountingIn
<1>5. MapsOK'
  BY DEF endFunction, ReturnsMismatch, Inv, MapsOK, books
<1> QED
  BY <1>2, <1>3, <1>4, <1>5 DEF Inv

LEMMA PlainLineStep ==
  ASSUME Inv, plainLine
  PROVE  Inv'
<1>1. Good(tac, FALSE) /\ tac \in TacState
  BY HereIsNode, GoodHere DEF plainLine, Inv
<1>2. "ASSIGN" \in Ops \ {"LABEL", "ENTRY"}
  BY DEF Ops
<1>3. tac' = addLineWith(tac, "ASSIGN", NoVar, NoLabel)
  BY DEF plainLine, addLine
<1>4. tac' \in TacState
  BY <1>1, <1>2, <1>3, AddedLine
<1>5. NumberedIn(tac'.codeLines)
  BY <1>1, <1>2, <1>3, PlainLine
<1>6. CountingIn(tac', "ASSIGN" \in {"JUMP", "JUMPFALSE", "RET", "CALL"})
  BY <1>1, <1>2, <1>3, PlainLine
<1>7. BlocksNumbered'
  BY <1>5, <1>6 DEF BlocksNumbered, CountingIn
<1> QED
  BY <1>4, <1>7, SameStack, SameMaps DEF plainLine, Inv

LEMMA CallStep ==
  ASSUME Inv, NEW f \in Funs, convertfunctionCallExpr(f)
  PROVE  Inv'
<1>1. Good(tac, FALSE) /\ tac \in TacState
  BY HereIsNode, GoodHere DEF convertfunctionCallExpr, Inv
<1>2. functionMap[f] \in Labels
  BY DEF convertfunctionCallExpr, Inv, MapsOK
<1>3. tac' \in TacState /\ Good(tac', FALSE)
  BY <1>1, <1>2, LastLine DEF convertfunctionCallExpr, addLast, addLine
<1> QED
  BY <1>3, NumberedHere, SameStack, SameMaps DEF convertfunctionCallExpr, Inv

LEMMA ReturnStep ==
  ASSUME Inv, NEW value \in Vars \cup {NoVar}, convertReturnStmt(value)
  PROVE  Inv'
<1>1. Good(tac, FALSE) /\ tac \in TacState
  BY HereIsNode, GoodHere DEF convertReturnStmt, Inv
<1>2. tac' \in TacState /\ Good(tac', FALSE)
  BY <1>1, LastLine DEF convertReturnStmt
<1>3. MapsOK'
  BY DEF convertReturnStmt, Inv, MapsOK
<1> QED
  BY <1>2, <1>3, NumberedHere, SameStack DEF convertReturnStmt, Inv

LEMMA StartIfStep ==
  ASSUME Inv, NEW hasElse \in BOOLEAN, startIf(hasElse)
  PROVE  Inv'
<1> DEFINE node == [kind |-> "then", exit |-> labelCount + 1, hasElse |-> hasElse]
<1>1. open # <<>> /\ Good(tac, FALSE) /\ tac \in TacState
  BY HereIsNode, GoodHere DEF startIf, Inv
<1>2. labelCount + 1 \in Labels /\ MapsOK'
  BY NewLabels DEF startIf
<1>3. tac' \in TacState /\ Good(tac', FALSE)
  BY <1>1, <1>2, LastLine DEF startIf, addLast, addLine
<1>4. StackOK'
  <2>1. node \in Node /\ node.kind # "function" /\ Enter(node)
    BY <1>2 DEF Node, startIf
  <2> HIDE DEF node
  <2> QED
    BY <1>1, <2>1, Entered DEF Inv
<1> QED
  BY <1>2, <1>3, <1>4, NumberedHere DEF Inv

LEMMA EndBranchStep ==
  ASSUME Inv, endThen \/ endElse
  PROVE  Inv'
<1>1. open # <<>> /\ Good(tac, TRUE) /\ tac \in TacState
  BY HereIsNode, GoodHere DEF endThen, endElse, Inv
<1>2. Here.exit \in Labels
  <2>1. Here \in Node /\ Here.kind \in {"then", "else"}
    BY HereIsNode DEF endThen, endElse, Inv
  <2> QED
    BY <2>1, NodeParts
<1>3. tac' \in TacState /\ Good(tac', FALSE)
  BY <1>1, <1>2, FirstLine DEF endThen, endElse
<1>4. StackOK'
  BY <1>1, Left DEF endThen, endElse, Inv
<1>5. MapsOK'
  BY SameMaps DEF endThen, endElse
<1> QED
  BY <1>3, <1>4, <1>5, NumberedHere DEF Inv

LEMMA StartElseStep ==
  ASSUME Inv, startElse
  PROVE  Inv'
<1> DEFINE node == [kind |-> "else", exit |-> labelCount + 1]
<1>1. /\ open # <<>> /\ Here.kind = "then" /\ Here.exit \in Labels
      /\ Good(tac, FALSE) /\ tac \in TacState
  <2>1. open # <<>> /\ Here \in Node /\ Here.kind = "then"
    BY HereIsNode DEF startElse, Inv
  <2> QED
    BY <2>1, NodeParts, GoodHere DEF Inv
<1>2. labelCount + 1 \in Labels /\ MapsOK'
  BY NewLabels DEF startElse
<1>3. tac' \in TacState /\ Good(tac', FALSE)
  BY <1>1, <1>2, JumpAndLabel DEF startElse
<1>4. StackOK'
  <2>1. node \in Node /\ node.kind # "function" /\ Become(node)
    BY <1>2 DEF Node, startElse
  <2> HIDE DEF node
  <2> QED
    BY <1>1, <2>1, Became DEF Inv
<1> QED
  BY <1>2, <1>3, <1>4, NumberedHere DEF Inv

LEMMA StartWhileStep ==
  ASSUME Inv, startWhile
  PROVE  Inv'
<1> DEFINE node == [kind |-> "condition", again |-> labelCount + 1]
<1>1. open # <<>> /\ Good(tac, TRUE) /\ tac \in TacState
  BY HereIsNode, GoodHere DEF startWhile, Inv
<1>2. labelCount + 1 \in Labels /\ MapsOK'
  BY NewLabels DEF startWhile
<1>3. tac' \in TacState /\ Good(tac', FALSE)
  BY <1>1, <1>2, FirstLine DEF startWhile
<1>4. StackOK'
  <2>1. node \in Node /\ node.kind # "function" /\ Enter(node)
    BY <1>2 DEF Node, startWhile
  <2> HIDE DEF node
  <2> QED
    BY <1>1, <2>1, Entered DEF Inv
<1> QED
  BY <1>2, <1>3, <1>4, NumberedHere DEF Inv

LEMMA TestWhileStep ==
  ASSUME Inv, testWhile
  PROVE  Inv'
<1> DEFINE node == [kind |-> "body", again |-> Here.again, exit |-> labelCount + 1]
<1>1. /\ open # <<>> /\ Here.kind = "condition" /\ Here.again \in Labels
      /\ Good(tac, FALSE) /\ tac \in TacState
  <2>1. open # <<>> /\ Here \in Node /\ Here.kind = "condition"
    BY HereIsNode DEF testWhile, Inv
  <2> QED
    BY <2>1, NodeParts, GoodHere DEF Inv
<1>2. labelCount + 1 \in Labels /\ MapsOK'
  BY NewLabels DEF testWhile
<1>3. tac' \in TacState /\ Good(tac', FALSE)
  BY <1>1, <1>2, LastLine DEF testWhile, addLast, addLine
<1>4. StackOK'
  <2>1. node \in Node /\ node.kind # "function" /\ Become(node)
    BY <1>1, <1>2 DEF Node, testWhile
  <2> HIDE DEF node
  <2> QED
    BY <1>1, <2>1, Became DEF Inv
<1> QED
  BY <1>2, <1>3, <1>4, NumberedHere DEF Inv

LEMMA EndWhileStep ==
  ASSUME Inv, endWhile
  PROVE  Inv'
<1>1. /\ open # <<>> /\ Here.again \in Labels /\ Here.exit \in Labels
      /\ Good(tac, FALSE) /\ tac \in TacState
  <2>1. open # <<>> /\ Here \in Node /\ Here.kind = "body"
    BY HereIsNode DEF endWhile, Inv
  <2> QED
    BY <2>1, NodeParts, GoodHere DEF Inv
<1>2. tac' \in TacState /\ Good(tac', FALSE)
  BY <1>1, JumpAndLabel DEF endWhile
<1>3. StackOK'
  BY <1>1, Left DEF endWhile, Inv
<1>4. MapsOK'
  BY SameMaps DEF endWhile
<1> QED
  BY <1>2, <1>3, <1>4, NumberedHere DEF Inv

(* The numbering follows the structure of the code at every moment of the  *)
(* conversion, and types are correct (BlocksNumbered, TypeOK).             *)
THEOREM InvariantHolds == Spec => []Inv
<1>1. Init => Inv
  <2> SUFFICES ASSUME Init PROVE Inv
    OBVIOUS
  <2>1. tac \in TacState /\ tac.codeLines = <<>>
    BY DEF Init, TacState
  <2>2. BlocksNumbered
    BY DEF Init, BlocksNumbered, NumberedIn, CountingIn
  <2>3. StackOK
    BY DEF Init, StackOK, Nested
  <2>4. MapsOK
    <3>1. \A x : x \notin DOMAIN << >>
      OBVIOUS
    <3> QED
      BY <3>1 DEF Init, MapsOK
  <2> QED
    BY <2>1, <2>2, <2>3, <2>4 DEF Inv
<1>2. Inv /\ [Next]_vars => Inv'
  <2> SUFFICES ASSUME Inv, [Next]_vars PROVE Inv'
    OBVIOUS
  <2>1. CASE Next
    BY <2>1, PrototypeStep, StartFunctionStep, EndFunctionStep, PlainLineStep,
       CallStep, ReturnStep, StartIfStep, EndBranchStep, StartElseStep,
       StartWhileStep, TestWhileStep, EndWhileStep
    DEF Next
  <2>2. CASE UNCHANGED vars
    <3>1. BlocksNumbered'
      BY <2>2 DEF vars, Inv, BlocksNumbered
    <3>2. MapsOK' /\ StackOK' /\ tac' \in TacState
      BY <2>2, SameMaps, SameStack DEF vars, Inv
    <3> QED
      BY <3>1, <3>2 DEF Inv
  <2> QED
    BY <2>1, <2>2
<1> QED
  BY <1>1, <1>2, PTL DEF Spec

(* Type correctness of the conversion.                                     *)
THEOREM TypeCorrect == Spec => []TypeOK
BY InvariantHolds, InvIs, PTL

(* Ids of basic blocks count up at labels and behind jumps, calls and      *)
(* returns and nowhere else, for code of any length.                       *)
THEOREM NumberingCorrect == Spec => []BlocksNumbered
BY InvariantHolds, InvIs, PTL

-----------------------------------------------------------------------------
(* Labels of functions.  Numbers of labels count up, so a new label is on  *)
(* no line and in no place of the map.                                     *)

LabelsUsed ==
  /\ \A f \in DOMAIN functionMap : functionMap[f] <= labelCount
  /\ \A label \in Labels : EntriesOf(label) # {} => label <= labelCount

SameEntries(t, u) ==
  \A label : EntriesIn(u.codeLines, label) = EntriesIn(t.codeLines, label)

LEMMA EntriesAppend ==
  ASSUME NEW lines \in Seq(Line), NEW l \in Line, NEW label
  PROVE  EntriesIn(Append(lines, l), label) =
           EntriesIn(lines, label) \cup
             {i \in {Len(lines) + 1} : l.op = "ENTRY" /\ l.dest = label}
<1> DEFINE n == Len(lines)
           longer == Append(lines, l)
<1>1. /\ n \in Nat /\ Len(longer) = n + 1 /\ longer[n + 1] = l
      /\ \A i \in 1 .. n : longer[i] = lines[i]
      /\ 1 .. n + 1 = (1 .. n) \cup {n + 1}
  OBVIOUS
<1> HIDE DEF longer
<1>2. EntriesIn(longer, label) =
        EntriesIn(lines, label) \cup
          {i \in {n + 1} : l.op = "ENTRY" /\ l.dest = label}
  BY <1>1 DEF EntriesIn
<1> QED
  BY <1>2 DEF longer

LEMMA AddedEntries ==
  ASSUME NEW t \in TacState, NEW op \in Ops \ {"ENTRY"},
         NEW operand \in Vars \cup {NoVar}, NEW label \in Labels \cup {NoLabel}
  PROVE  LET u == addLineWith(t, op, operand, label)
         IN u \in TacState /\ SameEntries(t, u)
<1> DEFINE u == addLineWith(t, op, operand, label)
           l == LineFor(op, operand, label, t.currentBasicBlock)
<1>1. u \in TacState /\ u.codeLines = Append(t.codeLines, l)
  BY AddedLine
<1>2. t.codeLines \in Seq(Line) /\ t.currentBasicBlock \in Nat
  BY DEF TacState
<1>3. l \in Line /\ l.op # "ENTRY"
  BY <1>2, LineIsTyped DEF LineFor
<1> HIDE DEF u, l
<1>4. ASSUME NEW other
      PROVE  EntriesIn(u.codeLines, other) = EntriesIn(t.codeLines, other)
  <2>1. {i \in {Len(t.codeLines) + 1} : l.op = "ENTRY" /\ l.dest = other} = {}
    BY <1>3
  <2>2. EntriesIn(u.codeLines, other) = EntriesIn(t.codeLines, other) \cup
          {i \in {Len(t.codeLines) + 1} : l.op = "ENTRY" /\ l.dest = other}
    BY <1>1, <1>2, <1>3, EntriesAppend
  <2> QED
    BY <2>1, <2>2
<1>5. SameEntries(t, u)
  BY <1>4 DEF SameEntries
<1> QED
  BY <1>1, <1>5 DEF u

LEMMA NextEntries ==
  ASSUME NEW t \in TacState
  PROVE  LET u == nextBasicBlock(t)
         IN u \in TacState /\ u.codeLines = t.codeLines /\ SameEntries(t, u)
<1> DEFINE u == nextBasicBlock(t)
<1>1. u \in TacState /\ u.codeLines = t.codeLines
  <2>1. CASE t.currentBasicBlockUsed
    <3>1. /\ u = [t EXCEPT !.currentBasicBlock = t.currentBasicBlock + 1,
                          !.currentBasicBlockUsed = FALSE]
          /\ t.currentBasicBlock + 1 \in Nat
      BY <2>1 DEF nextBasicBlock, TacState
    <3> HIDE DEF u
    <3> QED
      BY <3>1 DEF TacState
  <2>2. CASE ~t.currentBasicBlockUsed
    BY <2>2 DEF nextBasicBlock
  <2> QED
    BY <2>1, <2>2
<1>2. SameEntries(t, u)
  BY <1>1 DEF SameEntries
<1> QED
  BY <1>1, <1>2

LEMMA LastEntries ==
  ASSUME NEW t \in TacState, NEW op \in Ops \ {"ENTRY"},
         NEW operand \in Vars \cup {NoVar}, NEW label \in Labels \cup {NoLabel}
  PROVE  SameEntries(t, nextBasicBlock(addLineWith(t, op, operand, label)))
<1> DEFINE s == addLineWith(t, op, operand, label)
<1>1. s \in TacState /\ SameEntries(t, s)
  BY AddedEntries
<1> HIDE DEF s
<1>2. SameEntries(s, nextBasicBlock(s))
  BY <1>1, NextEntries
<1>3. SameEntries(t, nextBasicBlock(s))
  BY <1>1, <1>2 DEF SameEntries
<1> QED
  BY <1>3 DEF s

LEMMA LabelEntries ==
  ASSUME NEW t \in TacState, NEW label \in Labels
  PROVE  SameEntries(t, addFirst(t, "LABEL", label))
<1> DEFINE s == nextBasicBlock(t)
<1>1. s \in TacState /\ SameEntries(t, s)
  BY NextEntries
<1>2. "LABEL" \in Ops \ {"ENTRY"}
  BY DEF Ops
<1> HIDE DEF s
<1>3. SameEntries(s, addLineWith(s, "LABEL", NoVar, label))
  BY <1>1, <1>2, AddedEntries
<1>4. SameEntries(t, addLineWith(s, "LABEL", NoVar, label))
  BY <1>1, <1>3 DEF SameEntries
<1> QED
  BY <1>4 DEF s, addFirst, addLine

LEMMA JumpEntries ==
  ASSUME NEW t \in TacState, NEW a \in Labels, NEW b \in Labels
  PROVE  SameEntries(t, addFirst(addLine(t, "JUMP", a), "LABEL", b))
<1> DEFINE s == addLine(t, "JUMP", a)
<1>1. "JUMP" \in Ops \ {"ENTRY"}
  BY DEF Ops
<1>2. s \in TacState /\ SameEntries(t, s)
  BY <1>1, AddedEntries DEF addLine
<1> HIDE DEF s
<1>3. SameEntries(s, addFirst(s, "LABEL", b))
  BY <1>2, LabelEntries
<1>4. SameEntries(t, addFirst(s, "LABEL", b))
  BY <1>2, <1>3 DEF SameEntries
<1> QED
  BY <1>4 DEF s

LInv == LabelsUsed /\ CallsReachDefinition

(* A step that leaves the map and adds no entry.                           *)
LEMMA OtherStep ==
  ASSUME Inv, LInv, SameEntries(tac, tac'),
         functionMap' = functionMap, defined' = defined,
         labelCount' = labelCount \/ labelCount' = labelCount + 1,
         tac' \in TacState
  PROVE  LInv'
<1>1. \A label : EntriesOf(label)' = EntriesOf(label)
  BY DEF SameEntries, EntriesOf
<1>2. CallsReachDefinition'
  <2>1. DOMAIN tac.codeLines = 1 .. Len(tac.codeLines)
    BY DEF Inv, TacState
  <2>2. ASSUME NEW f \in DOMAIN functionMap
        PROVE  /\ \A g \in DOMAIN functionMap \ {f} : functionMap[f] # functionMap[g]
               /\ IF f \in DOMAIN defined
                  THEN \E i \in DOMAIN tac'.codeLines :
                         EntriesOf(functionMap[f])' = {i}
                  ELSE EntriesOf(functionMap[f])' = {}
    <3>1. \A i : EntriesOf(functionMap[f])' = {i} => i \in DOMAIN tac'.codeLines
      <4>1. ASSUME NEW i, EntriesOf(functionMap[f])' = {i}
            PROVE  i \in 1 .. Len(tac'.codeLines)
        BY <4>1 DEF EntriesOf, EntriesIn
      <4>2. DOMAIN tac'.codeLines = 1 .. Len(tac'.codeLines)
        BY DEF TacState
      <4> QED
        BY <4>1, <4>2
    <3> QED
      BY <1>1, <3>1 DEF LInv, CallsReachDefinition
  <2> QED
    BY <2>2 DEF CallsReachDefinition
<1>3. LabelsUsed'
  <2>1. labelCount \in Nat /\ labelCount' \in Nat /\ labelCount <= labelCount'
    BY DEF Inv, MapsOK
  <2>2. \A label \in Labels : label <= labelCount => label <= labelCount'
    BY <2>1, LabelsAssumption
  <2>3. \A f \in DOMAIN functionMap : functionMap[f] <= labelCount'
    BY <2>2 DEF LInv, LabelsUsed, Inv, MapsOK
  <2>4. \A label \in Labels : EntriesOf(label)' # {} => label <= labelCount'
    BY <1>1, <2>2 DEF LInv, LabelsUsed
  <2> QED
    BY <2>3, <2>4 DEF LabelsUsed
<1> QED
  BY <1>2, <1>3 DEF LInv

LEMMA PrototypeLabels ==
  ASSUME Inv, LInv, NEW f \in Funs, convertFunctionPrototype(f)
  PROVE  LInv'
<1> DEFINE new == labelCount + 1
<1>1. /\ new \in Labels /\ labelCount' = new /\ f \notin DOMAIN functionMap
      /\ functionMap' = [g \in DOMAIN functionMap \cup {f} |->
                           IF g \in DOMAIN functionMap THEN functionMap[g] ELSE new]
      /\ defined' = defined /\ tac' = tac
  BY DEF convertFunctionPrototype, addFunction
<1>2. labelCount \in Nat /\ \A label \in Labels : label <= labelCount => label # new
  BY LabelsAssumption DEF Inv, MapsOK
<1>3. \A g \in DOMAIN functionMap : functionMap[g] \in Labels /\ functionMap[g] # new
  BY <1>2 DEF Inv, MapsOK, LInv, LabelsUsed
<1>4. EntriesOf(new) = {}
  BY <1>1, <1>2 DEF LInv, LabelsUsed
<1>5. /\ DOMAIN functionMap' = DOMAIN functionMap \cup {f}
      /\ functionMap'[f] = new
      /\ \A g \in DOMAIN functionMap : functionMap'[g] = functionMap[g]
      /\ f \notin DOMAIN defined
      /\ \A label : EntriesOf(label)' = EntriesOf(label)
  BY <1>1 DEF Inv, MapsOK, EntriesOf
<1> HIDE DEF new
<1>6. CallsReachDefinition'
  BY <1>1, <1>3, <1>4, <1>5 DEF LInv, CallsReachDefinition
<1>7. LabelsUsed'
  <2>1. \A label \in Labels : label <= labelCount => label <= labelCount'
    BY <1>1, <1>2, LabelsAssumption DEF new
  <2>2. new <= labelCount'
    BY <1>1, <1>2 DEF new
  <2> QED
    BY <1>3, <1>5, <2>1, <2>2 DEF LInv, LabelsUsed
<1> QED
  BY <1>6, <1>7 DEF LInv

(* The entry gets the label of the prototype or a new one.                 *)
LEMMA StartFunctionLabels ==
  ASSUME Inv, LInv, NEW f \in Funs, NEW returnType \in {"NONE", "INT"},
         startFunction(f, returnType)
  PROVE  LInv'
<1> DEFINE new == labelCount + 1
           label == IF LooksUp(f) THEN functionMap[f] ELSE new
           here == Len(tac.codeLines) + 1
<1>1. /\ label \in Labels /\ tac' = addFirst(tac, "ENTRY", label)
      /\ f \notin DOMAIN defined
      /\ DOMAIN defined' = DOMAIN defined \cup {f}
  BY DEF startFunction
<1>2. labelCount \in Nat /\ \A l \in Labels : l <= labelCount => l # new
  BY LabelsAssumption DEF Inv, MapsOK
<1>3. \A g \in DOMAIN functionMap : functionMap[g] \in Labels /\ functionMap[g] # new
  BY <1>2 DEF Inv, MapsOK, LInv, LabelsUsed
<1>4. /\ DOMAIN functionMap' = DOMAIN functionMap \cup {f}
      /\ functionMap'[f] = label
      /\ \A g \in DOMAIN functionMap : functionMap'[g] = functionMap[g]
      /\ \A g \in DOMAIN functionMap \ {f} : functionMap[g] # label
      /\ labelCount' = IF LooksUp(f) THEN labelCount ELSE new
  <2>1. CASE LooksUp(f)
    BY <1>3, <2>1 DEF startFunction, books, LooksUp, LInv, CallsReachDefinition
  <2>2. CASE ~LooksUp(f)
    BY <1>3, <2>2 DEF startFunction, addFunction, LooksUp
  <2> QED
    BY <2>1, <2>2
<1>5. EntriesOf(label) = {} /\ label <= labelCount'
  <2>1. CASE LooksUp(f)
    BY <1>1, <1>4, <2>1 DEF LooksUp, LInv, LabelsUsed, CallsReachDefinition
  <2>2. CASE ~LooksUp(f)
    BY <1>1, <1>2, <1>4, <2>2 DEF LInv, LabelsUsed
  <2> QED
    BY <2>1, <2>2
<1>6. labelCount <= labelCount'
  BY <1>2, <1>4
<1> HIDE DEF label, new
<1>7. /\ here \in DOMAIN tac'.codeLines
      /\ EntriesIn(tac'.codeLines, label) = {here}
      /\ \A l \in Labels \ {label} : EntriesIn(tac'.codeLines, l) = EntriesOf(l)
  <2>1. Good(tac, TRUE) /\ tac \in TacState
    BY GoodHere DEF Inv
  <2>2. PICK b \in Nat : tac'.codeLines =
                           Append(tac.codeLines, LineFor("ENTRY", NoVar, label, b))
    BY <1>1, <2>1, FirstLine
  <2> DEFINE entry == LineFor("ENTRY", NoVar, label, b)
  <2>3. entry.op = "ENTRY" /\ entry.dest = label
    BY DEF LineFor
  <2>4. entry \in Line /\ tac.codeLines \in Seq(Line)
    BY <1>1, <2>1, LineIsTyped DEF Ops, TacState
  <2> HIDE DEF entry
  <2>5. \A l \in Labels : EntriesIn(tac'.codeLines, l) = EntriesOf(l) \cup
                            {i \in {here} : entry.op = "ENTRY" /\ entry.dest = l}
    BY <2>2, <2>4, EntriesAppend DEF EntriesOf, entry
  <2>6. here \in DOMAIN tac'.codeLines
    BY <2>2, <2>4 DEF entry
  <2>7. EntriesIn(tac'.codeLines, label) = {here}
    BY <1>1, <1>5, <2>3, <2>5
  <2>8. \A l \in Labels \ {label} : EntriesIn(tac'.codeLines, l) = EntriesOf(l)
    BY <2>3, <2>5
  <2> QED
    BY <2>6, <2>7, <2>8
<1>8. \A i \in DOMAIN tac.codeLines : i \in DOMAIN tac'.codeLines
  <2>1. Good(tac, TRUE) /\ tac \in TacState
    BY GoodHere DEF Inv
  <2>2. \E b \in Nat : tac'.codeLines =
                         Append(tac.codeLines, LineFor("ENTRY", NoVar, label, b))
    BY <1>1, <2>1, FirstLine
  <2>3. tac.codeLines \in Seq(Line)
    BY <2>1 DEF TacState
  <2> QED
    BY <2>2, <2>3
<1>9. CallsReachDefinition'
  <2>1. ASSUME NEW g \in DOMAIN functionMap \cup {f}
        PROVE  /\ \A h \in (DOMAIN functionMap \cup {f}) \ {g} :
                    functionMap'[g] # functionMap'[h]
               /\ IF g \in DOMAIN defined \cup {f}
                  THEN \E i \in DOMAIN tac'.codeLines :
                         EntriesIn(tac'.codeLines, functionMap'[g]) = {i}
                  ELSE EntriesIn(tac'.codeLines, functionMap'[g]) = {}
    <3>1. CASE g = f
      BY <1>4, <1>7, <3>1
    <3>2. CASE g # f
      <4>1. /\ g \in DOMAIN functionMap /\ functionMap'[g] = functionMap[g]
            /\ functionMap[g] \in Labels \ {label}
        BY <1>3, <1>4, <3>2
      <4>2. EntriesIn(tac'.codeLines, functionMap'[g]) = EntriesOf(functionMap[g])
        BY <1>7, <4>1
      <4>3. \A h \in (DOMAIN functionMap \cup {f}) \ {g} :
              functionMap'[g] # functionMap'[h]
        BY <1>4, <3>2, <4>1 DEF LInv, CallsReachDefinition
      <4> QED
        BY <1>8, <3>2, <4>1, <4>2, <4>3 DEF LInv, CallsReachDefinition
    <3> QED
      BY <3>1, <3>2
  <2> QED
    BY <1>1, <1>4, <2>1 DEF CallsReachDefinition, EntriesOf
<1>10. LabelsUsed'
  <2>1. \A l \in Labels : l <= labelCount => l <= labelCount'
    <3>1. labelCount' \in Nat
      BY <1>2, <1>4 DEF new
    <3> QED
      BY <1>2, <1>6, <3>1, LabelsAssumption
  <2>2. \A g \in DOMAIN functionMap' : functionMap'[g] <= labelCount'
    BY <1>3, <1>4, <1>5, <2>1 DEF LInv, LabelsUsed
  <2>3. \A l \in Labels : EntriesOf(l)' # {} => l <= labelCount'
    BY <1>5, <1>7, <2>1 DEF LInv, LabelsUsed, EntriesOf
  <2> QED
    BY <2>2, <2>3 DEF LabelsUsed
<1> QED
  BY <1>9, <1>10 DEF LInv

(* The actions that have nothing to do with functions but a plain line, a  *)
(* call, a return or a branch.                                             *)
LEMMA StatementLabels ==
  ASSUME Inv, LInv,
         \/ \E f \in Funs : convertfunctionCallExpr(f)
         \/ \E value \in Vars \cup {NoVar} : convertReturnStmt(value)
         \/ \E hasElse \in BOOLEAN : startIf(hasElse)
         \/ plainLine \/ endThen \/ startElse \/ endElse
         \/ startWhile \/ testWhile \/ endWhile \/ endFunction
  PROVE  LInv'
<1>1. Inv'
  BY CallStep, ReturnStep, StartIfStep, PlainLineStep, EndBranchStep,
     StartElseStep, StartWhileStep, TestWhileStep, EndWhileStep, EndFunctionStep
<1>2. /\ functionMap' = functionMap /\ defined' = defined
      /\ labelCount' = labelCount \/ labelCount' = labelCount + 1
  BY DEF convertfunctionCallExpr, convertReturnStmt, startIf, plainLine, endThen,
     startElse, endElse, startWhile, testWhile, endWhile, endFunction, books
<1>3. tac \in TacState /\ {"ASSIGN", "CALL", "RET", "JUMPFALSE"} \subseteq Ops \ {"ENTRY"}
  BY DEF Inv, Ops
<1>4. SameEntries(tac, tac')
  <2>1. ASSUME NEW f \in Funs, convertfunctionCallExpr(f)
        PROVE  SameEntries(tac, tac')
    <3>1. functionMap[f] \in Labels
      BY <2>1 DEF convertfunctionCallExpr, Inv, MapsOK
    <3> QED
      BY <1>3, <2>1, <3>1, LastEntries DEF convertfunctionCallExpr, addLast, addLine
  <2>2. ASSUME NEW value \in Vars \cup {NoVar}, convertReturnStmt(value)
        PROVE  SameEntries(tac, tac')
    BY <1>3, <2>2, LastEntries DEF convertReturnStmt
  <2>3. CASE \E hasElse \in BOOLEAN : startIf(hasElse)
    BY <1>3, <2>3, LastEntries DEF startIf, addLast, addLine
  <2>4. CASE plainLine
    BY <1>3, <2>4, AddedEntries DEF plainLine, addLine
  <2>5. CASE endThen \/ endElse
    <3>1. Here \in Node /\ Here.kind \in {"then", "else"}
      BY <2>5, HereIsNode DEF endThen, endElse, Inv
    <3> QED
      BY <1>3, <2>5, <3>1, NodeParts, LabelEntries DEF endThen, endElse
  <2>6. CASE startElse
    <3>1. Here \in Node /\ Here.kind = "then"
      BY <2>6, HereIsNode DEF startElse, Inv
    <3> QED
      BY <1>3, <2>6, <3>1, NodeParts, JumpEntries DEF startElse
  <2>7. CASE startWhile
    BY <1>3, <2>7, LabelEntries DEF startWhile
  <2>8. CASE testWhile
    BY <1>3, <2>8, LastEntries DEF testWhile, addLast, addLine
  <2>9. CASE endWhile
    <3>1. Here \in Node /\ Here.kind = "body"
      BY <2>9, HereIsNode DEF endWhile, Inv
    <3> QED
      BY <1>3, <2>9, <3>1, NodeParts, JumpEntries DEF endWhile
  <2>10. CASE endFunction
    <3>1. CASE tac' = tac
      BY <3>1 DEF SameEntries
    <3>2. CASE tac' = addLineWith(tac, "RET", NoVar, NoLabel)
      BY <1>3, <3>2, AddedEntries
    <3> QED
      BY <2>10, <3>1, <3>2 DEF endFunction, addLine
  <2> QED
    BY <2>1, <2>2, <2>3, <2>4, <2>5, <2>6, <2>7, <2>8, <2>9, <2>10
<1> QED
  BY <1>1, <1>2, <1>4, OtherStep DEF Inv

LEMMA LabelsInitially == Init => LInv
<1> SUFFICES ASSUME Init PROVE LInv
  OBVIOUS
<1>1. \A x : x \notin DOMAIN << >>
  OBVIOUS
<1>2. \A label : EntriesOf(label) = {}
  BY DEF Init, EntriesOf, EntriesIn
<1> QED
  BY <1>1, <1>2 DEF Init, LInv, LabelsUsed, CallsReachDefinition

LEMMA LabelsKept == Inv /\ LInv /\ [Next]_vars => LInv'
<1> SUFFICES ASSUME Inv, LInv, [Next]_vars PROVE LInv'
  OBVIOUS
<1>1. CASE Next
  BY <1>1, PrototypeLabels, StartFunctionLabels, StatementLabels DEF Next
<1>2. CASE UNCHANGED vars
  <2>1. SameEntries(tac, tac')
    BY <1>2 DEF vars, SameEntries
  <2> QED
    BY <1>2, <2>1, OtherStep DEF vars, books, Inv
<1> QED
  BY <1>1, <1>2

(* A call of a function and its one entry use the same label, whether the  *)
(* function has a prototype or not.                                        *)
THEOREM CallsCorrect == Spec => []CallsReachDefinition
<1>1. LInv => CallsReachDefinition
  BY DEF LInv
<1> QED
  BY <1>1, LabelsInitially, LabelsKept, InvariantHolds, PTL DEF Spec

-----------------------------------------------------------------------------
(***************************************************************************)
(* The shape of the code.  The stack of open nodes holds what is still     *)
(* owed: a jump whose label is not in the code yet jumps to the exit of an *)
(* open node, and the label that a loop jumps back to is in the code since *)
(* its node was opened.                                                    *)
(***************************************************************************)

(* Line i belongs to the function that line e is the entry of.             *)
EntryOf(lines, e, i) ==
  /\ e <= i /\ lines[e].op = "ENTRY"
  /\ \A k \in e + 1 .. i : lines[k].op # "ENTRY"

Together(lines, i, j) ==
  \E e \in 1 .. Len(lines) : EntryOf(lines, e, i) /\ EntryOf(lines, e, j)

Declares(l, label) == l.op = "LABEL" /\ l.dest = label

(* The label is in the function of line i.                                 *)
Reachable(lines, i, label) ==
  \E j \in 1 .. Len(lines) : Declares(lines[j], label) /\ Together(lines, i, j)

-----------------------------------------------------------------------------
(* The shape of the lines so far, when jumps to the labels exits are to be *)
(* answered and jumps to the labels again may be to come.                  *)

Owned(lines) ==
  \A i \in 1 .. Len(lines) : \E e \in 1 .. Len(lines) : EntryOf(lines, e, i)

Labelled(lines) ==
  \A i \in 1 .. Len(lines) :
    StartsBlock(lines[i]) \/ IsJump(lines[i]) => lines[i].dest \in Labels

DeclaredOnce(lines) ==
  \A i, j \in 1 .. Len(lines) :
    StartsBlock(lines[i]) /\ IsDeclarationOf(lines[j], lines[i].dest) => i = j

Answered(lines, exits) ==
  \A i \in 1 .. Len(lines) :
    IsJump(lines[i]) =>
      \/ Reachable(lines, i, lines[i].dest)
      \/ lines[i].dest \in exits /\ Together(lines, i, Len(lines))

ComesAgain(lines, again) ==
  \A label \in again : Reachable(lines, Len(lines), label)

Undeclared(lines, labels) ==
  \A j \in 1 .. Len(lines), label \in labels : ~IsDeclarationOf(lines[j], label)

Continued(lines) ==
  \A i \in 1 .. Len(lines) - 1 :
    lines[i].op = "JUMPFALSE" => lines[i + 1].op # "ENTRY"

Shape(lines, exits, again) ==
  /\ Owned(lines) /\ Labelled(lines) /\ DeclaredOnce(lines) /\ Continued(lines)
  /\ Answered(lines, exits) /\ ComesAgain(lines, again) /\ Undeclared(lines, exits)

-----------------------------------------------------------------------------
(* What is owed by the open nodes.                                         *)

Exiting == {"then", "else", "body"}
Repeating == {"condition", "body"}

ExitsOf(stack) ==
  {stack[i].exit : i \in {k \in 1 .. Len(stack) : stack[k].kind \in Exiting}}

AgainOf(stack) ==
  {stack[i].again : i \in {k \in 1 .. Len(stack) : stack[k].kind \in Repeating}}

ExitsDiffer(stack) ==
  \A i, j \in 1 .. Len(stack) :
    /\ stack[i].kind \in Exiting /\ stack[j].kind \in Exiting
    /\ stack[i].exit = stack[j].exit
    => i = j

(* A conditional jump is followed by the body of its node.                 *)
BodyFollows ==
  tac.codeLines # <<>> /\ Last(tac.codeLines).op = "JUMPFALSE" =>
    open # <<>> /\ Here.kind \in {"then", "body"}

(* Labels of functions and of other places are different ones.             *)
LabelsApart ==
  /\ \A f \in DOMAIN functionMap :
       /\ functionMap[f] \notin ExitsOf(open)
       /\ \A j \in DOMAIN tac.codeLines : ~Declares(tac.codeLines[j], functionMap[f])
  /\ \A label \in ExitsOf(open) : label <= labelCount
  /\ \A j \in DOMAIN tac.codeLines :
       StartsBlock(tac.codeLines[j]) => tac.codeLines[j].dest <= labelCount

ShapeInv ==
  /\ open # <<>> => tac.codeLines # <<>>
  /\ Shape(tac.codeLines, ExitsOf(open), AgainOf(open))
  /\ ExitsDiffer(open) /\ BodyFollows /\ LabelsApart

-----------------------------------------------------------------------------
(* Returns.                                                                *)

OfFunction(lines, i, label) ==
  \E e \in 1 .. Len(lines) : EntryOf(lines, e, i) /\ lines[e].dest = label

(* What FunctionsReturn says of one function.                              *)
Returns(lines, label, returnType) ==
  /\ \E i \in 1 .. Len(lines) : OfFunction(lines, i, label) /\ lines[i].op = "RET"
  /\ \A i \in 1 .. Len(lines) :
       OfFunction(lines, i, label) =>
         /\ lines[i].op = "RET" => TypeOfReturn(lines[i]) = returnType
         /\ /\ returnType = "NONE"
            /\ i < Len(lines) => lines[i + 1].op = "ENTRY"
            => lines[i].op = "RET"

(* The function being converted is that of the last line.                  *)
CurrentFunction ==
  open # <<>> =>
    LET entry == open[1].codelines + 1
    IN /\ open[1].name \in DOMAIN defined
       /\ defined[open[1].name] = open[1].returnType
       /\ entry \in DOMAIN tac.codeLines
       /\ EntryOf(tac.codeLines, entry, Len(tac.codeLines))
       /\ tac.codeLines[entry].dest = functionMap[open[1].name]

FinishedReturn ==
  ~aborted =>
    \A f \in DOMAIN defined :
      open = <<>> \/ open[1].name # f =>
        Returns(tac.codeLines, functionMap[f], defined[f])

ReturnInv == CurrentFunction /\ FinishedReturn

(* Without prototypes the label of the function being converted is the     *)
(* current one, and the map knows no other labels than those of functions. *)
BooksKept ==
  prototyped = {} =>
    /\ DOMAIN functionMap \subseteq DOMAIN defined
    /\ open # <<>> => /\ open[1].name \in DOMAIN functionMap
                      /\ currentFunctionLabel = functionMap[open[1].name]
    /\ \A r \in explicitReturns : r[1] \in DOMAIN functionMap
    /\ \A label \in DOMAIN functionReturnMap :
         \E f \in DOMAIN functionMap : functionMap[f] = label

BookInv == ReturnsBooked /\ BooksKept

-----------------------------------------------------------------------------
(* What one more line does to the functions of the lines before it.        *)
LEMMA LongerLines ==
  ASSUME NEW lines \in Seq(Line), NEW l \in Line
  PROVE  LET longer == Append(lines, l)
             n == Len(lines)
         IN /\ n \in Nat /\ Len(longer) = n + 1 /\ longer[n + 1] = l
            /\ \A i \in 1 .. n : longer[i] = lines[i]
            /\ longer \in Seq(Line) /\ (lines # <<>> <=> n # 0)
OBVIOUS

LEMMA EntryKept ==
  ASSUME NEW lines \in Seq(Line), NEW l \in Line,
         NEW i \in 1 .. Len(lines), NEW e \in 1 .. Len(lines)
  PROVE  EntryOf(Append(lines, l), e, i) <=> EntryOf(lines, e, i)
<1> DEFINE longer == Append(lines, l)
<1>1. \A k \in 1 .. Len(lines) : longer[k] = lines[k]
  BY LongerLines
<1>2. \A k \in e + 1 .. i : k \in 1 .. Len(lines)
  OBVIOUS
<1> HIDE DEF longer
<1>3. EntryOf(longer, e, i) <=> EntryOf(lines, e, i)
  BY <1>1, <1>2 DEF EntryOf
<1> QED
  BY <1>3 DEF longer

LEMMA EntryExtended ==
  ASSUME NEW lines \in Seq(Line), NEW l \in Line, l.op # "ENTRY",
         NEW e \in 1 .. Len(lines), EntryOf(lines, e, Len(lines))
  PROVE  EntryOf(Append(lines, l), e, Len(lines) + 1)
<1> DEFINE longer == Append(lines, l)
           n == Len(lines)
<1>1. /\ n \in Nat /\ longer[n + 1] = l
      /\ \A k \in 1 .. n : longer[k] = lines[k]
  BY LongerLines
<1>2. \A k \in e + 1 .. n + 1 : (k \in e + 1 .. n /\ k \in 1 .. n) \/ k = n + 1
  BY <1>1
<1>3. e <= n + 1
  BY <1>1
<1> HIDE DEF longer, n
<1>4. EntryOf(longer, e, n + 1)
  BY <1>1, <1>2, <1>3 DEF EntryOf, n
<1> QED
  BY <1>4 DEF longer, n

LEMMA TogetherKept ==
  ASSUME NEW lines \in Seq(Line), NEW l \in Line,
         NEW i \in 1 .. Len(lines), NEW j \in 1 .. Len(lines), Together(lines, i, j)
  PROVE  Together(Append(lines, l), i, j)
<1>1. PICK e \in 1 .. Len(lines) : EntryOf(lines, e, i) /\ EntryOf(lines, e, j)
  BY DEF Together
<1>2. EntryOf(Append(lines, l), e, i) /\ EntryOf(Append(lines, l), e, j)
  BY <1>1, EntryKept
<1>3. e \in 1 .. Len(Append(lines, l))
  BY LongerLines
<1> QED
  BY <1>2, <1>3 DEF Together

LEMMA TogetherExtended ==
  ASSUME NEW lines \in Seq(Line), NEW l \in Line, l.op # "ENTRY",
         NEW i \in 1 .. Len(lines), Together(lines, i, Len(lines))
  PROVE  Together(Append(lines, l), i, Len(lines) + 1)
<1>1. PICK e \in 1 .. Len(lines) : EntryOf(lines, e, i) /\ EntryOf(lines, e, Len(lines))
  BY DEF Together
<1>2. /\ EntryOf(Append(lines, l), e, i)
      /\ EntryOf(Append(lines, l), e, Len(lines) + 1)
  BY <1>1, EntryKept, EntryExtended
<1>3. e \in 1 .. Len(Append(lines, l))
  BY LongerLines
<1> QED
  BY <1>2, <1>3 DEF Together

LEMMA OwnedAppend ==
  ASSUME NEW lines \in Seq(Line), NEW l \in Line, Owned(lines),
         lines # <<>> \/ l.op = "ENTRY"
  PROVE  /\ Owned(Append(lines, l))
         /\ Together(Append(lines, l), Len(lines) + 1, Len(lines) + 1)
<1> DEFINE longer == Append(lines, l)
           n == Len(lines)
<1>1. /\ n \in Nat /\ Len(longer) = n + 1 /\ longer[n + 1] = l
      /\ lines # <<>> <=> n # 0
      /\ 1 .. Len(longer) = (1 .. n) \cup {n + 1}
  BY LongerLines
<1>2. ASSUME NEW i \in 1 .. n
      PROVE  \E e \in 1 .. Len(longer) : EntryOf(longer, e, i)
  BY <1>1, EntryKept DEF Owned
<1>3. \E e \in 1 .. Len(longer) : EntryOf(longer, e, n + 1)
  <2>1. CASE l.op = "ENTRY"
    <3>1. EntryOf(longer, n + 1, n + 1)
      <4>1. (n + 1) + 1 .. n + 1 = {} /\ n + 1 <= n + 1
        BY <1>1
      <4> HIDE DEF longer, n
      <4> QED
        BY <1>1, <2>1, <4>1 DEF EntryOf
    <3> QED
      BY <1>1, <3>1
  <2>2. CASE l.op # "ENTRY"
    <3>1. n \in 1 .. n
      BY <1>1, <2>2
    <3>2. PICK e \in 1 .. n : EntryOf(lines, e, n)
      BY <3>1 DEF Owned
    <3>3. EntryOf(longer, e, n + 1)
      BY <2>2, <3>2, EntryExtended
    <3> QED
      BY <1>1, <3>3
  <2> QED
    BY <2>1, <2>2
<1> HIDE DEF longer, n
<1>4. Owned(longer) /\ Together(longer, n + 1, n + 1)
  BY <1>1, <1>2, <1>3 DEF Owned, Together
<1> QED
  BY <1>4 DEF longer, n

(* A label that a line reaches stays within its reach, and within that of  *)
(* the next line of the function.                                          *)
LEMMA ReachableKept ==
  ASSUME NEW lines \in Seq(Line), NEW l \in Line,
         NEW i \in 1 .. Len(lines), NEW label, Reachable(lines, i, label)
  PROVE  Reachable(Append(lines, l), i, label)
<1>1. PICK j \in 1 .. Len(lines) : Declares(lines[j], label) /\ Together(lines, i, j)
  BY DEF Reachable
<1>2. /\ Append(lines, l)[j] = lines[j] /\ j \in 1 .. Len(Append(lines, l))
      /\ Together(Append(lines, l), i, j)
  BY <1>1, LongerLines, TogetherKept
<1> QED
  BY <1>1, <1>2 DEF Reachable

LEMMA ReachableExtended ==
  ASSUME NEW lines \in Seq(Line), NEW l \in Line, l.op # "ENTRY", lines # <<>>,
         NEW label, Reachable(lines, Len(lines), label)
  PROVE  Reachable(Append(lines, l), Len(lines) + 1, label)
<1>1. PICK j \in 1 .. Len(lines) :
        Declares(lines[j], label) /\ Together(lines, Len(lines), j)
  BY DEF Reachable
<1>2. Together(lines, j, Len(lines))
  BY <1>1 DEF Together
<1>3. /\ Append(lines, l)[j] = lines[j] /\ j \in 1 .. Len(Append(lines, l))
      /\ Together(Append(lines, l), j, Len(lines) + 1)
  BY <1>2, LongerLines, TogetherExtended
<1>4. Together(Append(lines, l), Len(lines) + 1, j)
  BY <1>3 DEF Together
<1> QED
  BY <1>1, <1>3, <1>4 DEF Reachable

-----------------------------------------------------------------------------
(* The shape after another line.                                           *)

(* The parts of it that hold for each line or each two.                    *)
LEMMA LocalShape ==
  ASSUME NEW lines \in Seq(Line), NEW l \in Line,
         Owned(lines) /\ Labelled(lines) /\ DeclaredOnce(lines) /\ Continued(lines),
         lines # <<>> \/ l.op = "ENTRY",
         StartsBlock(l) \/ IsJump(l) => l.dest \in Labels,
         StartsBlock(l) => Undeclared(lines, {l.dest}),
         l.op = "ENTRY" /\ lines # <<>> => lines[Len(lines)].op # "JUMPFALSE"
  PROVE  LET longer == Append(lines, l)
         IN /\ Owned(longer) /\ Labelled(longer)
            /\ DeclaredOnce(longer) /\ Continued(longer)
<1> DEFINE longer == Append(lines, l)
           n == Len(lines)
<1>1. /\ n \in Nat /\ Len(longer) = n + 1 /\ longer[n + 1] = l
      /\ \A i \in 1 .. n : longer[i] = lines[i]
      /\ lines # <<>> <=> n # 0
      /\ 1 .. Len(longer) = (1 .. n) \cup {n + 1}
  BY LongerLines
<1>2. Owned(longer)
  BY OwnedAppend
<1> HIDE DEF longer, n
<1>3. Labelled(longer)
  BY <1>1 DEF Labelled, n
<1>4. DeclaredOnce(longer)
  <2>1. SUFFICES ASSUME NEW i \in 1 .. Len(longer), NEW j \in 1 .. Len(longer),
                        StartsBlock(longer[i]),
                        IsDeclarationOf(longer[j], longer[i].dest)
                 PROVE  i = j
    BY DEF DeclaredOnce
  <2>2. CASE i \in 1 .. n /\ j \in 1 .. n
    BY <1>1, <2>1, <2>2 DEF DeclaredOnce, n
  <2>3. CASE i = n + 1 /\ j \in 1 .. n
    BY <1>1, <2>1, <2>3 DEF Undeclared, n
  <2>4. CASE i \in 1 .. n /\ j = n + 1
    <3>1. StartsBlock(l) /\ l.dest = lines[i].dest /\ StartsBlock(lines[i])
      BY <1>1, <2>1, <2>4 DEF IsDeclarationOf, StartsBlock
    <3>2. IsDeclarationOf(lines[i], l.dest)
      BY <3>1 DEF IsDeclarationOf, StartsBlock
    <3> QED
      BY <2>4, <3>1, <3>2 DEF Undeclared, n
  <2> QED
    BY <1>1, <2>2, <2>3, <2>4
<1>5. Continued(longer)
  <2>1. SUFFICES ASSUME NEW i \in 1 .. n, longer[i].op = "JUMPFALSE"
                 PROVE  longer[i + 1].op # "ENTRY"
    BY <1>1 DEF Continued
  <2>2. CASE i = n
    BY <1>1, <2>1, <2>2 DEF n
  <2>3. CASE i # n
    <3>1. i \in 1 .. n - 1 /\ i + 1 \in 1 .. n
      BY <1>1, <2>3
    <3> QED
      BY <1>1, <2>1, <3>1 DEF Continued, n
  <2> QED
    BY <2>2, <2>3
<1> QED
  BY <1>2, <1>3, <1>4, <1>5 DEF longer

(* A line that is no label; a jump jumps to a label that is owed, or back. *)
LEMMA PlainShape ==
  ASSUME NEW lines \in Seq(Line), NEW l \in Line, lines # <<>>,
         ~StartsBlock(l), NEW exits \in SUBSET Labels, NEW again \in SUBSET Labels,
         IsJump(l) => l.dest \in exits \cup again, Shape(lines, exits, again)
  PROVE  Shape(Append(lines, l), exits, again)
<1> DEFINE longer == Append(lines, l)
           n == Len(lines)
<1>1. /\ n \in Nat \ {0} /\ Len(longer) = n + 1 /\ longer[n + 1] = l
      /\ \A i \in 1 .. n : longer[i] = lines[i]
      /\ 1 .. Len(longer) = (1 .. n) \cup {n + 1}
  BY LongerLines
<1>2. l.op # "ENTRY" /\ \A label : ~IsDeclarationOf(l, label)
  BY DEF StartsBlock, IsDeclarationOf
<1>3. Owned(longer) /\ Labelled(longer) /\ DeclaredOnce(longer) /\ Continued(longer)
  BY <1>2, LocalShape DEF Shape
<1>4. Together(longer, n + 1, n + 1)
  BY OwnedAppend DEF Shape
<1>5. \A i \in 1 .. n : Together(lines, i, n) => Together(longer, i, n + 1)
  BY <1>2, TogetherExtended
<1>6. \A i \in 1 .. n : \A label :
        Reachable(lines, i, label) => Reachable(longer, i, label)
  BY ReachableKept
<1>7. \A label : Reachable(lines, n, label) => Reachable(longer, n + 1, label)
  BY <1>2, ReachableExtended
<1> HIDE DEF longer, n
<1>8. ComesAgain(longer, again)
  BY <1>1, <1>7 DEF Shape, ComesAgain, n
<1>9. Answered(longer, exits)
  <2>1. ASSUME NEW i \in 1 .. n, IsJump(longer[i])
        PROVE  \/ Reachable(longer, i, longer[i].dest)
               \/ longer[i].dest \in exits /\ Together(longer, i, n + 1)
    BY <1>1, <1>5, <1>6, <2>1 DEF Shape, Answered, n
  <2>2. ASSUME IsJump(l)
        PROVE  \/ Reachable(longer, n + 1, l.dest)
               \/ l.dest \in exits /\ Together(longer, n + 1, n + 1)
    BY <1>1, <1>4, <1>8, <2>2 DEF ComesAgain
  <2> QED
    BY <1>1, <2>1, <2>2 DEF Answered
<1>10. Undeclared(longer, exits)
  BY <1>1, <1>2 DEF Shape, Undeclared, n
<1> QED
  BY <1>3, <1>8, <1>9, <1>10 DEF Shape, longer

(* A label answers the jumps to it, and may be jumped back to.             *)
LEMMA LabelShape ==
  ASSUME NEW lines \in Seq(Line), NEW l \in Line, lines # <<>>,
         l.op = "LABEL", l.dest \in Labels, Undeclared(lines, {l.dest}),
         NEW exits \in SUBSET Labels, NEW again \in SUBSET Labels,
         Shape(lines, exits, again)
  PROVE  Shape(Append(lines, l), exits \ {l.dest}, again \cup {l.dest})
<1> DEFINE longer == Append(lines, l)
           n == Len(lines)
<1>1. /\ n \in Nat \ {0} /\ Len(longer) = n + 1 /\ longer[n + 1] = l
      /\ \A i \in 1 .. n : longer[i] = lines[i]
      /\ 1 .. Len(longer) = (1 .. n) \cup {n + 1}
  BY LongerLines
<1>2. l.op # "ENTRY" /\ ~IsJump(l)
  BY DEF IsJump
<1>3. Owned(longer) /\ Labelled(longer) /\ DeclaredOnce(longer) /\ Continued(longer)
  BY <1>2, LocalShape DEF Shape
<1>4. Together(longer, n + 1, n + 1)
  BY OwnedAppend DEF Shape
<1>5. \A i \in 1 .. n : Together(lines, i, n) => Together(longer, i, n + 1)
  BY <1>2, TogetherExtended
<1>6. \A i \in 1 .. n : \A label :
        Reachable(lines, i, label) => Reachable(longer, i, label)
  BY ReachableKept
<1>7. \A label : Reachable(lines, n, label) => Reachable(longer, n + 1, label)
  BY <1>2, ReachableExtended
<1> HIDE DEF longer, n
<1>8. Declares(longer[n + 1], l.dest)
  BY <1>1 DEF Declares
<1>9. ComesAgain(longer, again \cup {l.dest})
  BY <1>1, <1>4, <1>7, <1>8 DEF Shape, ComesAgain, Reachable, n
<1>10. Answered(longer, exits \ {l.dest})
  <2>1. ASSUME NEW i \in 1 .. n, IsJump(longer[i])
        PROVE  \/ Reachable(longer, i, longer[i].dest)
               \/ longer[i].dest \in exits \ {l.dest} /\ Together(longer, i, n + 1)
    <3>1. \/ Reachable(longer, i, longer[i].dest)
          \/ longer[i].dest \in exits /\ Together(longer, i, n + 1)
      BY <1>1, <1>5, <1>6, <2>1 DEF Shape, Answered, n
    <3>2. Together(longer, i, n + 1) /\ longer[i].dest = l.dest =>
            Reachable(longer, i, longer[i].dest)
      BY <1>1, <1>8 DEF Reachable
    <3> QED
      BY <3>1, <3>2
  <2> QED
    BY <1>1, <1>2, <2>1 DEF Answered
<1>11. Undeclared(longer, exits \ {l.dest})
  BY <1>1 DEF Shape, Undeclared, IsDeclarationOf, n
<1> QED
  BY <1>3, <1>9, <1>10, <1>11 DEF Shape, longer

(* The entry of the next function, when nothing is owed.                   *)
LEMMA EntryShape ==
  ASSUME NEW lines \in Seq(Line), NEW l \in Line,
         l.op = "ENTRY", l.dest \in Labels, Undeclared(lines, {l.dest}),
         lines # <<>> => lines[Len(lines)].op # "JUMPFALSE",
         Shape(lines, {}, {})
  PROVE  Shape(Append(lines, l), {}, {})
<1> DEFINE longer == Append(lines, l)
           n == Len(lines)
<1>1. /\ n \in Nat /\ Len(longer) = n + 1 /\ longer[n + 1] = l
      /\ \A i \in 1 .. n : longer[i] = lines[i]
      /\ 1 .. Len(longer) = (1 .. n) \cup {n + 1}
  BY LongerLines
<1>2. ~IsJump(l)
  BY DEF IsJump
<1>3. Owned(longer) /\ Labelled(longer) /\ DeclaredOnce(longer) /\ Continued(longer)
  BY LocalShape DEF Shape
<1>4. \A i \in 1 .. n : \A label :
        Reachable(lines, i, label) => Reachable(longer, i, label)
  BY ReachableKept
<1> HIDE DEF longer, n
<1>5. Answered(longer, {})
  BY <1>1, <1>2, <1>4 DEF Shape, Answered, n
<1> QED
  BY <1>3, <1>5 DEF Shape, ComesAgain, Undeclared, longer

LEMMA MoreExits ==
  ASSUME NEW lines, NEW exits, NEW again, NEW label,
         Shape(lines, exits, again), Undeclared(lines, {label})
  PROVE  Shape(lines, exits \cup {label}, again)
BY DEF Shape, Answered, Undeclared

LEMMA FewerAgain ==
  ASSUME NEW lines, NEW exits, NEW again, NEW fewer \in SUBSET again,
         Shape(lines, exits, again)
  PROVE  Shape(lines, exits, fewer)
BY DEF Shape, ComesAgain

-----------------------------------------------------------------------------
(* What a node adds to what is owed.                                       *)

ExitOf(node) == {label \in Labels : node.kind \in Exiting /\ node.exit = label}
BackOf(node) == {label \in Labels : node.kind \in Repeating /\ node.again = label}

LEMMA OwedLabels ==
  ASSUME NEW stack \in Seq(Node)
  PROVE  /\ ExitsOf(stack) \subseteq Labels /\ AgainOf(stack) \subseteq Labels
         /\ \A i \in 1 .. Len(stack) :
              /\ ExitOf(stack[i]) \subseteq ExitsOf(stack)
              /\ BackOf(stack[i]) \subseteq AgainOf(stack)
<1>1. \A i \in 1 .. Len(stack) :
        /\ stack[i].kind \in Exiting => stack[i].exit \in Labels
        /\ stack[i].kind \in Repeating => stack[i].again \in Labels
  BY NodeParts DEF Exiting, Repeating
<1> QED
  BY <1>1 DEF ExitsOf, AgainOf, ExitOf, BackOf

LEMMA Owing ==
  ASSUME NEW stack \in Seq(Node), NEW node \in Node
  PROVE  LET higher == Append(stack, node)
         IN /\ ExitsOf(higher) = ExitsOf(stack) \cup ExitOf(node)
            /\ AgainOf(higher) = AgainOf(stack) \cup BackOf(node)
            /\ ExitsDiffer(higher) <=>
                 ExitsDiffer(stack) /\ ExitsOf(stack) \cap ExitOf(node) = {}
<1> DEFINE higher == Append(stack, node)
           n == Len(stack)
<1>1. /\ n \in Nat /\ Len(higher) = n + 1 /\ higher[n + 1] = node
      /\ \A i \in 1 .. n : higher[i] = stack[i]
      /\ 1 .. n + 1 = (1 .. n) \cup {n + 1} /\ n + 1 \notin 1 .. n
  OBVIOUS
<1>2. /\ node.kind \in Exiting => node.exit \in Labels
      /\ node.kind \in Repeating => node.again \in Labels
  BY NodeParts DEF Exiting, Repeating
<1> HIDE DEF higher
<1>3. {k \in 1 .. Len(higher) : higher[k].kind \in Exiting}
        = {k \in 1 .. n : stack[k].kind \in Exiting} \cup
          {k \in {n + 1} : node.kind \in Exiting}
  BY <1>1
<1>4. {k \in 1 .. Len(higher) : higher[k].kind \in Repeating}
        = {k \in 1 .. n : stack[k].kind \in Repeating} \cup
          {k \in {n + 1} : node.kind \in Repeating}
  BY <1>1
<1> HIDE DEF n
<1>5. ExitsOf(higher) = ExitsOf(stack) \cup ExitOf(node)
  BY <1>1, <1>2, <1>3 DEF ExitsOf, ExitOf, n
<1>6. AgainOf(higher) = AgainOf(stack) \cup BackOf(node)
  BY <1>1, <1>2, <1>4 DEF AgainOf, BackOf, n
<1>7. ExitsDiffer(higher) <=>
        ExitsDiffer(stack) /\ ExitsOf(stack) \cap ExitOf(node) = {}
  <2>1. ExitsOf(stack) \cap ExitOf(node) = {} <=>
          \A i \in 1 .. n : ~(/\ stack[i].kind \in Exiting /\ node.kind \in Exiting
                              /\ stack[i].exit = node.exit)
    BY <1>2 DEF ExitsOf, ExitOf, n
  <2> QED
    BY <1>1, <2>1 DEF ExitsDiffer, n
<1> QED
  BY <1>5, <1>6, <1>7 DEF higher

(* The stack above its front.                                              *)
LEMMA TopOf ==
  ASSUME StackOK, open # <<>>
  PROVE  LET front == Front(open)
         IN /\ front \in Seq(Node) /\ Len(front) = Len(open) - 1
            /\ Here \in Node
            /\ ExitsOf(open) = ExitsOf(front) \cup ExitOf(Here)
            /\ AgainOf(open) = AgainOf(front) \cup BackOf(Here)
            /\ ExitsDiffer(open) =>
                 ExitsDiffer(front) /\ ExitsOf(front) \cap ExitOf(Here) = {}
<1> DEFINE n == Len(open)
           front == SubSeq(open, 1, n - 1)
<1>1. /\ open \in Seq(Node) /\ n \in Nat \ {0} /\ Front(open) = front
      /\ Here = open[n] /\ Here \in Node
  <2>1. open \in Seq(Node) /\ n \in Nat \ {0} /\ n \in 1 .. Len(open)
    BY DEF StackOK
  <2> QED
    BY <2>1 DEF Front, Here, Last
<1>2. /\ front \in Seq(Node) /\ Len(front) = n - 1
      /\ \A i \in 1 .. n - 1 : front[i] = open[i]
  BY <1>1, FrontOf
<1> HIDE DEF front
<1>3. open = Append(front, Here)
  BY <1>1, <1>2
<1> QED
  BY <1>1, <1>2, <1>3, Owing

(* At the end of a function nothing is owed.                               *)
LEMMA OutermostOwes ==
  ASSUME StackOK, Inside({"function"})
  PROVE  /\ Len(open) = 1 /\ Here = open[1]
         /\ ExitsOf(open) = {} /\ AgainOf(open) = {}
<1>1. open # <<>> /\ Here.kind = "function" /\ Here = open[Len(open)]
  BY HereIsNode
<1>2. Len(open) = 1
  <2>1. Len(open) \in 1 .. Len(open)
    BY <1>1 DEF StackOK
  <2> QED
    BY <1>1, <2>1 DEF StackOK, Nested
<1>3. \A i \in 1 .. Len(open) : open[i].kind \notin Exiting \cup Repeating
  BY <1>1, <1>2 DEF Exiting, Repeating
<1> QED
  BY <1>1, <1>2, <1>3 DEF ExitsOf, AgainOf

LEMMA NothingOwed ==
  ExitsOf(<<>>) = {} /\ AgainOf(<<>>) = {} /\ ExitsDiffer(<<>>)
BY DEF ExitsOf, AgainOf, ExitsDiffer

-----------------------------------------------------------------------------
(* The lines that the patterns of the converters add.                      *)

LineOf(l, op, operand, label) ==
  l \in Line /\ l.op = op /\ l.arg1 = operand /\ l.dest = label

LEMMA LineAdded ==
  ASSUME NEW t \in TacState, NEW op \in Ops, NEW operand \in Vars \cup {NoVar},
         NEW label \in Labels \cup {NoLabel}
  PROVE  LET u == addLineWith(t, op, operand, label)
         IN /\ u \in TacState
            /\ \E l : /\ LineOf(l, op, operand, label)
                      /\ u.codeLines = Append(t.codeLines, l)
                      /\ nextBasicBlock(u).codeLines = Append(t.codeLines, l)
<1> DEFINE u == addLineWith(t, op, operand, label)
           l == LineFor(op, operand, label, t.currentBasicBlock)
<1>1. u \in TacState /\ u.codeLines = Append(t.codeLines, l)
  BY AddedLine
<1>2. nextBasicBlock(u).codeLines = u.codeLines
  BY <1>1, NextEntries
<1>3. LineOf(l, op, operand, label)
  <2>1. t.currentBasicBlock \in Nat
    BY DEF TacState
  <2>2. l \in Line
    BY <2>1, LineIsTyped
  <2> QED
    BY <2>2 DEF LineFor, LineOf
<1> HIDE DEF u, l
<1> QED
  BY <1>1, <1>2, <1>3 DEF u

LEMMA LabelAdded ==
  ASSUME NEW t \in TacState, NEW op \in {"LABEL", "ENTRY"}, NEW label \in Labels
  PROVE  \E l : /\ LineOf(l, op, NoVar, label)
                /\ addFirst(t, op, label).codeLines = Append(t.codeLines, l)
<1> DEFINE s == nextBasicBlock(t)
<1>1. s \in TacState /\ s.codeLines = t.codeLines
  BY NextEntries
<1>2. op \in Ops
  BY DEF Ops
<1> HIDE DEF s
<1>3. \E l : /\ LineOf(l, op, NoVar, label)
             /\ addLineWith(s, op, NoVar, label).codeLines = Append(s.codeLines, l)
  BY <1>1, <1>2, LineAdded
<1> QED
  BY <1>1, <1>3 DEF addFirst, addLine, s

LEMMA JumpAndLabelAdded ==
  ASSUME NEW t \in TacState, NEW a \in Labels, NEW b \in Labels
  PROVE  \E j, l : /\ LineOf(j, "JUMP", NoVar, a) /\ LineOf(l, "LABEL", NoVar, b)
                   /\ addFirst(addLine(t, "JUMP", a), "LABEL", b).codeLines
                        = Append(Append(t.codeLines, j), l)
<1> DEFINE s == addLine(t, "JUMP", a)
<1>1. /\ s \in TacState
      /\ \E j : LineOf(j, "JUMP", NoVar, a) /\ s.codeLines = Append(t.codeLines, j)
  BY LineAdded DEF addLine, Ops
<1> HIDE DEF s
<1>2. \E l : /\ LineOf(l, "LABEL", NoVar, b)
             /\ addFirst(s, "LABEL", b).codeLines = Append(s.codeLines, l)
  BY <1>1, LabelAdded
<1> QED
  BY <1>1, <1>2 DEF s

-----------------------------------------------------------------------------
(* Labels of branches stay apart from those of functions.                  *)

SInv == Inv /\ LInv /\ ShapeInv

(* The labels made by a step.                                              *)
Made == labelCount + 1 .. labelCount'

(* A step adds labels only for exits of open nodes and new labels.         *)
Grows(lines, longer, labels) ==
  \A j \in DOMAIN longer :
    \/ j \in DOMAIN lines /\ longer[j] = lines[j]
    \/ ~StartsBlock(longer[j])
    \/ longer[j].op = "LABEL" /\ longer[j].dest \in labels

LEMMA GrowsByOne ==
  ASSUME NEW lines \in Seq(Line), NEW l \in Line, NEW labels,
         ~StartsBlock(l) \/ (l.op = "LABEL" /\ l.dest \in labels)
  PROVE  Grows(lines, Append(lines, l), labels)
<1> DEFINE longer == Append(lines, l)
           n == Len(lines)
<1>1. /\ n \in Nat /\ longer[n + 1] = l /\ DOMAIN lines = 1 .. n
      /\ \A i \in 1 .. n : longer[i] = lines[i]
      /\ DOMAIN longer = (1 .. n) \cup {n + 1}
  BY LongerLines
<1> HIDE DEF longer, n
<1>2. Grows(lines, longer, labels)
  BY <1>1 DEF Grows
<1> QED
  BY <1>2 DEF longer

LEMMA GrowsByTwo ==
  ASSUME NEW lines \in Seq(Line), NEW jump \in Line, NEW l \in Line, NEW labels,
         ~StartsBlock(jump), l.op = "LABEL", l.dest \in labels
  PROVE  Grows(lines, Append(Append(lines, jump), l), labels)
<1>1. Append(lines, jump) \in Seq(Line)
  BY LongerLines
<1>2. Grows(lines, Append(lines, jump), labels)
  BY GrowsByOne
<1>3. Grows(Append(lines, jump), Append(Append(lines, jump), l), labels)
  BY <1>1, GrowsByOne
<1> QED
  BY <1>2, <1>3 DEF Grows

LEMMA ApartKept ==
  ASSUME SInv, functionMap' = functionMap,
         labelCount' = labelCount \/ labelCount' = labelCount + 1,
         Grows(tac.codeLines, tac'.codeLines, ExitsOf(open) \cup Made),
         ExitsOf(open') \subseteq ExitsOf(open) \cup Made
  PROVE  LabelsApart'
<1>1. /\ labelCount \in Nat /\ labelCount' \in Nat /\ labelCount <= labelCount'
      /\ Labels \subseteq Nat /\ ExitsOf(open) \subseteq Labels
      /\ \A label \in Made : label \in Nat /\ label <= labelCount' /\ ~(label <= labelCount)
      /\ \A label \in Labels : label <= labelCount => label <= labelCount'
  <2>1. labelCount \in Nat /\ Labels \subseteq Nat /\ ExitsOf(open) \subseteq Labels
    BY LabelsAssumption, OwedLabels DEF SInv, Inv, MapsOK, StackOK
  <2>2. labelCount' \in Nat /\ labelCount <= labelCount'
    BY <2>1
  <2>3. \A label \in Labels : label <= labelCount => label <= labelCount'
    BY <2>1, <2>2
  <2>4. \A label \in Made : label \in Nat /\ label <= labelCount' /\ ~(label <= labelCount)
    BY <2>1, <2>2 DEF Made
  <2> QED
    BY <2>1, <2>2, <2>3, <2>4
<1>2. /\ \A f \in DOMAIN functionMap : functionMap[f] \notin ExitsOf(open) \cup Made
      /\ \A f \in DOMAIN functionMap : functionMap[f] \notin ExitsOf(open')
  BY <1>1 DEF SInv, ShapeInv, LabelsApart, LInv, LabelsUsed
<1>3. \A label \in ExitsOf(open) \cup Made : label <= labelCount'
  BY <1>1 DEF SInv, ShapeInv, LabelsApart
<1>4. \A f \in DOMAIN functionMap, j \in DOMAIN tac'.codeLines :
        ~Declares(tac'.codeLines[j], functionMap[f])
  BY <1>2 DEF SInv, ShapeInv, LabelsApart, Grows, Declares, StartsBlock
<1>5. ASSUME NEW j \in DOMAIN tac'.codeLines, StartsBlock(tac'.codeLines[j])
      PROVE  tac'.codeLines[j].dest <= labelCount'
  <2>1. CASE j \in DOMAIN tac.codeLines /\ tac'.codeLines[j] = tac.codeLines[j]
    <3>1. tac.codeLines[j].dest <= labelCount /\ tac.codeLines[j].dest \in Labels
      <4>1. j \in 1 .. Len(tac.codeLines)
        BY <2>1 DEF SInv, Inv, TacState
      <4> QED
        BY <1>5, <2>1, <4>1 DEF SInv, ShapeInv, LabelsApart, Shape, Labelled
    <3> QED
      BY <1>1, <2>1, <3>1
  <2>2. CASE tac'.codeLines[j].dest \in ExitsOf(open) \cup Made
    BY <1>3, <2>2
  <2> QED
    BY <1>5, <2>1, <2>2 DEF Grows
<1> QED
  BY <1>2, <1>3, <1>4, <1>5 DEF LabelsApart

(* A new label is declared nowhere and owed by no node; an exit that is    *)
(* owed is declared nowhere.                                               *)
LEMMA NewIsUndeclared ==
  ASSUME SInv
  PROVE  /\ Undeclared(tac.codeLines, {labelCount + 1})
         /\ labelCount + 1 \notin ExitsOf(open)
         /\ \A label \in ExitsOf(open) : Undeclared(tac.codeLines, {label})
         /\ ExitsOf(open) \subseteq Labels /\ AgainOf(open) \subseteq Labels
         /\ tac \in TacState /\ tac.codeLines \in Seq(Line)
<1>1. labelCount \in Nat /\ Labels \subseteq Nat
  BY LabelsAssumption DEF SInv, Inv, MapsOK
<1>2. ExitsOf(open) \subseteq Labels /\ AgainOf(open) \subseteq Labels
  BY OwedLabels DEF SInv, Inv, StackOK
<1>3. tac \in TacState /\ tac.codeLines \in Seq(Line)
      /\ DOMAIN tac.codeLines = 1 .. Len(tac.codeLines)
  BY DEF SInv, Inv, TacState
<1>4. \A j \in 1 .. Len(tac.codeLines) :
        StartsBlock(tac.codeLines[j]) => tac.codeLines[j].dest # labelCount + 1
  BY <1>1, <1>3 DEF SInv, ShapeInv, LabelsApart
<1>5. Undeclared(tac.codeLines, {labelCount + 1})
  BY <1>4 DEF Undeclared, IsDeclarationOf, StartsBlock
<1>6. labelCount + 1 \notin ExitsOf(open)
  BY <1>1, <1>2 DEF SInv, ShapeInv, LabelsApart
<1>7. \A label \in ExitsOf(open) : Undeclared(tac.codeLines, {label})
  BY DEF SInv, ShapeInv, Shape, Undeclared
<1> QED
  BY <1>2, <1>3, <1>5, <1>6, <1>7

-----------------------------------------------------------------------------
(* Every step keeps the shape.                                             *)

LEMMA PrototypeShape ==
  ASSUME SInv, NEW f \in Funs, convertFunctionPrototype(f)
  PROVE  ShapeInv'
<1> DEFINE new == labelCount + 1
<1>1. /\ tac' = tac /\ open' = open /\ open = <<>> /\ labelCount' = new
      /\ DOMAIN functionMap' = DOMAIN functionMap \cup {f}
      /\ functionMap'[f] = new
      /\ \A g \in DOMAIN functionMap : functionMap'[g] = functionMap[g]
  BY DEF convertFunctionPrototype, addFunction
<1>2. /\ labelCount \in Nat /\ Labels \subseteq Nat
      /\ DOMAIN tac.codeLines = 1 .. Len(tac.codeLines)
  BY LabelsAssumption DEF SInv, Inv, MapsOK, TacState
<1>3. \A j \in DOMAIN tac.codeLines : ~Declares(tac.codeLines[j], new)
  BY <1>2, NewIsUndeclared DEF Undeclared, Declares, IsDeclarationOf
<1>4. \A j \in DOMAIN tac.codeLines :
        StartsBlock(tac.codeLines[j]) => tac.codeLines[j].dest <= new
  <2>1. \A label \in Labels : label <= labelCount => label <= new
    BY <1>2
  <2> QED
    BY <1>2, <2>1 DEF SInv, ShapeInv, LabelsApart, Shape, Labelled
<1>5. ExitsOf(open) = {}
  BY <1>1, NothingOwed
<1> HIDE DEF new
<1>6. LabelsApart'
  BY <1>1, <1>3, <1>4, <1>5 DEF SInv, ShapeInv, LabelsApart
<1>7. BodyFollows'
  BY <1>1 DEF SInv, ShapeInv, BodyFollows
<1> QED
  BY <1>1, <1>6, <1>7 DEF SInv, ShapeInv

LEMMA StartFunctionShape ==
  ASSUME SInv, NEW f \in Funs, NEW returnType \in {"NONE", "INT"},
         startFunction(f, returnType)
  PROVE  ShapeInv'
<1> DEFINE new == labelCount + 1
           label == IF LooksUp(f) THEN functionMap[f] ELSE new
           node == [kind |-> "function", name |-> f, returnType |-> returnType,
                    codelines |-> Len(tac.codeLines)]
           lines == tac.codeLines
<1>1. /\ label \in Labels /\ open = <<>> /\ open' = Append(open, node)
      /\ tac' = addFirst(tac, "ENTRY", label)
  BY DEF startFunction, Enter
<1>2. /\ labelCount \in Nat /\ Labels \subseteq Nat /\ lines \in Seq(Line)
      /\ tac \in TacState /\ DOMAIN lines = 1 .. Len(lines) /\ Len(lines) \in Nat
  BY LabelsAssumption DEF SInv, Inv, MapsOK, TacState
<1>3. /\ DOMAIN functionMap' = DOMAIN functionMap \cup {f}
      /\ functionMap'[f] = label
      /\ \A g \in DOMAIN functionMap : functionMap'[g] = functionMap[g]
      /\ labelCount' = IF LooksUp(f) THEN labelCount ELSE new
  <2>1. CASE LooksUp(f)
    BY <2>1 DEF startFunction, books, LooksUp
  <2>2. CASE ~LooksUp(f)
    BY <2>2 DEF startFunction, addFunction, LooksUp
  <2> QED
    BY <2>1, <2>2
<1>4. label <= labelCount' /\ labelCount <= labelCount' /\ labelCount' \in Nat
  <2>1. CASE LooksUp(f)
    BY <1>2, <1>3, <2>1 DEF LooksUp, SInv, LInv, LabelsUsed
  <2>2. CASE ~LooksUp(f)
    BY <1>2, <1>3, <2>2
  <2> QED
    BY <2>1, <2>2
<1>5. Undeclared(lines, {label})
  <2>1. CASE LooksUp(f)
    <3>1. EntriesOf(label) = {}
      BY <2>1 DEF LooksUp, SInv, LInv, CallsReachDefinition, startFunction
    <3>2. \A j \in 1 .. Len(lines) : ~Declares(lines[j], label)
      BY <1>2, <2>1 DEF LooksUp, SInv, ShapeInv, LabelsApart
    <3> QED
      BY <3>1, <3>2 DEF EntriesOf, EntriesIn, Undeclared, IsDeclarationOf, Declares
  <2>2. CASE ~LooksUp(f)
    BY <2>2, NewIsUndeclared
  <2> QED
    BY <2>1, <2>2
<1> HIDE DEF label, lines
<1>6. PICK l : LineOf(l, "ENTRY", NoVar, label) /\ tac'.codeLines = Append(lines, l)
  BY <1>1, <1>2, LabelAdded DEF lines
<1>7. lines # <<>> => lines[Len(lines)].op # "JUMPFALSE"
  BY <1>1 DEF SInv, ShapeInv, BodyFollows, Last, lines
<1>8. ExitsOf(open') = {} /\ AgainOf(open') = {} /\ ExitsDiffer(open')
  <2>1. node \in Node /\ node.kind = "function" /\ open \in Seq(Node)
    BY <1>2 DEF Node, SInv, Inv, StackOK, lines
  <2> HIDE DEF node
  <2>2. ExitOf(node) = {} /\ BackOf(node) = {}
    BY <2>1 DEF ExitOf, BackOf, Exiting, Repeating
  <2>3. /\ ExitsOf(open') = ExitsOf(open) \cup ExitOf(node)
        /\ AgainOf(open') = AgainOf(open) \cup BackOf(node)
        /\ ExitsDiffer(open') <=>
             ExitsDiffer(open) /\ ExitsOf(open) \cap ExitOf(node) = {}
    BY <1>1, <2>1, Owing
  <2> QED
    BY <1>1, <2>2, <2>3, NothingOwed
<1>9. Shape(tac'.codeLines, {}, {})
  BY <1>1, <1>2, <1>5, <1>6, <1>7, NothingOwed, EntryShape
     DEF LineOf, SInv, ShapeInv, lines
<1>10. /\ Len(tac'.codeLines) = Len(lines) + 1 /\ tac'.codeLines # <<>>
       /\ tac'.codeLines[Len(lines) + 1] = l
       /\ DOMAIN tac'.codeLines = (1 .. Len(lines)) \cup {Len(lines) + 1}
       /\ \A j \in 1 .. Len(lines) : tac'.codeLines[j] = lines[j]
  BY <1>2, <1>6, LongerLines DEF LineOf
<1>11. LabelsApart'
  <2>1. \A j \in 1 .. Len(lines) : StartsBlock(lines[j]) =>
          lines[j].dest \in Labels /\ lines[j].dest <= labelCount
    BY <1>2 DEF SInv, ShapeInv, LabelsApart, Shape, Labelled, lines
  <2>6. \A other \in Labels : other <= labelCount => other <= labelCount'
    BY <1>2, <1>4
  <2>2. \A j \in DOMAIN tac'.codeLines :
          StartsBlock(tac'.codeLines[j]) => tac'.codeLines[j].dest <= labelCount'
    BY <1>4, <1>6, <1>10, <2>1, <2>6 DEF LineOf
  <2>3. \A j \in 1 .. Len(lines) : ~Declares(lines[j], label)
    BY <1>5 DEF Undeclared, Declares, IsDeclarationOf
  <2>4. \A g \in DOMAIN functionMap', j \in 1 .. Len(lines) :
          ~Declares(lines[j], functionMap'[g])
    BY <1>2, <1>3, <2>3 DEF SInv, ShapeInv, LabelsApart, lines
  <2>5. \A g \in DOMAIN functionMap', j \in DOMAIN tac'.codeLines :
          ~Declares(tac'.codeLines[j], functionMap'[g])
    BY <1>6, <1>10, <2>4 DEF LineOf, Declares
  <2> QED
    BY <1>8, <2>2, <2>5 DEF LabelsApart
<1>12. BodyFollows'
  BY <1>6, <1>10 DEF BodyFollows, Last, LineOf
<1> QED
  BY <1>8, <1>9, <1>10, <1>11, <1>12 DEF ShapeInv

LEMMA AddedHere ==
  ASSUME SInv, NEW op \in {"ASSIGN", "CALL", "RET", "JUMPFALSE"},
         NEW operand \in Vars \cup {NoVar}, NEW label \in Labels \cup {NoLabel},
         \/ tac' = addLineWith(tac, op, operand, label)
         \/ tac' = nextBasicBlock(addLineWith(tac, op, operand, label))
  PROVE  \E l : /\ LineOf(l, op, operand, label)
                /\ tac'.codeLines = Append(tac.codeLines, l)
<1>1. op \in Ops /\ tac \in TacState
  BY NewIsUndeclared DEF Ops
<1>2. PICK l : /\ LineOf(l, op, operand, label)
               /\ addLineWith(tac, op, operand, label).codeLines
                    = Append(tac.codeLines, l)
               /\ nextBasicBlock(addLineWith(tac, op, operand, label)).codeLines
                    = Append(tac.codeLines, l)
  BY <1>1, LineAdded
<1> QED
  BY <1>2

(* A line without label or jump, within a node that stays open.            *)
LEMMA SimpleLineShape ==
  ASSUME SInv, open # <<>>, NEW l \in Line, ~StartsBlock(l), ~IsJump(l),
         tac'.codeLines = Append(tac.codeLines, l),
         open' = open, functionMap' = functionMap, labelCount' = labelCount
  PROVE  ShapeInv'
<1> DEFINE lines == tac.codeLines
<1>1. /\ lines \in Seq(Line) /\ lines # <<>>
      /\ ExitsOf(open) \subseteq Labels /\ AgainOf(open) \subseteq Labels
      /\ Shape(lines, ExitsOf(open), AgainOf(open)) /\ ExitsDiffer(open)
  BY NewIsUndeclared DEF SInv, ShapeInv
<1> HIDE DEF lines
<1>2. Shape(Append(lines, l), ExitsOf(open), AgainOf(open))
  BY <1>1, PlainShape
<1>3. Grows(lines, Append(lines, l), ExitsOf(open) \cup Made)
  BY <1>1, GrowsByOne
<1>4. LabelsApart'
  BY <1>3, ApartKept DEF lines
<1>5. /\ tac'.codeLines # <<>> /\ Last(tac'.codeLines) = l
  BY <1>1, LongerLines DEF Last, lines
<1>6. BodyFollows'
  BY <1>5 DEF BodyFollows, IsJump
<1> QED
  BY <1>1, <1>2, <1>4, <1>5, <1>6 DEF ShapeInv, lines

LEMMA PlainLineShape ==
  ASSUME SInv, plainLine
  PROVE  ShapeInv'
<1>1. /\ open # <<>> /\ tac' = addLineWith(tac, "ASSIGN", NoVar, NoLabel)
      /\ open' = open /\ functionMap' = functionMap /\ labelCount' = labelCount
  BY HereIsNode DEF plainLine, SInv, Inv, addLine, books
<1>2. PICK l : /\ LineOf(l, "ASSIGN", NoVar, NoLabel)
               /\ tac'.codeLines = Append(tac.codeLines, l)
  BY <1>1, AddedHere
<1>3. l \in Line /\ ~StartsBlock(l) /\ ~IsJump(l)
  BY <1>2 DEF LineOf, StartsBlock, IsJump
<1> QED
  BY <1>1, <1>2, <1>3, SimpleLineShape

LEMMA CallShape ==
  ASSUME SInv, NEW f \in Funs, convertfunctionCallExpr(f)
  PROVE  ShapeInv'
<1>1. /\ open # <<>> /\ functionMap[f] \in Labels
      /\ tac' = nextBasicBlock(addLineWith(tac, "CALL", NoVar, functionMap[f]))
      /\ open' = open /\ functionMap' = functionMap /\ labelCount' = labelCount
  BY HereIsNode DEF convertfunctionCallExpr, SInv, Inv, MapsOK, addLast, addLine, books
<1>2. PICK l : /\ LineOf(l, "CALL", NoVar, functionMap[f])
               /\ tac'.codeLines = Append(tac.codeLines, l)
  BY <1>1, AddedHere
<1>3. l \in Line /\ ~StartsBlock(l) /\ ~IsJump(l)
  BY <1>2 DEF LineOf, StartsBlock, IsJump
<1> QED
  BY <1>1, <1>2, <1>3, SimpleLineShape

LEMMA ReturnShape ==
  ASSUME SInv, NEW value \in Vars \cup {NoVar}, convertReturnStmt(value)
  PROVE  ShapeInv'
<1>1. /\ open # <<>>
      /\ tac' = nextBasicBlock(addLineWith(tac, "RET", value, NoLabel))
      /\ open' = open /\ functionMap' = functionMap /\ labelCount' = labelCount
  BY HereIsNode DEF convertReturnStmt, SInv, Inv
<1>2. PICK l : /\ LineOf(l, "RET", value, NoLabel)
               /\ tac'.codeLines = Append(tac.codeLines, l)
  BY <1>1, AddedHere
<1>3. l \in Line /\ ~StartsBlock(l) /\ ~IsJump(l)
  BY <1>2 DEF LineOf, StartsBlock, IsJump
<1> QED
  BY <1>1, <1>2, <1>3, SimpleLineShape

LEMMA EndFunctionShape ==
  ASSUME SInv, endFunction
  PROVE  ShapeInv'
<1> DEFINE lines == tac.codeLines
<1>1. /\ open # <<>> /\ Here.kind = "function" /\ open' = <<>>
      /\ ExitsOf(open) = {} /\ AgainOf(open) = {}
      /\ functionMap' = functionMap /\ labelCount' = labelCount
  BY HereIsNode, Left, OutermostOwes DEF endFunction, SInv, Inv, books
<1>2. /\ lines \in Seq(Line) /\ lines # <<>> /\ Shape(lines, {}, {})
  BY <1>1, NewIsUndeclared DEF SInv, ShapeInv
<1>3. /\ Shape(tac'.codeLines, {}, {})
      /\ Grows(lines, tac'.codeLines, ExitsOf(open) \cup Made)
      /\ tac'.codeLines # <<>> /\ Last(tac'.codeLines).op # "JUMPFALSE"
  <2>1. CASE tac' = tac
    <3>1. Last(lines).op # "JUMPFALSE"
      BY <1>1, <1>2 DEF SInv, ShapeInv, BodyFollows
    <3> HIDE DEF lines
    <3> QED
      BY <1>2, <2>1, <3>1 DEF Grows, lines
  <2>2. CASE tac' = addLineWith(tac, "RET", NoVar, NoLabel)
    <3>1. PICK l : LineOf(l, "RET", NoVar, NoLabel) /\ tac'.codeLines = Append(lines, l)
      BY <2>2, AddedHere
    <3>2. l \in Line /\ ~StartsBlock(l) /\ ~IsJump(l)
      BY <3>1 DEF LineOf, StartsBlock, IsJump
    <3> HIDE DEF lines
    <3>3. Shape(Append(lines, l), {}, {})
      BY <1>2, <3>2, PlainShape
    <3>4. Grows(lines, Append(lines, l), ExitsOf(open) \cup Made)
      BY <1>2, <3>2, GrowsByOne
    <3>5. tac'.codeLines # <<>> /\ Last(tac'.codeLines) = l
      BY <1>2, <3>1, <3>2, LongerLines DEF Last
    <3> QED
      BY <3>1, <3>2, <3>3, <3>4, <3>5 DEF IsJump
  <2> QED
    BY <2>1, <2>2 DEF endFunction, addLine
<1>4. ExitsOf(open') = {} /\ AgainOf(open') = {} /\ ExitsDiffer(open')
  BY <1>1, NothingOwed
<1>5. LabelsApart'
  BY <1>1, <1>3, <1>4, ApartKept
<1>6. BodyFollows'
  BY <1>3 DEF BodyFollows
<1> QED
  BY <1>1, <1>3, <1>4, <1>5, <1>6 DEF ShapeInv

(* A jump to a new label, the exit of the node that follows.               *)
LEMMA ConditionalShape ==
  ASSUME SInv, open # <<>>, labelCount + 1 \in Labels,
         NEW l, LineOf(l, "JUMPFALSE", NoVar, labelCount + 1),
         tac'.codeLines = Append(tac.codeLines, l),
         functionMap' = functionMap, labelCount' = labelCount + 1,
         open' # <<>>, Last(open').kind \in {"then", "body"},
         ExitsOf(open') = ExitsOf(open) \cup {labelCount + 1},
         AgainOf(open') \subseteq AgainOf(open), ExitsDiffer(open')
  PROVE  ShapeInv'
<1> DEFINE lines == tac.codeLines
           new == labelCount + 1
<1>1. /\ lines \in Seq(Line) /\ lines # <<>>
      /\ ExitsOf(open) \subseteq Labels /\ AgainOf(open) \subseteq Labels
      /\ Shape(lines, ExitsOf(open), AgainOf(open))
      /\ Undeclared(lines, {new}) /\ new \in Made
  <2>1. labelCount \in Nat
    BY DEF SInv, Inv, MapsOK
  <2> QED
    BY <2>1, NewIsUndeclared DEF SInv, ShapeInv, Made
<1>2. l \in Line /\ ~StartsBlock(l) /\ l.dest = new
  BY DEF LineOf, StartsBlock
<1> HIDE DEF lines, new
<1>3. Shape(lines, ExitsOf(open) \cup {new}, AgainOf(open))
  BY <1>1, MoreExits
<1>4. Shape(Append(lines, l), ExitsOf(open) \cup {new}, AgainOf(open))
  <2>1. ExitsOf(open) \cup {new} \in SUBSET Labels
    BY <1>1 DEF new
  <2> QED
    BY <1>1, <1>2, <1>3, <2>1, PlainShape
<1>5. Shape(Append(lines, l), ExitsOf(open'), AgainOf(open'))
  BY <1>4, FewerAgain DEF new
<1>6. Grows(lines, Append(lines, l), ExitsOf(open) \cup Made)
  BY <1>1, <1>2, GrowsByOne
<1>7. LabelsApart'
  BY <1>1, <1>6, ApartKept DEF lines, new
<1>8. tac'.codeLines # <<>>
  BY <1>1, <1>2, LongerLines DEF lines
<1>9. BodyFollows'
  BY <1>8 DEF BodyFollows, Here
<1> QED
  BY <1>5, <1>7, <1>8, <1>9 DEF ShapeInv, lines

LEMMA StartIfShape ==
  ASSUME SInv, NEW hasElse \in BOOLEAN, startIf(hasElse)
  PROVE  ShapeInv'
<1> DEFINE new == labelCount + 1
           node == [kind |-> "then", exit |-> new, hasElse |-> hasElse]
<1>1. /\ open # <<>> /\ open \in Seq(Node) /\ new \in Labels /\ labelCount' = new
      /\ tac' = nextBasicBlock(addLineWith(tac, "JUMPFALSE", NoVar, new))
      /\ open' = Append(open, node) /\ functionMap' = functionMap
  BY HereIsNode DEF startIf, SInv, Inv, StackOK, addLast, addLine, Enter, books
<1>2. node \in Node /\ node.kind = "then" /\ ExitOf(node) = {new} /\ BackOf(node) = {}
  BY <1>1 DEF Node, ExitOf, BackOf, Exiting, Repeating
<1>3. PICK l : /\ LineOf(l, "JUMPFALSE", NoVar, new)
               /\ tac'.codeLines = Append(tac.codeLines, l)
  BY <1>1, AddedHere
<1>4. new \notin ExitsOf(open) /\ ExitsDiffer(open)
  BY NewIsUndeclared DEF SInv, ShapeInv
<1> HIDE DEF node
<1>5. open' # <<>> /\ Last(open') = node
  BY <1>1, <1>2 DEF Last
<1>6. /\ ExitsOf(open') = ExitsOf(open) \cup {new} /\ AgainOf(open') = AgainOf(open)
      /\ ExitsDiffer(open')
  <2>1. /\ ExitsOf(open') = ExitsOf(open) \cup ExitOf(node)
        /\ AgainOf(open') = AgainOf(open) \cup BackOf(node)
        /\ ExitsDiffer(open') <=>
             ExitsDiffer(open) /\ ExitsOf(open) \cap ExitOf(node) = {}
    BY <1>1, <1>2, Owing
  <2> QED
    BY <1>2, <1>4, <2>1
<1> QED
  BY <1>1, <1>2, <1>3, <1>5, <1>6, ConditionalShape

LEMMA TestWhileShape ==
  ASSUME SInv, testWhile
  PROVE  ShapeInv'
<1> DEFINE new == labelCount + 1
           node == [kind |-> "body", again |-> Here.again, exit |-> new]
           front == Front(open)
<1>1. /\ open # <<>> /\ Here \in Node /\ Here.kind = "condition" /\ StackOK
      /\ new \in Labels /\ labelCount' = new
      /\ tac' = nextBasicBlock(addLineWith(tac, "JUMPFALSE", NoVar, new))
      /\ open' = Append(front, node) /\ functionMap' = functionMap
  BY HereIsNode DEF testWhile, SInv, Inv, addLast, addLine, Become, books
<1>2. Here.again \in Labels /\ ExitOf(Here) = {} /\ BackOf(Here) = {Here.again}
  BY <1>1, NodeParts DEF ExitOf, BackOf, Exiting, Repeating
<1>3. /\ node \in Node /\ node.kind = "body" /\ ExitOf(node) = {new}
      /\ BackOf(node) = {Here.again}
  BY <1>1, <1>2 DEF Node, ExitOf, BackOf, Exiting, Repeating
<1>4. PICK l : /\ LineOf(l, "JUMPFALSE", NoVar, new)
               /\ tac'.codeLines = Append(tac.codeLines, l)
  BY <1>1, AddedHere
<1>5. new \notin ExitsOf(open) /\ ExitsDiffer(open)
  BY NewIsUndeclared DEF SInv, ShapeInv
<1>6. /\ front \in Seq(Node) /\ ExitsOf(open) = ExitsOf(front)
      /\ AgainOf(open) = AgainOf(front) \cup {Here.again} /\ ExitsDiffer(front)
  BY <1>1, <1>2, <1>5, TopOf
<1> HIDE DEF node, front
<1>7. open' # <<>> /\ Last(open') = node
  BY <1>1, <1>3, <1>6 DEF Last
<1>8. /\ ExitsOf(open') = ExitsOf(open) \cup {new} /\ AgainOf(open') = AgainOf(open)
      /\ ExitsDiffer(open')
  BY <1>1, <1>3, <1>5, <1>6, Owing
<1> QED
  BY <1>1, <1>3, <1>4, <1>7, <1>8, ConditionalShape

(* A label behind the lines mid, which may be those of the step already.   *)
LEMMA LabelStep ==
  ASSUME SInv, NEW mid \in Seq(Line), mid # <<>>,
         NEW exits \in SUBSET Labels, NEW again \in SUBSET Labels,
         Shape(mid, exits, again),
         NEW label \in Labels, Undeclared(mid, {label}),
         NEW l, LineOf(l, "LABEL", NoVar, label), tac'.codeLines = Append(mid, l),
         Grows(tac.codeLines, Append(mid, l), ExitsOf(open) \cup Made),
         functionMap' = functionMap,
         labelCount' = labelCount \/ labelCount' = labelCount + 1,
         ExitsOf(open') = exits \ {label},
         ExitsOf(open') \subseteq ExitsOf(open) \cup Made,
         AgainOf(open') \subseteq again \cup {label}, ExitsDiffer(open')
  PROVE  ShapeInv'
<1>1. l \in Line /\ l.op = "LABEL" /\ l.dest = label
  BY DEF LineOf
<1>2. Shape(Append(mid, l), exits \ {label}, again \cup {label})
  BY <1>1, LabelShape
<1>3. Shape(tac'.codeLines, ExitsOf(open'), AgainOf(open'))
  BY <1>2, FewerAgain
<1>4. LabelsApart'
  BY ApartKept
<1>5. tac'.codeLines # <<>> /\ Last(tac'.codeLines) = l
  BY <1>1, LongerLines DEF Last
<1>6. BodyFollows'
  BY <1>1, <1>5 DEF BodyFollows
<1> QED
  BY <1>3, <1>4, <1>5, <1>6 DEF ShapeInv

LEMMA OwedByTop ==
  ASSUME SInv, open # <<>>, Here.kind \in Exiting
  PROVE  LET front == Front(open)
         IN /\ front \in Seq(Node) /\ ExitsDiffer(front)
            /\ Here.exit \in ExitsOf(open) /\ Here.exit \in Labels
            /\ Undeclared(tac.codeLines, {Here.exit})
            /\ ExitsOf(front) = ExitsOf(open) \ {Here.exit}
            /\ AgainOf(front) \subseteq AgainOf(open)
            /\ Here.kind = "body" => Here.again \in AgainOf(open)
<1> DEFINE front == Front(open)
<1>1. StackOK /\ ExitsDiffer(open)
  BY DEF SInv, Inv, ShapeInv
<1>2. /\ front \in Seq(Node) /\ Here \in Node
      /\ ExitsOf(open) = ExitsOf(front) \cup ExitOf(Here)
      /\ AgainOf(open) = AgainOf(front) \cup BackOf(Here)
      /\ ExitsDiffer(front) /\ ExitsOf(front) \cap ExitOf(Here) = {}
  BY <1>1, TopOf
<1>3. ExitOf(Here) = {Here.exit} /\ Here.exit \in Labels
  BY <1>2, NodeParts DEF ExitOf, Exiting
<1>4. Here.kind = "body" => Here.again \in BackOf(Here)
  BY <1>2, NodeParts DEF BackOf, Repeating
<1> HIDE DEF front
<1>5. Undeclared(tac.codeLines, {Here.exit})
  BY <1>2, <1>3, NewIsUndeclared
<1> QED
  BY <1>2, <1>3, <1>4, <1>5 DEF front

LEMMA EndBranchShape ==
  ASSUME SInv, endThen \/ endElse
  PROVE  ShapeInv'
<1> DEFINE lines == tac.codeLines
           exit == Here.exit
<1>1. /\ open # <<>> /\ Here.kind \in Exiting /\ open' = Front(open)
      /\ tac' = addFirst(tac, "LABEL", exit)
      /\ functionMap' = functionMap /\ labelCount' = labelCount
  BY HereIsNode DEF endThen, endElse, SInv, Inv, Leave, Exiting, books
<1>2. /\ lines \in Seq(Line) /\ lines # <<>> /\ tac \in TacState
      /\ ExitsOf(open) \in SUBSET Labels /\ AgainOf(open) \in SUBSET Labels
      /\ Shape(lines, ExitsOf(open), AgainOf(open))
  BY <1>1, NewIsUndeclared DEF SInv, ShapeInv
<1>3. /\ exit \in ExitsOf(open) /\ exit \in Labels /\ Undeclared(lines, {exit})
      /\ ExitsOf(open') = ExitsOf(open) \ {exit} /\ ExitsDiffer(open')
      /\ AgainOf(open') \subseteq AgainOf(open)
  BY <1>1, OwedByTop
<1> HIDE DEF exit
<1>4. PICK l : LineOf(l, "LABEL", NoVar, exit) /\ tac'.codeLines = Append(lines, l)
  BY <1>1, <1>2, <1>3, LabelAdded
<1> HIDE DEF lines
<1>5. Grows(lines, Append(lines, l), ExitsOf(open) \cup Made)
  BY <1>2, <1>3, <1>4, GrowsByOne DEF LineOf
<1> QED
  BY <1>1, <1>2, <1>3, <1>4, <1>5, LabelStep DEF lines

LEMMA StartWhileShape ==
  ASSUME SInv, startWhile
  PROVE  ShapeInv'
<1> DEFINE lines == tac.codeLines
           new == labelCount + 1
           node == [kind |-> "condition", again |-> new]
<1>1. /\ open # <<>> /\ open \in Seq(Node) /\ new \in Labels /\ labelCount' = new
      /\ tac' = addFirst(tac, "LABEL", new)
      /\ open' = Append(open, node) /\ functionMap' = functionMap
  BY HereIsNode DEF startWhile, SInv, Inv, StackOK, Enter, books
<1>2. /\ lines \in Seq(Line) /\ lines # <<>> /\ tac \in TacState
      /\ ExitsOf(open) \in SUBSET Labels /\ AgainOf(open) \in SUBSET Labels
      /\ Shape(lines, ExitsOf(open), AgainOf(open)) /\ ExitsDiffer(open)
      /\ Undeclared(lines, {new}) /\ new \notin ExitsOf(open)
  BY <1>1, NewIsUndeclared DEF SInv, ShapeInv
<1>3. new \in Made
  <2>1. labelCount \in Nat
    BY DEF SInv, Inv, MapsOK
  <2> QED
    BY <1>1, <2>1 DEF Made
<1>4. node \in Node /\ ExitOf(node) = {} /\ BackOf(node) = {new}
  BY <1>1 DEF Node, ExitOf, BackOf, Exiting, Repeating
<1> HIDE DEF node
<1>5. /\ ExitsOf(open') = ExitsOf(open) \cup ExitOf(node)
      /\ AgainOf(open') = AgainOf(open) \cup BackOf(node)
      /\ ExitsDiffer(open') <=>
           ExitsDiffer(open) /\ ExitsOf(open) \cap ExitOf(node) = {}
  BY <1>1, <1>4, Owing
<1>6. PICK l : LineOf(l, "LABEL", NoVar, new) /\ tac'.codeLines = Append(lines, l)
  BY <1>1, <1>2, LabelAdded
<1> HIDE DEF lines, new
<1>7. Grows(lines, Append(lines, l), ExitsOf(open) \cup Made)
  BY <1>2, <1>3, <1>6, GrowsByOne DEF LineOf
<1>8. /\ ExitsOf(open') = ExitsOf(open) \ {new} /\ ExitsDiffer(open')
      /\ AgainOf(open') = AgainOf(open) \cup {new}
  BY <1>2, <1>4, <1>5
<1>9. labelCount' = labelCount + 1
  BY <1>1 DEF new
<1> QED
  BY <1>1, <1>2, <1>6, <1>7, <1>8, <1>9, LabelStep DEF lines

LEMMA StartElseShape ==
  ASSUME SInv, startElse
  PROVE  ShapeInv'
<1> DEFINE lines == tac.codeLines
           new == labelCount + 1
           exit == Here.exit
           front == Front(open)
           node == [kind |-> "else", exit |-> new]
           exits == ExitsOf(open) \cup {new}
<1>1. /\ open # <<>> /\ Here.kind \in Exiting /\ new \in Labels /\ labelCount' = new
      /\ tac' = addFirst(addLine(tac, "JUMP", new), "LABEL", exit)
      /\ open' = Append(front, node) /\ functionMap' = functionMap
  BY HereIsNode DEF startElse, SInv, Inv, Become, Exiting, books
<1>2. /\ lines \in Seq(Line) /\ lines # <<>> /\ tac \in TacState
      /\ ExitsOf(open) \in SUBSET Labels /\ AgainOf(open) \in SUBSET Labels
      /\ Shape(lines, ExitsOf(open), AgainOf(open))
      /\ Undeclared(lines, {new}) /\ new \notin ExitsOf(open)
  BY <1>1, NewIsUndeclared DEF SInv, ShapeInv
<1>3. new \in Made
  <2>1. labelCount \in Nat
    BY DEF SInv, Inv, MapsOK
  <2> QED
    BY <1>1, <2>1 DEF Made
<1>4. /\ exit \in ExitsOf(open) /\ exit \in Labels
      /\ front \in Seq(Node) /\ ExitsDiffer(front)
      /\ ExitsOf(front) = ExitsOf(open) \ {exit}
      /\ AgainOf(front) \subseteq AgainOf(open)
  BY <1>1, OwedByTop
<1>5. node \in Node /\ ExitOf(node) = {new} /\ BackOf(node) = {}
  BY <1>1 DEF Node, ExitOf, BackOf, Exiting, Repeating
<1> HIDE DEF node, front, exit
<1>6. /\ ExitsOf(open') = ExitsOf(front) \cup ExitOf(node)
      /\ AgainOf(open') = AgainOf(front) \cup BackOf(node)
      /\ ExitsDiffer(open') <=>
           ExitsDiffer(front) /\ ExitsOf(front) \cap ExitOf(node) = {}
  BY <1>1, <1>4, <1>5, Owing
<1>7. PICK jump, l : /\ LineOf(jump, "JUMP", NoVar, new)
                     /\ LineOf(l, "LABEL", NoVar, exit)
                     /\ tac'.codeLines = Append(Append(lines, jump), l)
  <2> HIDE DEF new
  <2>1. \E jump, l : /\ LineOf(jump, "JUMP", NoVar, new)
                     /\ LineOf(l, "LABEL", NoVar, exit)
                     /\ addFirst(addLine(tac, "JUMP", new), "LABEL", exit).codeLines
                          = Append(Append(tac.codeLines, jump), l)
    BY <1>1, <1>2, <1>4, JumpAndLabelAdded
  <2> QED
    BY <1>1, <2>1
<1>8. /\ jump \in Line /\ jump.op = "JUMP" /\ jump.dest = new
      /\ l \in Line /\ l.op = "LABEL" /\ l.dest = exit /\ ~StartsBlock(jump)
  BY <1>7 DEF LineOf, StartsBlock
<1> HIDE DEF lines, new
<1> DEFINE mid == Append(lines, jump)
<1>9. /\ mid \in Seq(Line) /\ mid # <<>> /\ exits \in SUBSET Labels
  BY <1>1, <1>2, <1>8, LongerLines
<1>10. Shape(lines, exits, AgainOf(open))
  BY <1>2, MoreExits
<1>11. Shape(mid, exits, AgainOf(open))
  BY <1>2, <1>8, <1>9, <1>10, PlainShape
<1>12. Undeclared(mid, {exit})
  BY <1>4, <1>11 DEF Shape, Undeclared
<1>13. Grows(lines, Append(mid, l), ExitsOf(open) \cup Made)
  BY <1>2, <1>4, <1>8, GrowsByTwo
<1>14. /\ ExitsOf(open') = exits \ {exit} /\ ExitsDiffer(open')
       /\ AgainOf(open') \subseteq AgainOf(open) \cup {exit}
       /\ ExitsOf(open') \subseteq ExitsOf(open) \cup Made
  BY <1>2, <1>3, <1>4, <1>5, <1>6
<1>15. labelCount' = labelCount + 1
  BY <1>1 DEF new
<1>16. tac'.codeLines = Append(mid, l)
  BY <1>7
<1> HIDE DEF mid, exits
<1> QED
  BY <1>1, <1>2, <1>4, <1>7, <1>9, <1>11, <1>12, <1>13, <1>14, <1>15, <1>16, LabelStep
     DEF lines

LEMMA EndWhileShape ==
  ASSUME SInv, endWhile
  PROVE  ShapeInv'
<1> DEFINE lines == tac.codeLines
           exit == Here.exit
           back == Here.again
<1>1. /\ open # <<>> /\ Here.kind = "body" /\ Here.kind \in Exiting
      /\ tac' = addFirst(addLine(tac, "JUMP", back), "LABEL", exit)
      /\ open' = Front(open) /\ functionMap' = functionMap /\ labelCount' = labelCount
  BY HereIsNode DEF endWhile, SInv, Inv, Leave, Exiting, books
<1>2. /\ lines \in Seq(Line) /\ lines # <<>> /\ tac \in TacState
      /\ ExitsOf(open) \in SUBSET Labels /\ AgainOf(open) \in SUBSET Labels
      /\ Shape(lines, ExitsOf(open), AgainOf(open))
  BY <1>1, NewIsUndeclared DEF SInv, ShapeInv
<1>3. /\ exit \in ExitsOf(open) /\ exit \in Labels /\ back \in AgainOf(open)
      /\ ExitsOf(open') = ExitsOf(open) \ {exit} /\ ExitsDiffer(open')
      /\ AgainOf(open') \subseteq AgainOf(open)
  BY <1>1, OwedByTop
<1> HIDE DEF exit, back
<1>4. PICK jump, l : /\ LineOf(jump, "JUMP", NoVar, back)
                     /\ LineOf(l, "LABEL", NoVar, exit)
                     /\ tac'.codeLines = Append(Append(lines, jump), l)
  BY <1>1, <1>2, <1>3, JumpAndLabelAdded
<1>5. /\ jump \in Line /\ jump.op = "JUMP" /\ jump.dest = back
      /\ l \in Line /\ l.op = "LABEL" /\ l.dest = exit /\ ~StartsBlock(jump)
  BY <1>4 DEF LineOf, StartsBlock
<1> HIDE DEF lines
<1> DEFINE mid == Append(lines, jump)
<1>6. mid \in Seq(Line) /\ mid # <<>>
  BY <1>2, <1>5, LongerLines
<1>7. Shape(mid, ExitsOf(open), AgainOf(open))
  BY <1>2, <1>3, <1>5, PlainShape
<1>8. Undeclared(mid, {exit})
  BY <1>3, <1>7 DEF Shape, Undeclared
<1>9. Grows(lines, Append(mid, l), ExitsOf(open) \cup Made)
  BY <1>2, <1>3, <1>5, GrowsByTwo
<1>10. tac'.codeLines = Append(mid, l)
  BY <1>4
<1> HIDE DEF mid
<1> QED
  BY <1>1, <1>2, <1>3, <1>4, <1>6, <1>7, <1>8, <1>9, <1>10, LabelStep DEF lines

LEMMA ShapeInitially == Init => ShapeInv
<1> SUFFICES ASSUME Init PROVE ShapeInv
  OBVIOUS
<1>1. /\ tac.codeLines = <<>> /\ open = <<>> /\ functionMap = <<>>
      /\ ExitsOf(open) = {} /\ AgainOf(open) = {} /\ ExitsDiffer(open)
  BY NothingOwed DEF Init
<1>2. 1 .. Len(<<>>) = {} /\ DOMAIN <<>> = {} /\ 1 .. Len(<<>>) - 1 = {}
  OBVIOUS
<1>3. Shape(tac.codeLines, {}, {})
  BY <1>1, <1>2 DEF Shape, Owned, Labelled, DeclaredOnce, Continued, Answered,
     ComesAgain, Undeclared
<1>4. BodyFollows /\ LabelsApart
  BY <1>1, <1>2 DEF BodyFollows, LabelsApart
<1> QED
  BY <1>1, <1>3, <1>4 DEF ShapeInv

LEMMA ShapeKept == SInv /\ [Next]_vars => ShapeInv'
<1> SUFFICES ASSUME SInv, [Next]_vars PROVE ShapeInv'
  OBVIOUS
<1>1. CASE Next
  BY <1>1, PrototypeShape, StartFunctionShape, PlainLineShape, CallShape, ReturnShape,
     EndFunctionShape, StartIfShape, TestWhileShape, EndBranchShape, StartWhileShape,
     StartElseShape, EndWhileShape
  DEF Next
<1>2. CASE UNCHANGED vars
  BY <1>2 DEF vars, books, SInv, ShapeInv, BodyFollows, LabelsApart, Here, Declares
<1> QED
  BY <1>1, <1>2

(* At every moment of the conversion the code has the shape, up to what    *)
(* the open nodes owe.                                                     *)
THEOREM ShapeHolds == Spec => []SInv
<1>1. Init => ShapeInv
  BY ShapeInitially
<1>2. Inv /\ LInv /\ ShapeInv /\ [Next]_vars => ShapeInv'
  BY ShapeKept DEF SInv
<1>3. Inv /\ LInv /\ ShapeInv <=> SInv
  BY DEF SInv
<1> QED
  BY <1>1, <1>2, <1>3, InvariantHolds, LabelsInitially, LabelsKept, PTL DEF Spec

(* The one entry that a line belongs to names its function.                *)
LEMMA OwnerNames ==
  ASSUME NEW p, NEW i \in Nat, NEW e \in Nat \ {0}, EntryOf(p.lines, e, i)
  PROVE  FunctionAt(p, i) = p.lines[e].dest
<1> DEFINE entries == {j \in 1 .. i : p.lines[j].op = "ENTRY"}
<1>1. e \in entries /\ \A k \in entries : k <= e
  <2>1. \A k \in 1 .. i : k <= e \/ k \in e + 1 .. i
    OBVIOUS
  <2> QED
    BY <2>1 DEF EntryOf
<1>2. \A j \in entries : (\A k \in entries : k <= j) => j = e
  BY <1>1
<1>3. (CHOOSE j \in entries : \A k \in entries : k <= j) = e
  BY <1>1, <1>2
<1> QED
  BY <1>3 DEF FunctionAt

LEMMA TogetherNamed ==
  ASSUME NEW p, p.lines \in Seq(Line), NEW i \in Lines(p), NEW j \in Lines(p),
         Together(p.lines, i, j)
  PROVE  FunctionAt(p, i) = FunctionAt(p, j)
<1>1. PICK e \in 1 .. Len(p.lines) : EntryOf(p.lines, e, i) /\ EntryOf(p.lines, e, j)
  BY DEF Together
<1> QED
  BY <1>1, OwnerNames DEF Lines

LEMMA DeliveredShape ==
  ASSUME SInv
  PROVE  DeliversWellFormed
<1> DEFINE lines == tac.codeLines
           p == [store |-> {}, lines |-> lines]
<1> SUFFICES ASSUME Converted PROVE WellFormed(p)
  BY DEF DeliversWellFormed
<1>1. /\ lines \in Seq(Line) /\ lines # <<>> /\ Len(lines) \in Nat /\ Len(lines) >= 1
      /\ Shape(lines, {}, {}) /\ Last(lines).op # "JUMPFALSE" /\ NumberedIn(lines)
  <2>1. open = <<>> /\ lines # <<>> /\ lines \in Seq(Line)
    BY DEF SInv, Inv, TacState, Converted
  <2>2. Shape(lines, {}, {}) /\ Last(lines).op # "JUMPFALSE"
    BY <2>1, NothingOwed DEF SInv, ShapeInv, BodyFollows
  <2>3. NumberedIn(lines)
    BY DEF SInv, Inv, BlocksNumbered
  <2> HIDE DEF lines
  <2> QED
    BY <2>1, <2>2, <2>3
<1> HIDE DEF lines
<1>2. lines[1].op = "ENTRY" /\ lines[1].bb = 0
  <2>1. 1 \in 1 .. Len(lines)
    BY <1>1
  <2>2. PICK e \in 1 .. Len(lines) : EntryOf(lines, e, 1)
    BY <1>1, <2>1 DEF Shape, Owned
  <2>3. e = 1
    BY <1>1, <2>2 DEF EntryOf
  <2> QED
    BY <1>1, <2>1, <2>2, <2>3 DEF EntryOf, NumberedIn
<1>3. \A i \in 1 .. Len(lines) \ {1} :
        lines[i].bb = lines[i - 1].bb +
          (IF StartsBlock(lines[i]) \/ EndsBlock(lines[i - 1]) THEN 1 ELSE 0)
  <2> TAKE i \in 1 .. Len(lines) \ {1}
  <2>1. i - 1 \in 1 .. Len(lines)
    BY <1>1
  <2>2. lines[i - 1] \in Line /\ lines[i - 1].bb \in Nat
    <3>1. lines[i - 1] \in Line
      BY <1>1, <2>1
    <3> QED
      BY <3>1 DEF Line
  <2> QED
    BY <1>1, <2>2 DEF NumberedIn
<1>4. ASSUME NEW i \in 1 .. Len(lines)
      PROVE  /\ StartsBlock(lines[i]) \/ IsJump(lines[i]) => lines[i].dest \in Labels
             /\ StartsBlock(lines[i]) =>
                  \A j \in 1 .. Len(lines) : IsDeclarationOf(lines[j], lines[i].dest) => j = i
             /\ IsJump(lines[i]) =>
                  \E j \in 1 .. Len(lines) : /\ lines[j].op = "LABEL"
                                             /\ lines[j].dest = lines[i].dest
                                             /\ FunctionAt(p, j) = FunctionAt(p, i)
             /\ lines[i].op = "JUMPFALSE" =>
                  i + 1 \in 1 .. Len(lines) /\ lines[i + 1].op # "ENTRY"
  <2>1. StartsBlock(lines[i]) \/ IsJump(lines[i]) => lines[i].dest \in Labels
    BY <1>1 DEF Shape, Labelled
  <2>2. StartsBlock(lines[i]) =>
          \A j \in 1 .. Len(lines) : IsDeclarationOf(lines[j], lines[i].dest) => j = i
    BY <1>1 DEF Shape, DeclaredOnce
  <2>3. ASSUME IsJump(lines[i])
        PROVE  \E j \in 1 .. Len(lines) : /\ lines[j].op = "LABEL"
                                          /\ lines[j].dest = lines[i].dest
                                          /\ FunctionAt(p, j) = FunctionAt(p, i)
    <3>1. PICK j \in 1 .. Len(lines) :
            Declares(lines[j], lines[i].dest) /\ Together(lines, i, j)
      BY <1>1, <2>3 DEF Shape, Answered, Reachable
    <3>2. FunctionAt(p, i) = FunctionAt(p, j)
      BY <1>1, <3>1, TogetherNamed DEF Lines
    <3> QED
      BY <3>1, <3>2 DEF Declares
  <2>4. ASSUME lines[i].op = "JUMPFALSE"
        PROVE  i + 1 \in 1 .. Len(lines) /\ lines[i + 1].op # "ENTRY"
    <3>1. i # Len(lines)
      BY <1>1, <2>4 DEF Last
    <3>2. i \in 1 .. Len(lines) - 1 /\ i + 1 \in 1 .. Len(lines)
      BY <1>1, <3>1
    <3> QED
      BY <1>1, <2>4, <3>2 DEF Shape, Continued
  <2> QED
    BY <2>1, <2>2, <2>3, <2>4
<1> QED
  BY <1>1, <1>2, <1>3, <1>4 DEF WellFormed, Lines

(* The code of a whole program, and that of any part of it which ends with *)
(* a function, is well-formed: what Cfg relies on.                         *)
THEOREM DeliversCorrect == Spec => []DeliversWellFormed
BY ShapeHolds, DeliveredShape, PTL

-----------------------------------------------------------------------------
(* Returns: what one more line does to the functions.                      *)

LEMMA OneEntry ==
  ASSUME NEW lines, NEW i \in Nat, NEW d \in Nat, NEW e \in Nat,
         EntryOf(lines, d, i), EntryOf(lines, e, i)
  PROVE  d = e
<1>1. d <= i /\ e <= i /\ e \notin d + 1 .. i /\ d \notin e + 1 .. i
  BY DEF EntryOf
<1> QED
  BY <1>1

LEMMA OfFunctionKept ==
  ASSUME NEW lines \in Seq(Line), NEW l \in Line, NEW i \in 1 .. Len(lines), NEW label
  PROVE  OfFunction(Append(lines, l), i, label) <=> OfFunction(lines, i, label)
<1> DEFINE longer == Append(lines, l)
           n == Len(lines)
<1>1. /\ n \in Nat /\ 1 .. Len(longer) = (1 .. n) \cup {n + 1}
      /\ \A e \in 1 .. n : longer[e] = lines[e]
  BY LongerLines
<1>2. \A e \in 1 .. n : EntryOf(longer, e, i) <=> EntryOf(lines, e, i)
  BY EntryKept
<1>3. ~EntryOf(longer, n + 1, i)
  BY <1>1 DEF EntryOf
<1> HIDE DEF longer, n
<1>4. OfFunction(longer, i, label) <=> OfFunction(lines, i, label)
  BY <1>1, <1>2, <1>3 DEF OfFunction, n
<1> QED
  BY <1>4 DEF longer

LEMMA ReturnsKept ==
  ASSUME NEW lines \in Seq(Line), NEW l \in Line, NEW label, NEW returnType,
         Returns(lines, label, returnType),
         ~OfFunction(Append(lines, l), Len(lines) + 1, label)
  PROVE  Returns(Append(lines, l), label, returnType)
<1> DEFINE longer == Append(lines, l)
           n == Len(lines)
<1>1. /\ n \in Nat /\ Len(longer) = n + 1 /\ longer[n + 1] = l
      /\ 1 .. Len(longer) = (1 .. n) \cup {n + 1}
      /\ \A i \in 1 .. n : longer[i] = lines[i]
  BY LongerLines
<1>2. \A i \in 1 .. n : OfFunction(longer, i, label) <=> OfFunction(lines, i, label)
  BY OfFunctionKept
<1> HIDE DEF longer
<1>3. \E i \in 1 .. Len(longer) : OfFunction(longer, i, label) /\ longer[i].op = "RET"
  BY <1>1, <1>2 DEF Returns
<1>4. ASSUME NEW i \in 1 .. Len(longer), OfFunction(longer, i, label)
      PROVE  /\ longer[i].op = "RET" => TypeOfReturn(longer[i]) = returnType
             /\ /\ returnType = "NONE"
                /\ i < Len(longer) => longer[i + 1].op = "ENTRY"
                => longer[i].op = "RET"
  <2>1. i \in 1 .. n /\ OfFunction(lines, i, label) /\ longer[i] = lines[i]
    BY <1>1, <1>2, <1>4 DEF longer
  <2>2. i < n => i < Len(longer) /\ longer[i + 1] = lines[i + 1]
    BY <1>1, <2>1
  <2> QED
    BY <2>1, <2>2 DEF Returns
<1>5. Returns(longer, label, returnType)
  BY <1>3, <1>4 DEF Returns
<1> QED
  BY <1>5 DEF longer

(* The last line is one of the function that begins at the entry.          *)
InFunction(lines, entry, label) ==
  /\ entry \in 1 .. Len(lines) /\ EntryOf(lines, entry, Len(lines))
  /\ lines[entry].dest = label

OthersReturn(lines, here) ==
  \A f \in DOMAIN defined \ {here} : Returns(lines, functionMap[f], defined[f])

LEMMA OneMore ==
  ASSUME Inv, LInv, NEW lines \in Seq(Line), NEW l \in Line, l.op # "ENTRY",
         NEW here \in DOMAIN functionMap, NEW entry,
         InFunction(lines, entry, functionMap[here]), OthersReturn(lines, here)
  PROVE  /\ InFunction(Append(lines, l), entry, functionMap[here])
         /\ OthersReturn(Append(lines, l), here)
<1> DEFINE longer == Append(lines, l)
           n == Len(lines)
<1>1. /\ n \in Nat /\ Len(longer) = n + 1 /\ entry \in 1 .. n /\ n + 1 \in Nat
      /\ entry \in 1 .. Len(longer) /\ longer[entry] = lines[entry]
  BY LongerLines DEF InFunction
<1>2. EntryOf(longer, entry, n + 1)
  BY <1>1, EntryExtended DEF InFunction
<1>3. ASSUME NEW f \in DOMAIN defined \ {here}
      PROVE  Returns(longer, functionMap[f], defined[f])
  <2>1. functionMap[f] # functionMap[here]
    BY DEF Inv, MapsOK, LInv, CallsReachDefinition
  <2>2. ~OfFunction(longer, n + 1, functionMap[f])
    <3>1. SUFFICES ASSUME NEW e \in 1 .. Len(longer), EntryOf(longer, e, n + 1),
                          longer[e].dest = functionMap[f]
                   PROVE  FALSE
      BY DEF OfFunction
    <3>2. e = entry
      <4> HIDE DEF longer, n
      <4> QED
        BY <1>1, <1>2, <3>1, OneEntry
    <3> HIDE DEF longer
    <3> QED
      BY <1>1, <2>1, <3>1, <3>2 DEF InFunction
  <2>3. Returns(lines, functionMap[f], defined[f])
    BY DEF OthersReturn
  <2> QED
    BY <2>2, <2>3, ReturnsKept
<1> HIDE DEF longer
<1>4. InFunction(longer, entry, functionMap[here]) /\ OthersReturn(longer, here)
  BY <1>1, <1>2, <1>3 DEF InFunction, OthersReturn
<1> QED
  BY <1>4 DEF longer

(* A function whose lines are the last ones.                               *)
LEMMA LastFunctionReturns ==
  ASSUME NEW lines \in Seq(Line), NEW entry, NEW label, NEW returnType,
         InFunction(lines, entry, label), EntriesIn(lines, label) = {entry},
         \E i \in entry .. Len(lines) : lines[i].op = "RET",
         \A i \in entry .. Len(lines) :
           lines[i].op = "RET" => TypeOfReturn(lines[i]) = returnType,
         returnType = "NONE" => lines[Len(lines)].op = "RET"
  PROVE  Returns(lines, label, returnType)
<1> DEFINE n == Len(lines)
<1>1. /\ n \in Nat /\ entry \in 1 .. n /\ EntryOf(lines, entry, n)
      /\ lines[entry].dest = label
  BY DEF InFunction
<1>2. ASSUME NEW i \in 1 .. n
      PROVE  OfFunction(lines, i, label) <=> i \in entry .. n
  <2>1. ASSUME OfFunction(lines, i, label) PROVE i \in entry .. n
    <3>1. PICK e \in 1 .. n : EntryOf(lines, e, i) /\ lines[e].dest = label
      BY <2>1 DEF OfFunction
    <3>2. e \in EntriesIn(lines, label)
      BY <3>1 DEF EntriesIn, EntryOf
    <3>3. e = entry /\ e <= i
      BY <3>1, <3>2 DEF EntryOf
    <3> QED
      BY <1>1, <3>3
  <2>2. ASSUME i \in entry .. n PROVE OfFunction(lines, i, label)
    <3>1. \A k \in entry + 1 .. i : k \in entry + 1 .. n
      BY <1>1, <2>2
    <3>2. entry <= i
      BY <1>1, <2>2
    <3>3. EntryOf(lines, entry, i)
      BY <1>1, <3>1, <3>2 DEF EntryOf
    <3> QED
      BY <1>1, <3>3 DEF OfFunction
  <2> QED
    BY <2>1, <2>2
<1>3. \E i \in 1 .. n : OfFunction(lines, i, label) /\ lines[i].op = "RET"
  <2>1. \A i \in entry .. n : i \in 1 .. n
    BY <1>1
  <2> QED
    BY <1>2, <2>1
<1>4. ASSUME NEW i \in 1 .. n, OfFunction(lines, i, label)
      PROVE  /\ lines[i].op = "RET" => TypeOfReturn(lines[i]) = returnType
             /\ /\ returnType = "NONE"
                /\ i < n => lines[i + 1].op = "ENTRY"
                => lines[i].op = "RET"
  <2>1. i \in entry .. n
    BY <1>2, <1>4
  <2>2. i < n => lines[i + 1].op # "ENTRY"
    <3>1. i < n => i + 1 \in entry + 1 .. n
      BY <1>1, <2>1
    <3> QED
      BY <1>1, <3>1 DEF EntryOf
  <2>3. i < n \/ i = n
    BY <1>1
  <2> QED
    BY <2>1, <2>2, <2>3
<1> QED
  BY <1>3, <1>4 DEF Returns

-----------------------------------------------------------------------------
(* Every step keeps what is known of returns.                              *)

(* The outermost node stays while statements are converted.                *)
LEMMA OutermostStays ==
  ASSUME StackOK, open # <<>>,
         \/ open' = open
         \/ \E node \in Node : Enter(node)
         \/ Here.kind # "function" /\ (Leave \/ \E node \in Node : Become(node))
  PROVE  open' # <<>> /\ open'[1] = open[1]
<1> DEFINE n == Len(open)
           front == SubSeq(open, 1, n - 1)
<1>1. /\ open \in Seq(Node) /\ n \in Nat \ {0} /\ Here = open[n]
      /\ Front(open) = front
  BY DEF StackOK, Here, Last, Front
<1>2. CASE open' = open
  BY <1>2
<1>3. CASE \E node \in Node : Enter(node)
  BY <1>1, <1>3 DEF Enter
<1>4. CASE Here.kind # "function" /\ (Leave \/ \E node \in Node : Become(node))
  <2>1. n # 1
    <3>1. n \in 1 .. Len(open)
      BY <1>1
    <3> QED
      BY <1>1, <1>4, <3>1 DEF StackOK, Nested
  <2>2. front \in Seq(Node) /\ Len(front) = n - 1 /\ front[1] = open[1]
    <3>1. 1 \in 1 .. n - 1
      <4>1. n \in Nat \ {0}
        BY <1>1
      <4> HIDE DEF n
      <4> QED
        BY <2>1, <4>1
    <3>2. /\ front \in Seq(Node) /\ Len(front) = n - 1
          /\ \A i \in 1 .. n - 1 : front[i] = open[i]
      BY <1>1, FrontOf
    <3> QED
      BY <3>1, <3>2
  <2> HIDE DEF front
  <2>3. Len(front) >= 1 /\ front # <<>>
    BY <1>1, <2>1, <2>2
  <2>4. CASE Leave
    BY <1>1, <2>2, <2>3, <2>4 DEF Leave
  <2>5. CASE \E node \in Node : Become(node)
    BY <1>1, <2>2, <2>3, <2>5 DEF Become
  <2> QED
    BY <1>4, <2>4, <2>5
<1> QED
  BY <1>2, <1>3, <1>4

(* Statements add one line, or two, and no entry.                          *)
AddsLines ==
  \/ \E l \in Line : l.op # "ENTRY" /\ tac'.codeLines = Append(tac.codeLines, l)
  \/ \E j, l \in Line :
       /\ j.op # "ENTRY" /\ l.op # "ENTRY"
       /\ tac'.codeLines = Append(Append(tac.codeLines, j), l)

Statement ==
  \/ \E f \in Funs : convertfunctionCallExpr(f)
  \/ \E value \in Vars \cup {NoVar} : convertReturnStmt(value)
  \/ \E hasElse \in BOOLEAN : startIf(hasElse)
  \/ plainLine \/ endThen \/ startElse \/ endElse
  \/ startWhile \/ testWhile \/ endWhile

LEMMA StatementAdds ==
  ASSUME SInv, Statement
  PROVE  /\ AddsLines /\ open # <<>> /\ open' # <<>> /\ open'[1] = open[1]
         /\ UNCHANGED <<functionMap, defined, aborted>> /\ ~aborted
<1>1. open # <<>> /\ StackOK /\ Inv /\ tac \in TacState
  BY HereIsNode DEF Statement, convertfunctionCallExpr, convertReturnStmt, startIf,
     plainLine, endThen, startElse, endElse, startWhile, testWhile, endWhile, SInv, Inv
<1>2. UNCHANGED <<functionMap, defined, aborted>> /\ ~aborted
  BY DEF Statement, convertfunctionCallExpr, convertReturnStmt, startIf, plainLine,
     endThen, startElse, endElse, startWhile, testWhile, endWhile, books, HasRoom
<1>3. ASSUME NEW op \in {"ASSIGN", "CALL", "RET", "JUMPFALSE"},
             NEW operand \in Vars \cup {NoVar}, NEW label \in Labels \cup {NoLabel},
             \/ tac' = addLineWith(tac, op, operand, label)
             \/ tac' = nextBasicBlock(addLineWith(tac, op, operand, label))
      PROVE  AddsLines
  BY <1>3, AddedHere DEF AddsLines, LineOf
<1>4. ASSUME NEW label \in Labels, tac' = addFirst(tac, "LABEL", label)
      PROVE  AddsLines
  <2>1. \E l : /\ LineOf(l, "LABEL", NoVar, label)
               /\ addFirst(tac, "LABEL", label).codeLines = Append(tac.codeLines, l)
    BY <1>1, LabelAdded
  <2> QED
    BY <1>4, <2>1 DEF AddsLines, LineOf
<1>5. ASSUME NEW a \in Labels, NEW b \in Labels,
             tac' = addFirst(addLine(tac, "JUMP", a), "LABEL", b)
      PROVE  AddsLines
  <2>1. \E j, l : /\ LineOf(j, "JUMP", NoVar, a) /\ LineOf(l, "LABEL", NoVar, b)
                  /\ addFirst(addLine(tac, "JUMP", a), "LABEL", b).codeLines
                       = Append(Append(tac.codeLines, j), l)
    BY <1>1, JumpAndLabelAdded
  <2> QED
    BY <1>5, <2>1 DEF AddsLines, LineOf
<1>6. ASSUME NEW f \in Funs, convertfunctionCallExpr(f)
      PROVE  AddsLines /\ open' # <<>> /\ open'[1] = open[1]
  <2>1. functionMap[f] \in Labels
    BY <1>1, <1>6 DEF convertfunctionCallExpr, Inv, MapsOK
  <2> QED
    BY <1>1, <1>3, <1>6, <2>1 DEF convertfunctionCallExpr, addLast, addLine
<1>7. ASSUME NEW value \in Vars \cup {NoVar}, convertReturnStmt(value)
      PROVE  AddsLines /\ open' # <<>> /\ open'[1] = open[1]
  BY <1>1, <1>3, <1>7 DEF convertReturnStmt
<1>8. ASSUME NEW hasElse \in BOOLEAN, startIf(hasElse)
      PROVE  AddsLines /\ open' # <<>> /\ open'[1] = open[1]
  <2> DEFINE node == [kind |-> "then", exit |-> labelCount + 1, hasElse |-> hasElse]
  <2>1. node \in Node /\ Enter(node)
    BY <1>8 DEF startIf, Node
  <2>2. open' # <<>> /\ open'[1] = open[1]
    <3> HIDE DEF node
    <3> QED
      BY <1>1, <2>1, OutermostStays
  <2>3. AddsLines
    BY <1>3, <1>8 DEF startIf, addLast, addLine
  <2> QED
    BY <2>2, <2>3
<1>9. ASSUME plainLine PROVE AddsLines /\ open' # <<>> /\ open'[1] = open[1]
  BY <1>1, <1>3, <1>9 DEF plainLine, addLine
<1>10. ASSUME endThen \/ endElse PROVE AddsLines /\ open' # <<>> /\ open'[1] = open[1]
  <2>1. Here \in Node /\ Here.kind \in {"then", "else"} /\ Leave
    BY <1>1, <1>10, HereIsNode DEF endThen, endElse
  <2>2. open' # <<>> /\ open'[1] = open[1]
    BY <1>1, <2>1, OutermostStays
  <2>3. AddsLines
    BY <1>4, <1>10, <2>1, NodeParts DEF endThen, endElse
  <2> QED
    BY <2>2, <2>3
<1>11. ASSUME startElse PROVE AddsLines /\ open' # <<>> /\ open'[1] = open[1]
  <2> DEFINE node == [kind |-> "else", exit |-> labelCount + 1]
  <2>1. Here \in Node /\ Here.kind = "then" /\ node \in Node /\ Become(node)
    BY <1>1, <1>11, HereIsNode DEF startElse, Node
  <2>2. open' # <<>> /\ open'[1] = open[1]
    <3> HIDE DEF node
    <3> QED
      BY <1>1, <2>1, OutermostStays
  <2>3. AddsLines
    <3>1. Here.exit \in Labels /\ labelCount + 1 \in Labels
      BY <1>11, <2>1, NodeParts DEF startElse
    <3>2. tac' = addFirst(addLine(tac, "JUMP", labelCount + 1), "LABEL", Here.exit)
      BY <1>11 DEF startElse
    <3> QED
      BY <1>5, <3>1, <3>2
  <2> QED
    BY <2>2, <2>3
<1>12. ASSUME startWhile PROVE AddsLines /\ open' # <<>> /\ open'[1] = open[1]
  <2> DEFINE node == [kind |-> "condition", again |-> labelCount + 1]
  <2>1. node \in Node /\ Enter(node)
    BY <1>12 DEF startWhile, Node
  <2>2. open' # <<>> /\ open'[1] = open[1]
    <3> HIDE DEF node
    <3> QED
      BY <1>1, <2>1, OutermostStays
  <2>3. AddsLines
    BY <1>4, <1>12 DEF startWhile
  <2> QED
    BY <2>2, <2>3
<1>13. ASSUME testWhile PROVE AddsLines /\ open' # <<>> /\ open'[1] = open[1]
  <2> DEFINE node == [kind |-> "body", again |-> Here.again, exit |-> labelCount + 1]
  <2>1. Here \in Node /\ Here.kind = "condition"
    BY <1>1, <1>13, HereIsNode DEF testWhile
  <2>2. node \in Node /\ Become(node)
    BY <1>13, <2>1, NodeParts DEF testWhile, Node
  <2>3. open' # <<>> /\ open'[1] = open[1]
    <3> HIDE DEF node
    <3> QED
      BY <1>1, <2>1, <2>2, OutermostStays
  <2>4. AddsLines
    BY <1>3, <1>13 DEF testWhile, addLast, addLine
  <2> QED
    BY <2>3, <2>4
<1>14. ASSUME endWhile PROVE AddsLines /\ open' # <<>> /\ open'[1] = open[1]
  <2>1. Here \in Node /\ Here.kind = "body" /\ Leave
    BY <1>1, <1>14, HereIsNode DEF endWhile
  <2>2. open' # <<>> /\ open'[1] = open[1]
    BY <1>1, <2>1, OutermostStays
  <2>3. AddsLines
    <3>1. Here.exit \in Labels /\ Here.again \in Labels
      BY <2>1, NodeParts
    <3>2. tac' = addFirst(addLine(tac, "JUMP", Here.again), "LABEL", Here.exit)
      BY <1>14 DEF endWhile
    <3> QED
      BY <1>5, <3>1, <3>2
  <2> QED
    BY <2>2, <2>3
<1> QED
  BY <1>1, <1>2, <1>6, <1>7, <1>8, <1>9, <1>10, <1>11, <1>12, <1>13, <1>14 DEF Statement

LEMMA StatementReturns ==
  ASSUME SInv, ReturnInv, Statement
  PROVE  ReturnInv'
<1> DEFINE lines == tac.codeLines
           here == open[1].name
           entry == open[1].codelines + 1
<1>1. /\ AddsLines /\ open # <<>> /\ open' # <<>> /\ open'[1] = open[1]
      /\ functionMap' = functionMap /\ defined' = defined /\ ~aborted
  BY StatementAdds
<1>2. Inv /\ LInv /\ lines \in Seq(Line) /\ tac' \in TacState
  <2>1. Inv'
    BY CallStep, ReturnStep, StartIfStep, PlainLineStep, EndBranchStep,
       StartElseStep, StartWhileStep, TestWhileStep, EndWhileStep
    DEF SInv, Statement
  <2> QED
    BY <2>1 DEF SInv, Inv, TacState
<1>3. /\ here \in DOMAIN functionMap /\ here \in DOMAIN defined
      /\ defined[here] = open[1].returnType
      /\ InFunction(lines, entry, functionMap[here])
  BY <1>1, <1>2 DEF ReturnInv, CurrentFunction, InFunction, Inv, MapsOK
<1>4. OthersReturn(lines, here)
  BY <1>1 DEF ReturnInv, FinishedReturn, OthersReturn
<1>5. /\ InFunction(tac'.codeLines, entry, functionMap[here])
      /\ OthersReturn(tac'.codeLines, here)
  <2> HIDE DEF lines, here, entry
  <2>1. CASE \E l \in Line : l.op # "ENTRY" /\ tac'.codeLines = Append(lines, l)
    BY <1>2, <1>3, <1>4, <2>1, OneMore
  <2>2. CASE \E j, l \in Line :
               /\ j.op # "ENTRY" /\ l.op # "ENTRY"
               /\ tac'.codeLines = Append(Append(lines, j), l)
    <3>1. PICK j \in Line, l \in Line :
               /\ j.op # "ENTRY" /\ l.op # "ENTRY"
               /\ tac'.codeLines = Append(Append(lines, j), l)
      BY <2>2
    <3>2. Append(lines, j) \in Seq(Line)
      BY <1>2, LongerLines
    <3>3. /\ InFunction(Append(lines, j), entry, functionMap[here])
          /\ OthersReturn(Append(lines, j), here)
      BY <1>2, <1>3, <1>4, <3>1, OneMore
    <3>4. /\ InFunction(Append(Append(lines, j), l), entry, functionMap[here])
          /\ OthersReturn(Append(Append(lines, j), l), here)
      BY <1>2, <1>3, <3>1, <3>2, <3>3, OneMore
    <3> QED
      BY <3>1, <3>4
  <2> QED
    BY <1>1, <2>1, <2>2 DEF AddsLines, lines
<1>6. DOMAIN tac'.codeLines = 1 .. Len(tac'.codeLines)
  BY <1>2 DEF TacState
<1>7. CurrentFunction'
  BY <1>1, <1>3, <1>5, <1>6 DEF CurrentFunction, InFunction
<1>8. FinishedReturn'
  BY <1>1, <1>5 DEF FinishedReturn, OthersReturn
<1> QED
  BY <1>7, <1>8 DEF ReturnInv

LEMMA PrototypeReturns ==
  ASSUME SInv, ReturnInv, NEW f \in Funs, convertFunctionPrototype(f)
  PROVE  ReturnInv'
<1>1. /\ tac' = tac /\ open' = open /\ open = <<>> /\ defined' = defined
      /\ f \notin DOMAIN functionMap /\ ~aborted
      /\ \A g \in DOMAIN functionMap : functionMap'[g] = functionMap[g]
  BY DEF convertFunctionPrototype, addFunction
<1>2. \A g \in DOMAIN defined : functionMap'[g] = functionMap[g]
  BY <1>1 DEF SInv, Inv, MapsOK
<1>3. \A g \in DOMAIN defined : Returns(tac.codeLines, functionMap[g], defined[g])
  BY <1>1 DEF ReturnInv, FinishedReturn
<1>4. CurrentFunction'
  BY <1>1 DEF CurrentFunction
<1>5. FinishedReturn'
  BY <1>1, <1>2, <1>3 DEF FinishedReturn
<1> QED
  BY <1>4, <1>5 DEF ReturnInv

LEMMA StartFunctionReturns ==
  ASSUME SInv, ReturnInv, NEW f \in Funs, NEW returnType \in {"NONE", "INT"},
         startFunction(f, returnType)
  PROVE  ReturnInv'
<1> DEFINE lines == tac.codeLines
           label == IF LooksUp(f) THEN functionMap[f] ELSE labelCount + 1
           node == [kind |-> "function", name |-> f, returnType |-> returnType,
                    codelines |-> Len(lines)]
           entry == Len(lines) + 1
<1>1. /\ label \in Labels /\ open = <<>> /\ open' = Append(open, node)
      /\ tac' = addFirst(tac, "ENTRY", label) /\ ~aborted /\ aborted' = aborted
      /\ DOMAIN defined' = DOMAIN defined \cup {f} /\ defined'[f] = returnType
      /\ f \notin DOMAIN defined
      /\ \A g \in DOMAIN defined : defined'[g] = defined[g]
  BY DEF startFunction, Enter, HasRoom
<1>2. /\ functionMap'[f] = label
      /\ \A g \in DOMAIN functionMap : functionMap'[g] = functionMap[g]
  <2>1. CASE LooksUp(f)
    BY <2>1 DEF startFunction, books, LooksUp
  <2>2. CASE ~LooksUp(f)
    BY <2>2 DEF startFunction, addFunction, LooksUp
  <2> QED
    BY <2>1, <2>2
<1>3. /\ lines \in Seq(Line) /\ tac \in TacState
      /\ \A g \in DOMAIN defined : g \in DOMAIN functionMap
  BY DEF SInv, Inv, TacState, MapsOK
<1>4. \A g \in DOMAIN defined : functionMap[g] # label
  <2>1. Inv' /\ LInv'
    BY StartFunctionStep, StartFunctionLabels DEF SInv
  <2>2. DOMAIN defined' \subseteq DOMAIN functionMap'
    BY <2>1 DEF Inv, MapsOK
  <2>3. \A g \in DOMAIN defined : functionMap'[g] # functionMap'[f]
    BY <1>1, <2>1, <2>2 DEF LInv, CallsReachDefinition
  <2> QED
    BY <1>2, <1>3, <2>3
<1> HIDE DEF label
<1>5. PICK l : LineOf(l, "ENTRY", NoVar, label) /\ tac'.codeLines = Append(lines, l)
  BY <1>1, <1>3, LabelAdded
<1>6. l \in Line /\ l.op = "ENTRY" /\ l.dest = label
  BY <1>5 DEF LineOf
<1> HIDE DEF lines
<1> DEFINE longer == Append(lines, l)
<1>7. /\ Len(lines) \in Nat /\ entry \in Nat /\ Len(longer) = entry /\ longer[entry] = l
      /\ longer \in Seq(Line) /\ DOMAIN longer = 1 .. entry /\ entry \in 1 .. entry
  BY <1>3, <1>6, LongerLines
<1> HIDE DEF longer
<1>8. EntryOf(longer, entry, entry)
  BY <1>6, <1>7 DEF EntryOf
<1>9. open' # <<>> /\ open'[1] = node
  BY <1>1
<1>10. CurrentFunction'
  <2>1. /\ open'[1].name = f /\ open'[1].returnType = returnType
        /\ open'[1].codelines + 1 = entry
    BY <1>9
  <2>2. tac'.codeLines = longer
    BY <1>5 DEF longer
  <2> HIDE DEF node, entry
  <2> QED
    BY <1>1, <1>2, <1>6, <1>7, <1>8, <2>1, <2>2 DEF CurrentFunction
<1>11. ASSUME NEW g \in DOMAIN defined', g # f
       PROVE  Returns(longer, functionMap'[g], defined'[g])
  <2>1. /\ g \in DOMAIN defined /\ functionMap'[g] = functionMap[g]
        /\ defined'[g] = defined[g]
    BY <1>1, <1>2, <1>3, <1>11
  <2>2. Returns(lines, functionMap[g], defined[g])
    BY <1>1, <2>1 DEF ReturnInv, FinishedReturn, lines
  <2>3. ~OfFunction(longer, entry, functionMap[g])
    <3>1. SUFFICES ASSUME NEW e \in 1 .. Len(longer), EntryOf(longer, e, entry),
                          longer[e].dest = functionMap[g]
                   PROVE  FALSE
      BY DEF OfFunction
    <3>2. e = entry
      <4> HIDE DEF entry
      <4> QED
        BY <1>7, <1>8, <3>1, OneEntry
    <3> QED
      BY <1>4, <1>6, <1>7, <2>1, <3>1, <3>2
  <2>4. Returns(longer, functionMap[g], defined[g])
    BY <1>3, <1>6, <2>2, <2>3, ReturnsKept DEF longer
  <2> QED
    BY <2>1, <2>4
<1>12. FinishedReturn'
  <2>1. open'[1].name = f
    BY <1>9
  <2>2. tac'.codeLines = longer
    BY <1>5 DEF longer
  <2> QED
    BY <1>9, <1>11, <2>1, <2>2 DEF FinishedReturn
<1> QED
  BY <1>10, <1>12 DEF ReturnInv

(* A function is accepted when its returns have its type; a void function  *)
(* gets the one it may lack.                                               *)
LEMMA EndFunctionReturns ==
  ASSUME SInv, ReturnInv, endFunction
  PROVE  ReturnInv'
<1> DEFINE lines == tac.codeLines
           longer == tac'.codeLines
           here == open[1].name
           entry == open[1].codelines + 1
           label == functionMap[here]
<1>1. /\ open # <<>> /\ Here = open[1] /\ open' = <<>> /\ Here \in Node /\ Here.kind = "function"
      /\ functionMap' = functionMap /\ defined' = defined /\ ~aborted
      /\ aborted' = ReturnsMismatch(open[1])
      /\ \/ NeedsReturn(open[1]) /\ tac' = addLineWith(tac, "RET", NoVar, NoLabel)
         \/ ~NeedsReturn(open[1]) /\ tac' = tac
  BY HereIsNode, Left, OutermostOwes
  DEF endFunction, SInv, Inv, books, HasRoom, addLine
<1>2. Inv /\ LInv /\ Inv' /\ LInv' /\ lines \in Seq(Line) /\ longer \in Seq(Line)
  BY EndFunctionStep, StatementLabels DEF SInv, Inv, TacState
<1>3. /\ here \in DOMAIN functionMap /\ here \in DOMAIN defined
      /\ defined[here] = open[1].returnType
      /\ InFunction(lines, entry, label)
  BY <1>1, <1>2 DEF ReturnInv, CurrentFunction, InFunction, Inv, MapsOK
<1>4. OthersReturn(lines, here)
  BY <1>1 DEF ReturnInv, FinishedReturn, OthersReturn
<1>5. CurrentFunction'
  BY <1>1 DEF CurrentFunction
<1> SUFFICES ASSUME ~aborted'
             PROVE  \A f \in DOMAIN defined : Returns(longer, functionMap[f], defined[f])
  BY <1>1, <1>5 DEF ReturnInv, FinishedReturn
<1>6. /\ defined[here] # "NONE" => \E i \in entry .. Len(lines) : lines[i].op = "RET"
      /\ \A i \in entry .. Len(lines) :
           lines[i].op = "RET" => TypeOfReturn(lines[i]) = defined[here]
  BY <1>1, <1>3 DEF ReturnsMismatch, retStatements
<1>7. /\ InFunction(longer, entry, label) /\ OthersReturn(longer, here)
      /\ \E i \in entry .. Len(longer) : longer[i].op = "RET"
      /\ \A i \in entry .. Len(longer) :
           longer[i].op = "RET" => TypeOfReturn(longer[i]) = defined[here]
      /\ defined[here] = "NONE" => longer[Len(longer)].op = "RET"
  <2>1. CASE NeedsReturn(open[1])
    <3>1. PICK l : LineOf(l, "RET", NoVar, NoLabel) /\ longer = Append(lines, l)
      BY <1>1, <2>1, AddedHere
    <3>2. l \in Line /\ l.op = "RET" /\ TypeOfReturn(l) = "NONE" /\ l.op # "ENTRY"
      BY <3>1 DEF LineOf, TypeOfReturn
    <3>3. defined[here] = "NONE"
      BY <1>3, <2>1 DEF NeedsReturn
    <3> HIDE DEF lines, longer, here, entry, label
    <3>4. /\ InFunction(Append(lines, l), entry, label)
          /\ OthersReturn(Append(lines, l), here)
      BY <1>2, <1>3, <1>4, <3>2, OneMore DEF label
    <3>5. /\ Len(longer) = Len(lines) + 1 /\ Len(lines) \in Nat
          /\ longer[Len(lines) + 1] = l
          /\ \A i \in 1 .. Len(lines) : longer[i] = lines[i]
      BY <1>2, <3>1, <3>2, LongerLines
    <3>6. entry \in 1 .. Len(lines)
      BY <1>3 DEF InFunction
    <3>7. \A i \in entry .. Len(longer) :
            (i \in entry .. Len(lines) /\ longer[i] = lines[i]) \/ i = Len(lines) + 1
      BY <3>5, <3>6
    <3>8. \A i \in entry .. Len(longer) :
            longer[i].op = "RET" => TypeOfReturn(longer[i]) = defined[here]
      BY <1>6, <3>2, <3>3, <3>5, <3>7
    <3>9. Len(longer) \in entry .. Len(longer) /\ longer[Len(longer)].op = "RET"
      BY <3>2, <3>5, <3>6
    <3> QED
      BY <3>1, <3>4, <3>8, <3>9
  <2>2. CASE ~NeedsReturn(open[1])
    <3>1. longer = lines
      BY <1>1, <2>2
    <3>2. defined[here] = "NONE" => lines[Len(lines)].op = "RET"
      BY <1>3, <2>2 DEF NeedsReturn, Last
    <3>3. Len(lines) \in entry .. Len(lines)
      <4>1. entry \in 1 .. Len(lines) /\ Len(lines) \in Nat
        BY <1>2, <1>3 DEF InFunction
      <4> HIDE DEF lines, entry
      <4> QED
        BY <4>1
    <3> HIDE DEF lines, longer, entry, here
    <3> QED
      BY <1>3, <1>4, <1>6, <3>1, <3>2, <3>3
  <2> QED
    BY <2>1, <2>2
<1>8. EntriesIn(longer, label) = {entry}
  <2>1. \E i : EntriesIn(longer, label) = {i}
    BY <1>1, <1>2, <1>3 DEF LInv, CallsReachDefinition, EntriesOf
  <2>2. entry \in EntriesIn(longer, label)
    BY <1>7 DEF InFunction, EntriesIn, EntryOf
  <2> QED
    BY <2>1, <2>2
<1>9. Returns(longer, label, defined[here])
  <2> HIDE DEF longer, label, entry, here
  <2> QED
    BY <1>2, <1>7, <1>8, LastFunctionReturns
<1> QED
  BY <1>7, <1>9 DEF OthersReturn

LEMMA ReturnsInitially == Init => ReturnInv
<1>1. DOMAIN <<>> = {}
  OBVIOUS
<1> QED
  BY <1>1 DEF Init, ReturnInv, CurrentFunction, FinishedReturn

LEMMA ReturnsStep == SInv /\ ReturnInv /\ [Next]_vars => ReturnInv'
<1> SUFFICES ASSUME SInv, ReturnInv, [Next]_vars PROVE ReturnInv'
  OBVIOUS
<1>1. CASE Next
  BY <1>1, PrototypeReturns, StartFunctionReturns, EndFunctionReturns, StatementReturns
  DEF Next, Statement
<1>2. CASE UNCHANGED vars
  BY <1>2 DEF vars, books, ReturnInv, CurrentFunction, FinishedReturn
<1> QED
  BY <1>1, <1>2

LEMMA DeliveredReturns ==
  ASSUME SInv, ReturnInv
  PROVE  FunctionsReturn
<1> DEFINE lines == tac.codeLines
           p == [store |-> {}, lines |-> lines]
<1> SUFFICES ASSUME Converted, NEW f \in DOMAIN defined
             PROVE  LET here == {i \in Lines(p) : FunctionAt(p, i) = functionMap[f]}
                        rets == {i \in here : p.lines[i].op = "RET"}
                    IN /\ rets # {}
                       /\ \A i \in rets : TypeOfReturn(p.lines[i]) = defined[f]
                       /\ defined[f] = "NONE" => \A i \in here : EndOf(i) => i \in rets
  BY DEF FunctionsReturn
<1>1. Returns(lines, functionMap[f], defined[f]) /\ Owned(lines) /\ lines \in Seq(Line)
  BY DEF Converted, ReturnInv, FinishedReturn, SInv, ShapeInv, Shape, Inv, TacState
<1>2. ASSUME NEW i \in 1 .. Len(lines)
      PROVE  FunctionAt(p, i) = functionMap[f] <=> OfFunction(lines, i, functionMap[f])
  <2>1. PICK e \in 1 .. Len(lines) : EntryOf(lines, e, i)
    BY <1>1 DEF Owned
  <2>2. FunctionAt(p, i) = lines[e].dest
    <3> HIDE DEF lines
    <3> QED
      BY <2>1, OwnerNames
  <2>3. \A d \in 1 .. Len(lines) : EntryOf(lines, d, i) => d = e
    <3> HIDE DEF lines
    <3> QED
      BY <2>1, OneEntry
  <2> QED
    BY <2>1, <2>2, <2>3 DEF OfFunction
<1>3. ASSUME NEW i \in 1 .. Len(lines), EndOf(i), i < Len(lines)
      PROVE  lines[i + 1].op = "ENTRY"
  <2>1. i + 1 \in DOMAIN lines
    BY <1>1, <1>3
  <2> QED
    BY <1>3, <2>1 DEF EndOf
<1> HIDE DEF lines
<1> QED
  BY <1>1, <1>2, <1>3 DEF Returns, Lines

(* The functions of the delivered code return, and return what they        *)
(* declare; void functions end with a return.                              *)
THEOREM ReturnsCorrect == Spec => []FunctionsReturn
BY ShapeHolds, ReturnsInitially, ReturnsStep, DeliveredReturns, PTL DEF Spec

-----------------------------------------------------------------------------
(* The books of returns.                                                   *)

BookedAs(f) ==
  IF functionMap[f] \in DOMAIN functionReturnMap
  THEN functionReturnMap[functionMap[f]] ELSE {}

LEMMA BooksUntouched ==
  ASSUME SInv, BookInv, prototyped' = prototyped, explicitReturns' = explicitReturns,
         UNCHANGED books, defined' = defined,
         open' = <<>> \/ (open # <<>> /\ open'[1] = open[1])
  PROVE  BookInv'
<1>1. ReturnsBooked'
  BY DEF BookInv, ReturnsBooked, ReturnsOf, books
<1>2. BooksKept'
  BY DEF BookInv, BooksKept, books
<1> QED
  BY <1>1, <1>2 DEF BookInv

LEMMA StartFunctionBooks ==
  ASSUME SInv, BookInv, NEW f \in Funs, NEW returnType \in {"NONE", "INT"},
         startFunction(f, returnType)
  PROVE  BookInv'
<1> DEFINE new == labelCount + 1
           node == [kind |-> "function", name |-> f, returnType |-> returnType,
                    codelines |-> Len(tac.codeLines)]
<1> SUFFICES ASSUME prototyped = {} PROVE BookInv'
  BY DEF BookInv, ReturnsBooked, BooksKept, startFunction, history
<1>1. /\ f \notin DOMAIN defined /\ DOMAIN defined' = DOMAIN defined \cup {f}
      /\ explicitReturns' = explicitReturns /\ prototyped' = prototyped
      /\ open' = Append(open, node) /\ open = <<>>
  BY DEF startFunction, history, Enter
<1>2. /\ DOMAIN functionMap \subseteq DOMAIN defined
      /\ \A r \in explicitReturns : r[1] \in DOMAIN functionMap
      /\ \A label \in DOMAIN functionReturnMap :
           \E g \in DOMAIN functionMap : functionMap[g] = label
  BY DEF BookInv, BooksKept
<1>3. f \notin DOMAIN functionMap /\ ~LooksUp(f)
  BY <1>1, <1>2 DEF LooksUp
<1>4. /\ DOMAIN functionMap' = DOMAIN functionMap \cup {f} /\ functionMap'[f] = new
      /\ \A g \in DOMAIN functionMap : functionMap'[g] = functionMap[g]
      /\ currentFunctionLabel' = new /\ functionReturnMap' = functionReturnMap
  BY <1>3 DEF startFunction, addFunction
<1>5. new \notin DOMAIN functionReturnMap
  <2>1. labelCount \in Nat /\ Labels \subseteq Nat
    BY LabelsAssumption DEF SInv, Inv, MapsOK
  <2>2. \A g \in DOMAIN functionMap : functionMap[g] # new
    BY <2>1 DEF SInv, Inv, MapsOK, LInv, LabelsUsed
  <2> QED
    BY <1>2, <2>2
<1>6. open' # <<>> /\ open'[1] = node
  BY <1>1
<1> HIDE DEF new
<1>7. ReturnsBooked'
  <2>1. ReturnsOf(f)' = {}
    BY <1>1, <1>2, <1>3 DEF ReturnsOf
  <2>2. \A g \in DOMAIN functionMap : ReturnsOf(g)' = BookedAs(g)
    BY <1>1 DEF BookInv, ReturnsBooked, ReturnsOf, BookedAs
  <2> QED
    BY <1>4, <1>5, <2>1, <2>2 DEF ReturnsBooked, BookedAs
<1>8. BooksKept'
  <2>1. open'[1].name = f
    BY <1>6
  <2> HIDE DEF node
  <2> QED
    BY <1>1, <1>2, <1>4, <2>1 DEF BooksKept
<1> QED
  BY <1>7, <1>8 DEF BookInv

(* addReturn books the block for the function being converted.             *)
LEMMA ReturnBooks ==
  ASSUME SInv, BookInv, NEW value \in Vars \cup {NoVar}, convertReturnStmt(value)
  PROVE  BookInv'
<1> DEFINE block == tac.currentBasicBlock
           here == open[1].name
<1>1. /\ prototyped' = prototyped /\ open' = open /\ open # <<>> /\ defined' = defined
      /\ functionMap' = functionMap /\ currentFunctionLabel' = currentFunctionLabel
      /\ explicitReturns' = explicitReturns \cup {<<here, block>>}
  BY HereIsNode DEF convertReturnStmt, SInv, Inv
<1>2. addReturn(block)
  <2>1. "RET" \in Ops /\ NoLabel \in Labels \cup {NoLabel} /\ tac \in TacState
    BY DEF Ops, SInv, Inv
  <2>2. addLineWith(tac, "RET", value, NoLabel).currentBasicBlock = block
    BY <2>1, AddedLine
  <2> QED
    BY <2>2 DEF convertReturnStmt, returnBlock
<1> HIDE DEF block
<1> SUFFICES ASSUME prototyped = {} PROVE BookInv'
  BY <1>1 DEF BookInv, ReturnsBooked, BooksKept
<1>3. /\ DOMAIN functionMap \subseteq DOMAIN defined
      /\ here \in DOMAIN functionMap /\ currentFunctionLabel = functionMap[here]
      /\ \A r \in explicitReturns : r[1] \in DOMAIN functionMap
      /\ \A label \in DOMAIN functionReturnMap :
           \E g \in DOMAIN functionMap : functionMap[g] = label
  BY <1>1 DEF BookInv, BooksKept
<1>4. \A g \in DOMAIN functionMap : g # here => functionMap[g] # functionMap[here]
  BY <1>3 DEF SInv, LInv, CallsReachDefinition
<1> HIDE DEF here
<1>5. /\ DOMAIN functionReturnMap' = DOMAIN functionReturnMap \cup {functionMap[here]}
      /\ \A label \in DOMAIN functionReturnMap :
           label # functionMap[here] =>
             functionReturnMap'[label] = functionReturnMap[label]
      /\ functionReturnMap'[functionMap[here]] = BookedAs(here) \cup {block}
  BY <1>2, <1>3 DEF addReturn, BookedAs
<1>6. ASSUME NEW g \in DOMAIN functionMap
      PROVE  ReturnsOf(g)' = BookedAs(g)'
  <2>1. ReturnsOf(g) = BookedAs(g)
    BY DEF BookInv, ReturnsBooked, BookedAs
  <2>2. CASE g = here
    <3>1. ReturnsOf(g)' = ReturnsOf(g) \cup {block}
      <4>1. {s \in explicitReturns' : s[1] = g}
              = {s \in explicitReturns : s[1] = g} \cup {<<here, block>>}
        BY <1>1, <2>2
      <4>2. <<here, block>>[2] = block
        OBVIOUS
      <4> QED
        BY <4>1, <4>2 DEF ReturnsOf
    <3>2. BookedAs(g)' = BookedAs(g) \cup {block}
      BY <1>1, <1>5, <2>2 DEF BookedAs
    <3> QED
      BY <2>1, <3>1, <3>2
  <2>3. CASE g # here
    <3>1. ReturnsOf(g)' = ReturnsOf(g)
      BY <1>1, <2>3 DEF ReturnsOf
    <3>2. BookedAs(g)' = BookedAs(g)
      BY <1>1, <1>4, <1>5, <2>3 DEF BookedAs
    <3> QED
      BY <2>1, <3>1, <3>2
  <2> QED
    BY <2>2, <2>3
<1>7. ReturnsBooked'
  BY <1>1, <1>6 DEF ReturnsBooked, BookedAs
<1>8. BooksKept'
  <2>1. \A r \in explicitReturns' : r[1] \in DOMAIN functionMap
    BY <1>1, <1>3
  <2> QED
    BY <1>1, <1>3, <1>5, <2>1 DEF BooksKept, here
<1> QED
  BY <1>7, <1>8 DEF BookInv

LEMMA BooksInitially == Init => BookInv
<1>1. DOMAIN <<>> = {}
  OBVIOUS
<1> QED
  BY <1>1 DEF Init, BookInv, ReturnsBooked, BooksKept

LEMMA BooksStep == SInv /\ BookInv /\ [Next]_vars => BookInv'
<1> SUFFICES ASSUME SInv, BookInv, [Next]_vars PROVE BookInv'
  OBVIOUS
<1>1. CASE \E f \in Funs : convertFunctionPrototype(f)
  <2>1. prototyped' # {}
    BY <1>1 DEF convertFunctionPrototype
  <2> QED
    BY <2>1 DEF BookInv, ReturnsBooked, BooksKept
<1>2. CASE \E f \in Funs, returnType \in {"NONE", "INT"} : startFunction(f, returnType)
  BY <1>2, StartFunctionBooks
<1>3. CASE \E value \in Vars \cup {NoVar} : convertReturnStmt(value)
  BY <1>3, ReturnBooks
<1>4. CASE Statement /\ UNCHANGED <<books, history>>
  BY <1>4, StatementAdds, BooksUntouched DEF history
<1>5. CASE endFunction
  <2>1. open' = <<>> /\ UNCHANGED <<books, defined, history>>
    BY <1>5, HereIsNode, Left DEF endFunction, SInv, Inv
  <2> QED
    BY <2>1, BooksUntouched DEF history
<1>6. CASE UNCHANGED vars
  BY <1>6, BooksUntouched DEF vars, history
<1>7. \/ \E f \in Funs : convertfunctionCallExpr(f)
      \/ \E hasElse \in BOOLEAN : startIf(hasElse)
      \/ plainLine \/ endThen \/ startElse \/ endElse
      \/ startWhile \/ testWhile \/ endWhile
      => Statement /\ UNCHANGED <<books, history>>
  BY DEF Statement, convertfunctionCallExpr, startIf, plainLine, endThen, startElse,
     endElse, startWhile, testWhile, endWhile
<1> QED
  BY <1>1, <1>2, <1>3, <1>4, <1>5, <1>6, <1>7 DEF Next

(* lookupFunctionReturn knows the blocks of the return statements of each  *)
(* function and no other, in programs without prototypes.                  *)
THEOREM BookingCorrect == Spec => []ReturnsBooked
<1>1. BookInv => ReturnsBooked
  BY DEF BookInv
<1> QED
  BY <1>1, ShapeHolds, BooksInitially, BooksStep, PTL DEF Spec

-----------------------------------------------------------------------------
(* Dead code.  A line is entered from the line above it, unless that one   *)
(* jumps away or returns; behind a jump away there are only labels, and a  *)
(* jump to such a label stands above.                                      *)

NamedIn(lines, label, i) ==
  \E j \in 1 .. i : IsJump(lines[j]) /\ lines[j].dest = label

ComesFrom(lines, i) ==
  \/ lines[i].op = "ENTRY"
  \/ lines[i - 1].op # "JUMP"
  \/ lines[i].op = "LABEL" /\ NamedIn(lines, lines[i].dest, i - 1)

LinesEntered(lines) == \A i \in 2 .. Len(lines) : ComesFrom(lines, i)

(* The exits that open nodes owe are named by a jump already.              *)
ExitsNamed(lines, exits) ==
  \A label \in exits : NamedIn(lines, label, Len(lines))

EnteredInv ==
  /\ LinesEntered(tac.codeLines)
  /\ tac.codeLines # <<>> => tac.codeLines[Len(tac.codeLines)].op # "JUMP"
  /\ ExitsNamed(tac.codeLines, ExitsOf(open))

LEMMA NamedLonger ==
  ASSUME NEW lines \in Seq(Line), NEW l \in Line
  PROVE  LET longer == Append(lines, l)
             n == Len(lines)
         IN /\ \A i \in 0 .. n : \A label :
                 NamedIn(longer, label, i) <=> NamedIn(lines, label, i)
            /\ \A label : NamedIn(longer, label, n + 1) <=>
                 NamedIn(lines, label, n) \/ (IsJump(l) /\ l.dest = label)
<1> DEFINE longer == Append(lines, l)
           n == Len(lines)
<1>1. /\ n \in Nat /\ Len(longer) = n + 1 /\ longer[n + 1] = l
      /\ \A i \in 1 .. n : longer[i] = lines[i]
  BY LongerLines
<1> HIDE DEF longer, n
<1>2. ASSUME NEW i \in 0 .. n, NEW label
      PROVE  NamedIn(longer, label, i) <=> NamedIn(lines, label, i)
  <2>1. \A j \in 1 .. i : longer[j] = lines[j]
    BY <1>1
  <2> QED
    BY <2>1 DEF NamedIn
<1>3. ASSUME NEW label
      PROVE  NamedIn(longer, label, n + 1) <=>
               NamedIn(lines, label, n) \/ (IsJump(l) /\ l.dest = label)
  <2>1. 1 .. n + 1 = (1 .. n) \cup {n + 1}
    BY <1>1
  <2> QED
    BY <1>1, <2>1 DEF NamedIn
<1> QED
  BY <1>2, <1>3 DEF longer, n

LEMMA OneMoreEntered ==
  ASSUME NEW lines \in Seq(Line), NEW l \in Line, LinesEntered(lines),
         lines # <<>> => \/ lines[Len(lines)].op # "JUMP"
                         \/ l.op = "LABEL" /\ NamedIn(lines, l.dest, Len(lines))
  PROVE  LinesEntered(Append(lines, l))
<1> DEFINE longer == Append(lines, l)
           n == Len(lines)
<1>1. /\ n \in Nat /\ Len(longer) = n + 1 /\ longer[n + 1] = l
      /\ \A i \in 1 .. n : longer[i] = lines[i]
      /\ (lines # <<>> <=> n # 0)
  BY LongerLines
<1>2. \A i \in 0 .. n : \A label : NamedIn(longer, label, i) <=> NamedIn(lines, label, i)
  BY NamedLonger
<1> HIDE DEF longer, n
<1>3. ASSUME NEW i \in 2 .. n PROVE ComesFrom(longer, i)
  <2>1. /\ longer[i] = lines[i] /\ longer[i - 1] = lines[i - 1] /\ i - 1 \in 0 .. n
    BY <1>1
  <2>2. ComesFrom(lines, i)
    BY DEF LinesEntered, n
  <2> DEFINE k == i - 1
  <2>3. NamedIn(longer, lines[i].dest, k) <=> NamedIn(lines, lines[i].dest, k)
    <3>1. k \in 0 .. n
      BY <2>1
    <3> HIDE DEF k
    <3> QED
      BY <1>2, <3>1
  <2> QED
    BY <2>1, <2>2, <2>3 DEF ComesFrom
<1>4. ASSUME n + 1 >= 2 PROVE ComesFrom(longer, n + 1)
  <2>1. n \in 1 .. n /\ n \in 0 .. n /\ lines # <<>> /\ n + 1 - 1 = n
    BY <1>1, <1>4
  <2>2. longer[n] = lines[n]
    BY <1>1, <2>1
  <2>3. NamedIn(longer, l.dest, n) <=> NamedIn(lines, l.dest, n)
    BY <1>2, <2>1
  <2>4. \/ lines[n].op # "JUMP"
        \/ l.op = "LABEL" /\ NamedIn(lines, l.dest, n)
    BY <2>1 DEF n
  <2> QED
    BY <1>1, <2>1, <2>2, <2>3, <2>4 DEF ComesFrom
<1>5. \A i \in 2 .. n + 1 : i \in 2 .. n \/ (i = n + 1 /\ n + 1 >= 2)
  BY <1>1
<1>6. LinesEntered(longer)
  BY <1>1, <1>3, <1>4, <1>5 DEF LinesEntered
<1> QED
  BY <1>6 DEF longer

(* A step that adds one line, not a jump away.                             *)
LEMMA OneLineEntered ==
  ASSUME SInv, EnteredInv, NEW l \in Line, l.op # "JUMP",
         tac'.codeLines = Append(tac.codeLines, l),
         \A label \in ExitsOf(open') :
           label \in ExitsOf(open) \/ (IsJump(l) /\ l.dest = label)
  PROVE  EnteredInv'
<1> DEFINE lines == tac.codeLines
           n == Len(lines)
<1>1. lines \in Seq(Line)
  BY NewIsUndeclared
<1>2. /\ LinesEntered(lines) /\ ExitsNamed(lines, ExitsOf(open))
      /\ lines # <<>> => lines[Len(lines)].op # "JUMP"
  BY DEF EnteredInv
<1> HIDE DEF lines
<1>3. LinesEntered(Append(lines, l))
  BY <1>1, <1>2, OneMoreEntered
<1>4. /\ Len(Append(lines, l)) = n + 1 /\ Append(lines, l)[n + 1] = l
  BY <1>1, LongerLines
<1>5. \A label : NamedIn(Append(lines, l), label, n + 1) <=>
                   NamedIn(lines, label, n) \/ (IsJump(l) /\ l.dest = label)
  BY <1>1, NamedLonger
<1>6. ExitsNamed(Append(lines, l), ExitsOf(open'))
  BY <1>2, <1>4, <1>5 DEF ExitsNamed
<1>7. tac'.codeLines = Append(lines, l)
  BY DEF lines
<1> QED
  BY <1>3, <1>4, <1>6, <1>7 DEF EnteredInv

(* A step that adds a jump away and behind it the label of an exit.        *)
LEMMA TwoLinesEntered ==
  ASSUME SInv, EnteredInv, NEW jump \in Line, NEW l \in Line,
         IsJump(jump), l.op = "LABEL", l.dest \in ExitsOf(open),
         tac'.codeLines = Append(Append(tac.codeLines, jump), l),
         \A label \in ExitsOf(open') : label \in ExitsOf(open) \/ jump.dest = label
  PROVE  EnteredInv'
<1> DEFINE lines == tac.codeLines
           mid == Append(lines, jump)
           n == Len(lines)
<1>1. lines \in Seq(Line)
  BY NewIsUndeclared
<1>2. /\ LinesEntered(lines) /\ ExitsNamed(lines, ExitsOf(open))
      /\ lines # <<>> => lines[Len(lines)].op # "JUMP"
  BY DEF EnteredInv
<1> HIDE DEF lines
<1>3. LinesEntered(mid) /\ mid \in Seq(Line) /\ Len(mid) = n + 1 /\ n \in Nat
  BY <1>1, <1>2, OneMoreEntered, LongerLines
<1>4. \A label : NamedIn(mid, label, n + 1) <=>
                   NamedIn(lines, label, n) \/ (IsJump(jump) /\ jump.dest = label)
  BY <1>1, NamedLonger
<1>5. tac'.codeLines = Append(mid, l)
  BY DEF lines
<1> HIDE DEF mid
<1>6. NamedIn(mid, l.dest, n + 1)
  BY <1>2, <1>4 DEF ExitsNamed
<1>7. LinesEntered(Append(mid, l))
  BY <1>3, <1>6, OneMoreEntered
<1>8. Len(Append(mid, l)) = n + 2 /\ Append(mid, l)[n + 2] = l
  <2>1. Len(Append(mid, l)) = Len(mid) + 1 /\ Append(mid, l)[Len(mid) + 1] = l
    BY <1>3, LongerLines
  <2>2. Len(mid) + 1 = n + 2
    BY <1>3
  <2> QED
    BY <2>1, <2>2
<1>9. \A label : NamedIn(mid, label, n + 1) => NamedIn(Append(mid, l), label, n + 2)
  <2>1. \A label : NamedIn(Append(mid, l), label, Len(mid) + 1) <=>
                     NamedIn(mid, label, Len(mid)) \/ (IsJump(l) /\ l.dest = label)
    BY <1>3, NamedLonger
  <2>2. Len(mid) + 1 = n + 2
    BY <1>3
  <2> QED
    BY <1>3, <2>1, <2>2
<1>10. ExitsNamed(Append(mid, l), ExitsOf(open'))
  BY <1>2, <1>4, <1>8, <1>9 DEF ExitsNamed
<1> QED
  BY <1>5, <1>7, <1>8, <1>10 DEF EnteredInv

(* The node that a step opens or turns into adds its exit to what is owed, *)
(* one that a step leaves adds nothing.                                    *)
LEMMA ExitsAfter ==
  ASSUME SInv
  PROVE  /\ \A node \in Node :
              Enter(node) \/ (open # <<>> /\ Become(node))
                => ExitsOf(open') \subseteq ExitsOf(open) \cup ExitOf(node)
         /\ open # <<>> /\ Leave => ExitsOf(open') \subseteq ExitsOf(open)
<1>1. StackOK /\ open \in Seq(Node)
  BY DEF SInv, Inv, StackOK
<1>2. open # <<>> => /\ Front(open) \in Seq(Node)
                     /\ ExitsOf(Front(open)) \subseteq ExitsOf(open)
  BY <1>1, TopOf
<1>3. ASSUME NEW node \in Node, Enter(node)
      PROVE  ExitsOf(open') \subseteq ExitsOf(open) \cup ExitOf(node)
  BY <1>1, <1>3, Owing DEF Enter
<1>4. ASSUME NEW node \in Node, open # <<>>, Become(node)
      PROVE  ExitsOf(open') \subseteq ExitsOf(open) \cup ExitOf(node)
  <2>1. ExitsOf(Append(Front(open), node)) = ExitsOf(Front(open)) \cup ExitOf(node)
    BY <1>2, <1>4, Owing
  <2> QED
    BY <1>2, <1>4, <2>1 DEF Become
<1> QED
  BY <1>2, <1>3, <1>4 DEF Leave

LEMMA StartFunctionEntered ==
  ASSUME SInv, EnteredInv, NEW f \in Funs, NEW returnType \in {"NONE", "INT"},
         startFunction(f, returnType)
  PROVE  EnteredInv'
<1> DEFINE label == IF LooksUp(f) THEN functionMap[f] ELSE labelCount + 1
           node == [kind |-> "function", name |-> f, returnType |-> returnType,
                    codelines |-> Len(tac.codeLines)]
<1>1. /\ label \in Labels /\ Enter(node) /\ tac' = addFirst(tac, "ENTRY", label)
      /\ tac \in TacState
  BY NewIsUndeclared DEF startFunction
<1>2. node \in Node /\ ExitOf(node) = {}
  <2>1. Len(tac.codeLines) \in Nat
    BY NewIsUndeclared
  <2> QED
    BY <2>1 DEF Node, ExitOf, Exiting
<1> HIDE DEF label, node
<1>3. PICK l : LineOf(l, "ENTRY", NoVar, label) /\ tac'.codeLines = Append(tac.codeLines, l)
  BY <1>1, LabelAdded
<1>4. ExitsOf(open') \subseteq ExitsOf(open)
  BY <1>1, <1>2, ExitsAfter
<1> QED
  BY <1>3, <1>4, OneLineEntered DEF LineOf

(* Lines without label or jump: expressions, calls and returns.            *)
LEMMA SimpleEntered ==
  ASSUME SInv, EnteredInv,
         \/ plainLine
         \/ \E f \in Funs : convertfunctionCallExpr(f)
         \/ \E value \in Vars \cup {NoVar} : convertReturnStmt(value)
  PROVE  EnteredInv'
<1>1. open' = open
  BY DEF plainLine, convertfunctionCallExpr, convertReturnStmt
<1>2. \E l \in Line : l.op # "JUMP" /\ tac'.codeLines = Append(tac.codeLines, l)
  <2>1. CASE plainLine
    <3>1. tac' = addLineWith(tac, "ASSIGN", NoVar, NoLabel)
      BY <2>1 DEF plainLine, addLine
    <3> QED
      BY <3>1, AddedHere DEF LineOf
  <2>2. CASE \E f \in Funs : convertfunctionCallExpr(f)
    <3>1. PICK f \in Funs : convertfunctionCallExpr(f)
      BY <2>2
    <3>2. /\ functionMap[f] \in Labels
          /\ tac' = nextBasicBlock(addLineWith(tac, "CALL", NoVar, functionMap[f]))
      BY <3>1 DEF convertfunctionCallExpr, SInv, Inv, MapsOK, addLast, addLine
    <3>3. PICK l : /\ LineOf(l, "CALL", NoVar, functionMap[f])
                   /\ tac'.codeLines = Append(tac.codeLines, l)
      BY <3>2, AddedHere
    <3> QED
      BY <3>3 DEF LineOf
  <2>3. CASE \E value \in Vars \cup {NoVar} : convertReturnStmt(value)
    <3>1. PICK value \in Vars \cup {NoVar} : convertReturnStmt(value)
      BY <2>3
    <3>2. tac' = nextBasicBlock(addLineWith(tac, "RET", value, NoLabel))
      BY <3>1 DEF convertReturnStmt
    <3>3. PICK l : /\ LineOf(l, "RET", value, NoLabel)
                   /\ tac'.codeLines = Append(tac.codeLines, l)
      BY <3>2, AddedHere
    <3> QED
      BY <3>3 DEF LineOf
  <2> QED
    BY <2>1, <2>2, <2>3
<1> QED
  BY <1>1, <1>2, OneLineEntered

LEMMA EndFunctionEntered ==
  ASSUME SInv, EnteredInv, endFunction
  PROVE  EnteredInv'
<1>1. open' = <<>>
  BY HereIsNode, Left DEF endFunction, SInv, Inv
<1>2. ExitsOf(open') = {}
  BY <1>1, NothingOwed
<1>3. CASE tac' = tac
  BY <1>2, <1>3 DEF EnteredInv, ExitsNamed
<1>4. CASE tac' = addLineWith(tac, "RET", NoVar, NoLabel)
  <2>1. PICK l : LineOf(l, "RET", NoVar, NoLabel) /\ tac'.codeLines = Append(tac.codeLines, l)
    BY <1>4, AddedHere
  <2> QED
    BY <1>2, <2>1, OneLineEntered DEF LineOf
<1> QED
  BY <1>3, <1>4 DEF endFunction, addLine

(* The jump of a branch or loop names the exit of the node it opens.       *)
LEMMA ConditionEntered ==
  ASSUME SInv, EnteredInv, (\E hasElse \in BOOLEAN : startIf(hasElse)) \/ testWhile
  PROVE  EnteredInv'
<1> DEFINE new == labelCount + 1
<1>1. /\ new \in Labels
      /\ tac' = nextBasicBlock(addLineWith(tac, "JUMPFALSE", NoVar, new))
  BY DEF startIf, testWhile, addLast, addLine
<1>2. ExitsOf(open') \subseteq ExitsOf(open) \cup {new}
  <2>1. CASE \E hasElse \in BOOLEAN : startIf(hasElse)
    <3>1. PICK hasElse \in BOOLEAN : startIf(hasElse)
      BY <2>1
    <3> DEFINE node == [kind |-> "then", exit |-> new, hasElse |-> hasElse]
    <3>2. Enter(node) /\ node \in Node /\ ExitOf(node) = {new}
      BY <1>1, <3>1 DEF startIf, Node, ExitOf, Exiting
    <3> HIDE DEF node, new
    <3> QED
      BY <3>2, ExitsAfter
  <2>2. CASE testWhile
    <3> DEFINE node == [kind |-> "body", again |-> Here.again, exit |-> new]
    <3>1. open # <<>> /\ Here.again \in Labels /\ Become(node)
      BY <2>2, HereIsNode, NodeParts DEF testWhile, SInv, Inv
    <3>2. node \in Node /\ ExitOf(node) = {new}
      BY <1>1, <3>1 DEF Node, ExitOf, Exiting
    <3> HIDE DEF node, new
    <3> QED
      BY <3>1, <3>2, ExitsAfter
  <2> QED
    BY <2>1, <2>2
<1> HIDE DEF new
<1>3. PICK l : /\ LineOf(l, "JUMPFALSE", NoVar, new)
               /\ tac'.codeLines = Append(tac.codeLines, l)
  BY <1>1, AddedHere
<1>4. l \in Line /\ l.op # "JUMP" /\ IsJump(l) /\ l.dest = new
  BY <1>3 DEF LineOf, IsJump
<1> QED
  BY <1>2, <1>3, <1>4, OneLineEntered

(* A label alone: behind a branch, or before a loop.                       *)
LEMMA LabelEntered ==
  ASSUME SInv, EnteredInv, endThen \/ endElse \/ startWhile
  PROVE  EnteredInv'
<1>1. \E label \in Labels : tac' = addFirst(tac, "LABEL", label)
  <2>1. CASE endThen \/ endElse
    <3>1. Here.exit \in Labels
      BY <2>1, HereIsNode, NodeParts DEF endThen, endElse, SInv, Inv
    <3> QED
      BY <2>1, <3>1 DEF endThen, endElse
  <2>2. CASE startWhile
    BY <2>2 DEF startWhile
  <2> QED
    BY <2>1, <2>2
<1>2. ExitsOf(open') \subseteq ExitsOf(open)
  <2>1. CASE endThen \/ endElse
    <3>1. open # <<>> /\ Leave
      BY <2>1, HereIsNode DEF endThen, endElse, SInv, Inv
    <3> QED
      BY <3>1, ExitsAfter
  <2>2. CASE startWhile
    <3> DEFINE node == [kind |-> "condition", again |-> labelCount + 1]
    <3>1. Enter(node) /\ node \in Node /\ ExitOf(node) = {}
      BY <2>2 DEF startWhile, Node, ExitOf, Exiting
    <3> HIDE DEF node
    <3> QED
      BY <3>1, ExitsAfter
  <2> QED
    BY <2>1, <2>2
<1>3. PICK label \in Labels : tac' = addFirst(tac, "LABEL", label)
  BY <1>1
<1>4. PICK l : LineOf(l, "LABEL", NoVar, label) /\ tac'.codeLines = Append(tac.codeLines, l)
  BY <1>3, NewIsUndeclared, LabelAdded
<1> QED
  BY <1>2, <1>4, OneLineEntered DEF LineOf

(* A jump away, and behind it the label that an earlier jump named.        *)
LEMMA JumpAwayEntered ==
  ASSUME SInv, EnteredInv, startElse \/ endWhile
  PROVE  EnteredInv'
<1> DEFINE exit == Here.exit
           goal == IF startElse THEN labelCount + 1 ELSE Here.again
<1>1. open # <<>> /\ Here.kind \in Exiting /\ (endWhile => Here.kind = "body")
  BY HereIsNode DEF startElse, endWhile, SInv, Inv, Exiting
<1>2. exit \in ExitsOf(open) /\ exit \in Labels
  BY <1>1, OwedByTop
<1>3. goal \in Labels
  <2>1. Here \in Node
    BY <1>1, TopOf DEF SInv, Inv
  <2> QED
    BY <1>1, <2>1, NodeParts DEF startElse
<1>4. tac' = addFirst(addLine(tac, "JUMP", goal), "LABEL", exit)
  BY DEF startElse, endWhile
<1>5. ExitsOf(open') \subseteq ExitsOf(open) \cup {goal}
  <2>1. CASE startElse
    <3> DEFINE node == [kind |-> "else", exit |-> goal]
    <3>1. Become(node) /\ node \in Node /\ ExitOf(node) = {goal}
      BY <1>3, <2>1 DEF startElse, Node, ExitOf, Exiting
    <3> HIDE DEF node, goal
    <3> QED
      BY <1>1, <3>1, ExitsAfter
  <2>2. CASE endWhile
    <3>1. Leave
      BY <2>2 DEF endWhile
    <3> QED
      BY <1>1, <3>1, ExitsAfter
  <2> QED
    BY <2>1, <2>2
<1> HIDE DEF exit, goal
<1>6. PICK jump, l : /\ LineOf(jump, "JUMP", NoVar, goal)
                     /\ LineOf(l, "LABEL", NoVar, exit)
                     /\ tac'.codeLines = Append(Append(tac.codeLines, jump), l)
  BY <1>2, <1>3, <1>4, NewIsUndeclared, JumpAndLabelAdded
<1>7. /\ jump \in Line /\ IsJump(jump) /\ jump.dest = goal
      /\ l \in Line /\ l.op = "LABEL" /\ l.dest = exit
  BY <1>6 DEF LineOf, IsJump
<1> QED
  BY <1>2, <1>5, <1>6, <1>7, TwoLinesEntered

LEMMA EnteredInitially == Init => EnteredInv
<1> SUFFICES ASSUME Init PROVE EnteredInv
  OBVIOUS
<1>1. tac.codeLines = <<>> /\ ExitsOf(open) = {} /\ 2 .. Len(<<>>) = {}
  BY NothingOwed DEF Init
<1> QED
  BY <1>1 DEF EnteredInv, LinesEntered, ExitsNamed

LEMMA EnteredKept == SInv /\ EnteredInv /\ [Next]_vars => EnteredInv'
<1> SUFFICES ASSUME SInv, EnteredInv, [Next]_vars PROVE EnteredInv'
  OBVIOUS
<1>1. CASE \E f \in Funs : convertFunctionPrototype(f)
  BY <1>1 DEF convertFunctionPrototype, EnteredInv
<1>2. CASE UNCHANGED vars
  BY <1>2 DEF vars, EnteredInv
<1> QED
  BY <1>1, <1>2, StartFunctionEntered, SimpleEntered, EndFunctionEntered,
     ConditionEntered, LabelEntered, JumpAwayEntered
  DEF Next

(* Code that is handed to the analyses holds no line, other than the       *)
(* entries, to which control cannot come from above, except directly       *)
(* behind a return: only return statements leave dead code.                *)
DeliversEntered ==
  Converted =>
    LET p == [store |-> {}, lines |-> tac.codeLines]
    IN \A i \in Lines(p) :
         \/ p.lines[i].op = "ENTRY"
         \/ EnteredFromAbove(p, i)
         \/ p.lines[i - 1].op = "RET"

LEMMA EnteredWhenDelivered ==
  ASSUME SInv, EnteredInv
  PROVE  DeliversEntered
<1> DEFINE lines == tac.codeLines
           p == [store |-> {}, lines |-> lines]
<1> SUFFICES ASSUME Converted, NEW i \in Lines(p), p.lines[i].op # "ENTRY",
                    p.lines[i - 1].op # "RET"
             PROVE  EnteredFromAbove(p, i)
  BY DEF DeliversEntered
<1>1. WellFormed(p)
  BY DeliveredShape DEF DeliversWellFormed
<1>2. /\ p.lines = lines /\ Lines(p) = 1 .. Len(lines) /\ Len(lines) \in Nat
      /\ lines \in Seq(Line)
  BY NewIsUndeclared DEF Lines
<1>3. i \in 2 .. Len(lines) /\ i - 1 \in 1 .. i - 1 /\ i - 1 \in Lines(p) /\ (i - 1) + 1 = i
  <2>1. i # 1
    BY <1>1 DEF WellFormed
  <2> QED
    BY <1>2, <2>1
<1>4. ComesFrom(lines, i)
  BY <1>3 DEF EnteredInv, LinesEntered
<1> HIDE DEF p, lines
<1> DEFINE k == i - 1
<1>5. CASE lines[k].op # "JUMP"
  <2>1. k + 1 = i /\ i \in Lines(p) /\ p.lines[i].op # "ENTRY" /\ k \in 1 .. i - 1
        /\ p.lines[k].op # "RET" /\ p.lines[k].op # "JUMP"
    BY <1>2, <1>3, <1>5
  <2> HIDE DEF k
  <2>2. i \in LineSuccessors(p, k)
    BY <2>1 DEF LineSuccessors
  <2> QED
    BY <2>1, <2>2 DEF EnteredFromAbove
<1>6. CASE lines[i].op = "LABEL" /\ NamedIn(lines, lines[i].dest, k)
  <2>1. PICK j \in 1 .. i - 1 : IsJump(lines[j]) /\ lines[j].dest = lines[i].dest
    BY <1>6 DEF NamedIn
  <2>2. IsDeclarationOf(p.lines[i], lines[i].dest) /\ StartsBlock(p.lines[i])
    BY <1>2, <1>6 DEF IsDeclarationOf, StartsBlock
  <2>3. \A m \in Lines(p) : IsDeclarationOf(p.lines[m], lines[i].dest) => m = i
    BY <1>1, <1>2, <2>2 DEF WellFormed
  <2>4. Position(p, lines[i].dest) = i
    BY <2>2, <2>3 DEF Position
  <2>5. i \in LineSuccessors(p, j)
    BY <1>2, <2>1, <2>4 DEF LineSuccessors, IsJump
  <2> QED
    BY <2>1, <2>5 DEF EnteredFromAbove
<1> QED
  BY <1>2, <1>4, <1>5, <1>6 DEF ComesFrom

(* Dead code begins behind returns only: in delivered code every line that *)
(* is neither an entry nor directly behind a return is entered from a line *)
(* above it, for every nesting of branches, loops, calls and returns.      *)
THEOREM DeadCodeBehindReturns == Spec => []DeliversEntered
<1>1. SInv /\ EnteredInv => DeliversEntered
  BY EnteredWhenDelivered
<1> QED
  BY <1>1, ShapeHolds, EnteredInitially, EnteredKept, PTL DEF Spec
==============================================================================
