------------------------------ MODULE TacCode ------------------------------
(***************************************************************************)
(* Three-address code as Tac::codeLines holds it: a sequence of lines.     *)
(*                                                                         *)
(*   op      ENTRY is a Label with isFunctionEntry(), LABEL any other one; *)
(*           COMPUTE stands for the binary and unary operators             *)
(*   target  the target variable, NoVar for none                           *)
(*   arg1    the variable read through the first operand: a Variable, or   *)
(*   arg2    the target of the Triple that computed it; NoVar for a        *)
(*           literal, a label or an array access                           *)
(*   index   the variables that array accesses of the line use as index    *)
(*   dest    the label a LABEL or ENTRY declares, a jump or call names     *)
(*   bb      id of the line's basic block                                  *)
(*                                                                         *)
(* An ASSIGN and a POP carry their target as first operand too.  The target*)
(* of a store to an array is the ArrayAccess, which is a Variable of its   *)
(* own but not an exact Variable: arg1 is NoVar then.                      *)
(***************************************************************************)
EXTENDS Integers, Sequences

CONSTANTS Vars,     \* variables of the program, temporaries included
          NoVar,    \* no variable in this place
          Labels,   \* identities of Label objects
          NoLabel

ASSUME NoVarAssumption == NoVar \notin Vars

Ops == {"ENTRY", "LABEL", "JUMP", "JUMPFALSE", "RET", "CALL",
        "PUSH", "POP", "ASSIGN", "COMPUTE"}

Line == [op : Ops, target : Vars \cup {NoVar}, arg1 : Vars \cup {NoVar},
         arg2 : Vars \cup {NoVar}, index : SUBSET Vars,
         dest : Labels \cup {NoLabel}, bb : Nat]

containsTargetVar(l) == l.target # NoVar

(* The operands that SubExpression::getVariables and BasicBlock::push_back *)
(* look at: exact Variables and Triples; not what an array access needs.   *)
Operands(l) == {l.arg1, l.arg2} \ {NoVar}

getVariables(l) ==
  (IF l.op = "ASSIGN" THEN {l.arg2} ELSE {l.arg1, l.arg2}) \ {NoVar}

(* What the machine reads when it executes the line.                       *)
Reads(l) ==
  l.index \cup (IF l.op = "POP" THEN {} ELSE getVariables(l))

Writes(l) == {l.target} \ {NoVar}

-----------------------------------------------------------------------------
(* A program p is a record: its lines and the variables of its store.      *)

Lines(p) == 1 .. Len(p.lines)

LinesOf(p, b) == {i \in Lines(p) : p.lines[i].bb = b}

IsDeclarationOf(l, label) == l.op \in {"LABEL", "ENTRY"} /\ l.dest = label

(* The line a label stands at.                                             *)
Position(p, label) ==
  CHOOSE i \in Lines(p) : IsDeclarationOf(p.lines[i], label)

EndsBlock(l) == l.op \in {"JUMP", "JUMPFALSE", "RET", "CALL"}
StartsBlock(l) == l.op \in {"LABEL", "ENTRY"}
IsJump(l) == l.op \in {"JUMP", "JUMPFALSE"}

(* Label of the function a line belongs to.                                *)
FunctionAt(p, i) ==
  LET entries == {j \in 1 .. i : p.lines[j].op = "ENTRY"}
  IN p.lines[CHOOSE j \in entries : \A k \in entries : k <= j].dest

(***************************************************************************)
(* The shape in which the AST converters leave the code: it starts with a  *)
(* function; block ids count up from 0, a new one at every label and after *)
(* every jump, call and return and nowhere else; each label is declared    *)
(* once; a jump names a label of its own function and, being conditional,  *)
(* is not the last line of it.                                             *)
(***************************************************************************)
WellFormed(p) ==
  /\ p.store \subseteq Vars
  /\ p.lines \in Seq(Line)
  /\ p.lines # <<>>
  /\ p.lines[1].op = "ENTRY" /\ p.lines[1].bb = 0
  /\ \A i \in Lines(p) \ {1} :
       LET starts == StartsBlock(p.lines[i]) \/ EndsBlock(p.lines[i - 1])
       IN p.lines[i].bb = p.lines[i - 1].bb + (IF starts THEN 1 ELSE 0)
  /\ \A i \in Lines(p) :
       LET l == p.lines[i] IN
         /\ StartsBlock(l) \/ IsJump(l) => l.dest \in Labels
         /\ StartsBlock(l) =>
              \A j \in Lines(p) : IsDeclarationOf(p.lines[j], l.dest) => j = i
         /\ IsJump(l) =>
              \E j \in Lines(p) : /\ p.lines[j].op = "LABEL"
                                  /\ p.lines[j].dest = l.dest
                                  /\ FunctionAt(p, j) = FunctionAt(p, i)
         /\ l.op = "JUMPFALSE" =>
              i + 1 \in Lines(p) /\ p.lines[i + 1].op # "ENTRY"

-----------------------------------------------------------------------------
(* Meaning of the code, line by line: where control may go after line i.   *)
(* A call comes back to the next line; a function's last line leads        *)
(* nowhere.                                                                *)
LineSuccessors(p, i) ==
  LET l == p.lines[i]
      next == {j \in {i + 1} : j \in Lines(p) /\ p.lines[j].op # "ENTRY"}
  IN CASE l.op = "JUMP"      -> {Position(p, l.dest)}
       [] l.op = "JUMPFALSE" -> {i + 1, Position(p, l.dest)}
       [] l.op = "RET"       -> {}
       [] OTHER              -> next

(* Variable v is needed before line i when some execution from i reads it  *)
(* before writing it.  Set by set: the lines from which that is possible   *)
(* are those that read v, and those that do not write it and lead to one.  *)
(* It is needed after line i when it is before a line that may come next.  *)
NeededFrom(p, v) ==
  LET Grow[n \in 0 .. Len(p.lines)] ==
        IF n = 0 THEN {i \in Lines(p) : v \in Reads(p.lines[i])}
        ELSE LET found == Grow[n - 1]
             IN found \cup
                {i \in Lines(p) : /\ v \notin Writes(p.lines[i])
                                  /\ LineSuccessors(p, i) \cap found # {}}
  IN Grow[Len(p.lines)]

NeededAfter(p, v) ==
  LET before == NeededFrom(p, v)
  IN {i \in Lines(p) : LineSuccessors(p, i) \cap before # {}}

(* Control may come to line i from a line above it.                        *)
EnteredFromAbove(p, i) == \E j \in 1 .. i - 1 : i \in LineSuccessors(p, j)
=============================================================================
