------------------------------- MODULE MCLVN -------------------------------
(* All code of NumLines lines: sums and a comparison of a variable and a   *)
(* literal, assignments of earlier results, labels and jumps forward.      *)
EXTENDS LVN

CONSTANTS x, NumLines

MCUserVars == {x}

Operation(op, i, left, right) ==
  [op |-> op, target |-> i, arg1 |-> left, arg2 |-> right, bb |-> 0]
Assignment(v, o) ==
  [op |-> "ASSIGN", target |-> v, arg1 |-> Variable(v), arg2 |-> o, bb |-> 0]
Control(op, o) ==
  [op |-> op, target |-> 0, arg1 |-> o, arg2 |-> NoOperand, bb |-> 0]

LinesAt(i) ==
  {Operation("ADD", i, left, IntLiteral(1)) : left \in {Variable(x), IntLiteral(1)}}
    \cup {Operation("LT", i, Variable(x), IntLiteral(1))}
    \cup {Operation("ADD", i, Variable(x), Variable(x))}
    \cup {Assignment(x, o) : o \in {Variable(j) : j \in 1 .. i - 1}}
    \cup {Control("LABEL", NoOperand), Control("JUMP", NoOperand)}
    \cup {Control("JUMPFALSE", Variable(j)) : j \in {i - 1} \cap 1 .. i}

Numbered(code) ==
  [i \in 1 .. Len(code) |->
     [code[i] EXCEPT !.bb =
        Cardinality({k \in 2 .. i : \/ code[k].op = "LABEL"
                                    \/ code[k - 1].op \in Jumps})]]

(* What a line reads has been computed, and a jump has a label to go to.   *)
Computes(l, i) == l.op \in {"ADD", "LT"} /\ l.target = i

IsCode(code) ==
  \A i \in 1 .. Len(code) :
    /\ \A o \in {code[i].arg1, code[i].arg2} :
         IsVariable(o) /\ o.variable # x => Computes(code[o.variable], o.variable)
    /\ code[i].op \in Jumps =>
         \E k \in i + 1 .. Len(code) : code[k].op = "LABEL"

RECURSIVE Codes(_)
Codes(n) ==
  IF n = 0 THEN {<<>>}
  ELSE {Append(code, l) : code \in Codes(n - 1), l \in LinesAt(n)}

AllCodes == {Numbered(code) : code \in {c \in Codes(NumLines) : IsCode(c)}}
=============================================================================
