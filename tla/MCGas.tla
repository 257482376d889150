------------------------------- MODULE MCGas -------------------------------
(***************************************************************************)
(* Small programs as the AST converters and LVN leave them, in seven       *)
(* placements of their variables: arithmetic, branches on every comparison, *)
(* with a copy before the jump too, a loop, calls with two arguments, a    *)
(* recursion, arrays of fixed and variable length, FLOATs, stored BOOLs;   *)
(* and code the back end cannot translate.                                 *)
(***************************************************************************)
EXTENDS TacMeaning

MainInts == <<"x", "y", "t", "u", "s", "r">>
CalleeInts == <<"p", "q", "w", "v", "z">>
Floats == {"fx", "fy", "ft", "fp"}
MCVars == ToSet(MainInts) \cup ToSet(CalleeInts) \cup Floats \cup {"b", "c", "el", "no"}
MCFunctions == {"main", "f", "g", "h"}
MCArrays == {"A", "B"}
MCStackBottom == -240
MCTypeOf ==
  [v \in MCVars |-> CASE v \in Floats -> "FLOAT"
                      [] v \in {"b", "c"} -> "BOOL"
                      [] v = "no" -> "NONE"
                      [] OTHER -> "INT"]

(* By position in the two sequences, then b and c; 4 is the stack.         *)
Placements ==
  {<<0, 1, 2, 3, 4, 4, 4, 4>>, <<4, 4, 4, 4, 4, 4, 4, 4>>, <<3, 2, 1, 0, 4, 4, 4, 4>>,
   <<4, 4, 0, 1, 2, 3, 4, 4>>, <<0, 2, 3, 4, 4, 4, 4, 4>>, <<2, 4, 4, 3, 0, 4, 4, 4>>,
   <<4, 4, 4, 4, 4, 4, 0, 2>>}

IndexIn(s, v) == CHOOSE k \in DOMAIN s : s[k] = v

MCColorings ==
  {[v \in MCVars |-> IF v \in ToSet(MainInts) THEN c[IndexIn(MainInts, v)]
                     ELSE IF v \in ToSet(CalleeInts) THEN c[IndexIn(CalleeInts, v)]
                     ELSE IF v = "b" THEN c[7]
                     ELSE IF v = "c" THEN c[8]
                     ELSE NumRegisters] : c \in Placements}

-----------------------------------------------------------------------------
Blank ==
  [op |-> "RET", target |-> NoVar, arg1 |-> NoOperand, arg2 |-> NoOperand,
   dest |-> "main", scope |-> <<1, 0>>]

Enter(f) == [Blank EXCEPT !.op = "ENTRY", !.dest = f, !.scope = <<0, 0>>]
Label(l) == [Blank EXCEPT !.op = "LABEL", !.dest = l]
Jump(l) == [Blank EXCEPT !.op = "JUMP", !.dest = l]
JumpFalse(v, l) == [Blank EXCEPT !.op = "JUMPFALSE", !.arg1 = Var(v), !.dest = l]
Set(v, o) == [Blank EXCEPT !.op = "ASSIGN", !.target = v, !.arg1 = Var(v), !.arg2 = o]
Store(a, o) == [Blank EXCEPT !.op = "ASSIGN", !.target = "el", !.arg1 = a, !.arg2 = o]
Binary(op, v, a, b) == [Blank EXCEPT !.op = op, !.target = v, !.arg1 = a, !.arg2 = b]
Unary(op, v, a) == [Blank EXCEPT !.op = op, !.target = v, !.arg1 = a]
Push(o) == [Blank EXCEPT !.op = "PUSH", !.arg1 = o]
Pop(v) == [Blank EXCEPT !.op = "POP", !.target = v]
Call(v, f) == [Blank EXCEPT !.op = "CALL", !.target = v, !.dest = f]
Return(o) == [Blank EXCEPT !.arg1 = o]
Within(l, scope) == [l EXCEPT !.scope = scope]
N(n) == IntLiteral(n)
F(n) == FloatLiteral(n)

WithArrays(lines, arrays, length, scope) ==
  [lines |-> lines, arrays |-> arrays,
   arrayLength |-> [a \in MCArrays |-> length],
   arrayScope |-> [a \in MCArrays |-> scope],
   params |-> [f |-> IF {"p", "q"} \subseteq {l.target : l \in {k \in ToSet(lines) : k.op = "POP"}}
                     THEN <<"INT", "INT">> ELSE <<"INT">>,
               g |-> <<"FLOAT">>, h |-> <<"INT">>, main |-> <<>>]]

Plain(lines) == WithArrays(lines, <<>>, N(3), <<1, 0>>)

Arithmetic1 ==
  {Plain(<<Enter("main"), Set("x", N(7)), Set("y", N(-2)), Binary(op, "t", Var("x"), o),
           Binary(op2, "u", Var("t"), Var("y")), Return(Var("u"))>>) :
     op, op2 \in ArithmeticOps, o \in {Var("y"), N(3)}}
  \cup
  {Plain(<<Enter("main"), Set("y", N(2)), Binary(op, "t", N(7), Var("y")),
           Unary("MINUS", "u", o), Binary("SUB", "s", Var("t"), Var("u")),
           Return(Var("s"))>>) : op \in ArithmeticOps, o \in {Var("t"), N(5)}}

Branches ==
  {Plain(<<Enter("main"), Set("x", N(1)), Set("y", N(n)), Binary(op, "b", Var("x"), o),
           JumpFalse("b", "L1"), Set("t", N(1)), Jump("L2"), Label("L1"), Set("t", N(2)),
           Label("L2"), Return(Var("t"))>>) :
     op \in LogicOps, n \in 0 .. 2, o \in {Var("y"), N(1)}}
  \cup
  {Plain(<<Enter("main"), Set("fx", F(1)), Binary(op, "b", Var("fx"), F(n)),
           JumpFalse("b", "L1"), Set("t", N(1)), Jump("L2"), Label("L1"), Set("t", N(2)),
           Label("L2"), Return(Var("t"))>>) : op \in LogicOps, n \in 0 .. 2}

(* LVN has put a copy of y between the comparison and the branch on it,    *)
(* where both are changed.                                                 *)
CopyBeforeBranch ==
  {Plain(<<Enter("main"), Set("x", N(1)), Set("y", N(n)), Binary("LT", "b", Var("x"), Var("y")),
           Set("u", Var("y")), Set("y", Var("x")), JumpFalse("b", "L1"), Set("t", N(1)),
           Jump("L2"), Label("L1"), Set("t", Var("u")), Label("L2"),
           Binary("SUB", "s", Var("t"), Var("y")), Return(Var("s"))>>) : n \in 0 .. 2}

Loops ==
  {Plain(<<Enter("main"), Set("x", N(0)), Set("y", N(1)), Label("L1"),
           Binary("LE", "b", Var("x"), N(1)), JumpFalse("b", "L2"),
           Binary("ADD", "t", Var("x"), Var("y")), Set("x", Var("t")), Jump("L1"),
           Label("L2"), Return(Var("x"))>>)}

Calls ==
  {Plain(<<Enter("f"), Pop("p"), Pop("q"), Binary("SUB", "w", Var("p"), Var("q")),
           Return(Var("w")), Enter("main"), Set("x", N(5)), Set("y", N(2)),
           Push(o), Push(o2), Call("r", "f"), Binary("SUB", "s", Var("r"), o3),
           Return(Var("s"))>>) :
     o, o2 \in {Var("x"), Var("y"), N(3)}, o3 \in {Var("x"), Var("y")}}

(* f(p) = if (p < 1) 0 else f(p - 1) + p, called twice; the first time for *)
(* the argument of the second.                                             *)
Recursions ==
  {Plain(<<Enter("f"), Pop("p"), Binary("LT", "c", Var("p"), N(1)), JumpFalse("c", "L1"),
           Return(N(0)), Label("L1"), Binary("SUB", "w", Var("p"), N(1)), Push(Var("w")),
           Call("z", "f"), Binary("ADD", "v", Var("z"), Var("p")), Return(Var("v")),
           Enter("main"), Set("x", N(n)), Push(Var("x")), Call("r", "f"),
           Push(Var("r")), Call("s", "f"), Binary("ADD", "t", Var("s"), Var("x")),
           Return(Var("t"))>>) : n \in 0 .. 2}

Arrays1 ==
  {WithArrays(<<Enter("main"), Set("x", N(1)), Set("y", N(3)),
                Store(Elem("A", N(1)), o), Store(Elem("A", N(2)), Elem("A", Var("x"))),
                Store(Elem("B", Var("x")), N(6)),
                Binary(op, "t", Elem("A", Var("x")), Elem("B", N(1))),
                Set("u", Elem("A", N(2))), Binary("ADD", "s", Var("t"), Var("u")),
                Return(Var("s"))>>,
              <<[array |-> "A", line |-> 3], [array |-> "B", line |-> 5]>>, length, <<1, 0>>) :
     o \in {Var("x"), N(4)}, op \in {"SUB", "MUL"}, length \in {N(3), Var("y")}}

(* An array of an inner block and one of a function that is called; the    *)
(* argument is an element.                                                 *)
Blocks ==
  {WithArrays(<<Enter("f"), Pop("p"), Store(Elem("B", N(1)), Var("p")),
                Binary("ADD", "w", Var("p"), Elem("B", N(1))), Return(Var("w")),
                Enter("main"), Set("x", N(1)), Set("y", N(4)), Set("u", N(9)),
                Within(Store(Elem("A", Var("x")), Var("y")), <<2, 0>>),
                Within(Push(Elem("A", N(1))), <<2, 0>>), Within(Call("r", "f"), <<2, 0>>),
                Within(Set("t", Var("u")), <<2, 0>>),
                Binary("SUB", "s", Var("r"), Var("t")), Return(Var("s"))>>,
              <<[array |-> "B", line |-> 2], [array |-> "A", line |-> 9]>>, N(2), scope) :
     scope \in {<<1, 0>>, <<2, 0>>}}

(* Two blocks of main declare arrays of one name, after one of a function. *)
Redeclared ==
  WithArrays(<<Enter("f"), Pop("p"), Store(Elem("A", N(1)), Var("p")), Return(Var("p")),
               Enter("main"), Set("x", N(1)),
               Within(Store(Elem("B", N(1)), N(5)), <<2, 0>>), Within(Set("t", N(3)), <<2, 0>>),
               Set("y", N(2)), Within(Store(Elem("B", N(1)), Var("y")), <<2, 1>>),
               Within(Set("u", Elem("B", N(1))), <<2, 1>>),
               Push(Var("x")), Call("r", "f"), Return(Var("r"))>>,
             <<[array |-> "A", line |-> 2], [array |-> "B", line |-> 6],
               [array |-> "B", line |-> 9]>>, N(2), <<1, 0>>)

FloatCode ==
  {Plain(<<Enter("h"), Pop("q"), Return(NoOperand),
           Enter("g"), Pop("fp"), Binary("MUL", "ft", Var("fp"), F(2)), Return(Var("ft")),
           Enter("main"), Set("fx", F(6)), Binary(op, "fy", F(3), Var("fx")),
           Push(Var("fy")), Call("fx", "g"), Set("x", N(1)), Set("fy", Var("fx")),
           Binary("LT", "b", Var("fy"), o), JumpFalse("b", "L1"), Set("x", N(2)), Label("L1"),
           Push(Var("x")), Call("no", "h"), Return(Var("x"))>>) :
     op \in ArithmeticOps, o \in {F(0), F(18)}}

(* b = !(x < 0), and an INT placed between the comparison and b.           *)
StoredBool ==
  Plain(<<Enter("main"), Set("x", N(1)), Binary("LT", "c", Var("x"), N(0)), Set("y", N(2)),
          Unary("NOT", "b", Var("c")), Set("t", N(3)), Binary("SUB", "s", Var("t"), Var("y")),
          Return(Var("s"))>>)

-----------------------------------------------------------------------------
(* Code that the back end cannot translate.                                *)

(* if (x + 1), behind another branch or not: no comparison of its own.     *)
StaleConditions ==
  {Plain(<<Enter("main"), Set("x", N(1)), Set("t", N(1))>> \o before
           \o <<Binary("ADD", "u", Var("x"), N(1)), JumpFalse("u", "L1"), Set("t", N(2)),
                Label("L1"), Return(Var("t"))>>) :
     before \in {<<>>,
                 <<Binary("GT", "b", Var("x"), N(1)), JumpFalse("b", "L2"), Label("L2")>>}}

(* if (x), which takes the Variable for a Triple.                          *)
MiscastConditions ==
  {Plain(<<Enter("main"), Set("x", N(1)), Set("t", N(1)), Binary("GT", "b", Var("x"), N(1)),
           JumpFalse("b", "L2"), Label("L2"),
           [JumpFalse("x", "L1") EXCEPT !.arg1 = Miscast(type)], Set("t", N(2)),
           Label("L1"), Return(Var("t"))>>) : type \in Types}

(* int u = x < 0; return u;                                                *)
OutcomeRead ==
  Plain(<<Enter("main"), Set("x", N(1)), Binary("LT", "u", Var("x"), N(0)), Return(Var("u"))>>)

(* f(x + y, y): the sum is computed between the two pushes.                *)
ComputedArgument ==
  Plain(<<Enter("f"), Pop("p"), Pop("q"), Binary("SUB", "w", Var("p"), Var("q")),
          Return(Var("w")), Enter("main"), Set("x", N(5)), Set("y", N(2)), Push(Var("y")),
          Binary("ADD", "t", Var("x"), Var("y")), Push(Var("t")), Call("r", "f"),
          Binary("SUB", "s", Var("r"), Var("x")), Return(Var("s"))>>)

(* f stores to element 0 of its array.                                     *)
FirstElement ==
  WithArrays(<<Enter("f"), Pop("p"), Store(Elem("B", N(0)), Var("p")), Return(Var("p")),
               Enter("main"), Set("x", N(5)), Push(Var("x")), Call("r", "f"),
               Return(Var("r"))>>,
             <<[array |-> "B", line |-> 2]>>, N(2), <<1, 0>>)

(* f returns from a block inside the one that declares its array.          *)
EarlyReturn ==
  WithArrays(<<Enter("f"), Pop("p"), Within(Return(Var("p")), <<2, 0>>),
               Enter("main"), Set("x", N(5)), Push(Var("x")), Call("r", "f"),
               Return(Var("r"))>>,
             <<[array |-> "B", line |-> 2]>>, N(2), <<1, 0>>)

LeftLiteral ==
  Plain(<<Enter("main"), Set("x", N(1)), Binary("LT", "b", N(0), Var("x")),
          JumpFalse("b", "L1"), Label("L1"), Return(Var("x"))>>)

Negation ==
  Plain(<<Enter("main"), Set("x", N(1)), Binary("LT", "c", Var("x"), N(0)),
          Unary("NOT", "b", Var("c")), JumpFalse("b", "L1"), Label("L1"), Return(Var("x"))>>)

(* !(x < 0) is the last owner in the frame of main.                        *)
LastBool ==
  Plain(<<Enter("main"), Set("x", N(1)), Binary("LT", "c", Var("x"), N(0)),
          Unary("NOT", "b", Var("c")), Return(Var("x"))>>)

MCUnsound == {ComputedArgument, FirstElement, EarlyReturn, LastBool}

MCPrograms ==
  Arithmetic1 \cup Branches \cup CopyBeforeBranch \cup Loops \cup Calls \cup Recursions
    \cup Arrays1 \cup Blocks \cup FloatCode \cup MCUnsound \cup StaleConditions
    \cup MiscastConditions
    \cup {StoredBool, Redeclared, LeftLiteral, Negation, OutcomeRead}
=============================================================================
