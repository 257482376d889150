---------------------------- MODULE TacMeaning -----------------------------
(***************************************************************************)
(* What the lines of a program compute, independent of registers and stack: *)
(* each activation of a function has variables and arrays of its own, a    *)
(* call takes its arguments from the PUSHes before it.  The reference for  *)
(* the assembly.                                                           *)
(***************************************************************************)
EXTENDS Gas

CONSTANT MaxSteps     \* of one activation; more than any program needs

NewActivation ==
  [var |-> [v \in Vars |-> 0], elem |-> [k \in Arrays \X (0 .. 9) |-> 0]]

RECURSIVE Meaning(_, _)
Meaning(e, o) ==
  CASE o.k = "var" -> e.var[o.v]
    [] o.k \in {"int", "float"} -> o.n
    [] o.k = "elem" -> e.elem[o.array, Meaning(e, o.pos)]
    [] OTHER -> 0

Holds(op, a, b) ==
  CASE op = "EQ" -> a = b  [] op = "NE" -> a # b  [] op = "LE" -> a <= b
    [] op = "GE" -> a >= b  [] op = "LT" -> a < b  [] op = "GT" -> a > b

Computed(op, a, b) ==
  CASE op = "ADD" -> a + b  [] op = "SUB" -> a - b  [] op = "MUL" -> a * b
    [] op = "DIV" -> Quotient(a, b)  [] op = "MINUS" -> -a
    [] op \in LogicOps -> IF Holds(op, a, b) THEN 1 ELSE 0
    [] op = "NOT" -> 1 - a

Assigned(e, o, n) ==
  IF o.k = "elem" THEN [e EXCEPT !.elem[o.array, Meaning(e, o.pos)] = n]
  ELSE [e EXCEPT !.var[o.v] = n]

PlaceOf(op, dest) ==
  CHOOSE i \in 1 .. Len(code.lines) : code.lines[i].op = op /\ code.lines[i].dest = dest

(* The value returned by the activation e that has come to line i, with    *)
(* the words it has on the stack as arguments.                             *)
RECURSIVE Returned(_, _, _, _)
Returned(i, e, args, steps) ==
  LET l == code.lines[i]
      Go(j, e2, args2) == Returned(j, e2, args2, steps - 1)
      n == Len(code.params[l.dest])
      result == Returned(PlaceOf("ENTRY", l.dest), NewActivation,
                         SubSeq(args, 1, n), MaxSteps)
  IN CASE l.op \in ExpressionOps \ {"PUSH", "CALL"} ->
            Go(i + 1, Assigned(e, Var(l.target),
                               Computed(l.op, Meaning(e, l.arg1), Meaning(e, l.arg2))), args)
       [] l.op = "ASSIGN" -> Go(i + 1, Assigned(e, l.arg1, Meaning(e, l.arg2)), args)
       [] l.op = "JUMP" -> Go(PlaceOf("LABEL", l.dest), e, args)
       [] l.op = "JUMPFALSE" ->
            Go(IF Meaning(e, l.arg1) # 0 THEN i + 1 ELSE PlaceOf("LABEL", l.dest), e, args)
       [] l.op = "PUSH" -> Go(i + 1, e, <<Meaning(e, l.arg1)>> \o args)
       [] l.op = "POP" -> Go(i + 1, Assigned(e, Var(l.target), Head(args)), Tail(args))
       [] l.op = "CALL" ->
            Go(i + 1, Assigned(e, Var(l.target), result), SubSeq(args, n + 1, Len(args)))
       [] l.op = "RET" -> Meaning(e, l.arg1)
       [] OTHER -> Go(i + 1, e, args)

-----------------------------------------------------------------------------
(* The compiled program returns what the lines of code compute, in any     *)
(* placement of the variables: no assertion fails, every instruction is    *)
(* one the assembler accepts and the processor can execute.                *)
ResultsRight ==
  stage \in {"halted", "aborted", "fault"} /\ Supported =>
    /\ stage = "halted"
    /\ machine.reg["EAX"] = Returned(PlaceOf("ENTRY", Main), NewActivation, <<>>, MaxSteps)
=============================================================================
