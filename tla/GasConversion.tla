--------------------------- MODULE GasConversion ---------------------------
(***************************************************************************)
(* From three-address code to assembly: Gas and the tac_*_converters, as   *)
(* operators on the state g of the generator.                              *)
(*                                                                         *)
(*   asm               asmInstructions                                     *)
(*   tmpToggle         of the RegisterManager: which of EAX, EBX comes next *)
(*   lastOperator      the latest comparison                               *)
(*   resultAvailable   cleanUpCall: the last instruction stores a result   *)
(*   declaredArrays    [f, array, length]: allocated on the stack          *)
(*   currentFunction                                                       *)
(*   constantFloats    constantFloatsMap, by number                        *)
(*   failed            an assertion has failed                             *)
(*                                                                         *)
(* An operand is a Variable, or a Triple standing for its target variable, *)
(* a literal, or an access to an element of an array of INT.  The condition *)
(* of a branch is a Triple, or one of the others taken for a Triple: that  *)
(* is undefined behaviour, and type what it makes of the operand's type.   *)
(* Lines have, besides what StackLayout looks at, arg1, arg2 and scope; a  *)
(* program has arrayScope, the scopes of its Array objects, and            *)
(* arrayLength, their length operands.                                     *)
(***************************************************************************)
EXTENDS StackLayout, SequencesExt, X86

CONSTANT NumRegisters     \* numOfRegForColoring

VARIABLE colors           \* functionGraphColorsMap: [Vars -> Nat]

Var(v) == [k |-> "var", v |-> v]
IntLiteral(n) == [k |-> "int", n |-> n]
FloatLiteral(n) == [k |-> "float", n |-> n]
Elem(array, pos) == [k |-> "elem", array |-> array, pos |-> pos]
Miscast(type) == [k |-> "miscast", type |-> type]
NoOperand == [k |-> "nothing"]

OperandType(o) ==
  CASE o.k = "var" -> TypeOf[o.v]
    [] o.k = "float" -> "FLOAT"
    [] o.k \in {"int", "elem"} -> "INT"
    [] OTHER -> "NONE"

NewGas ==
  [asm |-> <<>>, tmpToggle |-> FALSE, lastOperator |-> "NOP",
   resultAvailable |-> FALSE, declaredArrays |-> <<>>,
   currentFunction |-> NoLabel, constantFloats |-> <<>>, failed |-> FALSE]

addMnemonics(g, s) == [g EXCEPT !.asm = @ \o s]
addMnemonic(g, i) == addMnemonics(g, <<i>>)
Failed(g) == [g EXCEPT !.failed = TRUE]

(* getTmpRegister: the generator afterwards, and the register handed out.  *)
(* Mutant: always the same one.                                            *)
toggledNever(g) == [g EXCEPT !.tmpToggle = TRUE]

toggled(g) == [g EXCEPT !.tmpToggle = ~@]
Tmp(g) == Reg(IF g.tmpToggle THEN "EAX" ELSE "EBX")

getRegister(color) == Reg(<<"ECX", "EDX", "ESI", "EDI">>[color + 1])

getColor(v) == IF TypeOf[v] = "FLOAT" THEN NumRegisters ELSE colors[v]
isColor(color) == color < NumRegisters

getLocationForVariable(f, v) ==
  IF isColor(getColor(v)) THEN getRegister(getColor(v))
  ELSE Mem(variableStackOffset[<<f, v>>])

getLocationForArray(f, array) == Mem(arrayStackOffset[<<f, array>>])

createFloatConstant(g, n) == [g EXCEPT !.constantFloats = Append(@, n)]

-----------------------------------------------------------------------------
(* Gas::loadOperand: the generator and the operand, which is in reg unless *)
(* reg is NoOp.  An element lies below the start of its array.             *)
Loaded(g, o, reg) ==
  IF reg = NoOp THEN [g |-> g, o |-> o]
  ELSE [g |-> addMnemonic(g, Ins("MOV", reg, o)), o |-> reg]

loadPlain(g, op, reg) ==
  CASE op.k = "var" ->
         Loaded(g, getLocationForVariable(g.currentFunction, op.v), reg)
    [] op.k = "int" -> Loaded(g, Imm(op.n), reg)
    [] op.k = "float" ->
         LET c == createFloatConstant(g, op.n)
         IN Loaded(c, FloatConstant(Len(c.constantFloats)), reg)

loadElement(g, op, reg) ==
  LET g1  == IF reg = NoOp THEN toggled(g) ELSE g
      r   == IF reg = NoOp THEN Tmp(g1) ELSE reg
      pos == loadPlain(g1, op.pos, NoOp)
      start == getLocationForArray(g.currentFunction, op.array)
  IN Loaded(addMnemonics(pos.g, <<Ins("MOV", r, pos.o), Ins("IMUL", r, Imm(4)),
                                  Ins("SUB", r, start), Ins("NEG", r, NoOp)>>),
            Deref(r), reg)

loadOperand(g, op, reg) ==
  IF op.k = "elem" THEN loadElement(g, op, reg) ELSE loadPlain(g, op, reg)

storeOperandFromRegister(g, v, o) ==
  LET loc == getLocationForVariable(g.currentFunction, v)
      t   == toggled(g)
  IN IF isAddress(loc) /\ (isAddress(o) \/ isFloatConstant(o))
     THEN addMnemonics(t, <<Ins("MOV", Tmp(t), o), Ins("MOV", loc, Tmp(t))>>)
     ELSE addMnemonic(g, Ins("MOV", loc, o))

(* FLOAT variables are on the stack; the value is read back and rewritten. *)
storeVariableFromFloatRegister(g, v) ==
  LET loc == getLocationForVariable(g.currentFunction, v)
      t   == toggled(g)
  IN addMnemonics(t, <<Ins("FSTP", loc, NoOp), Ins("MOV", Tmp(t), loc),
                       Ins("MOV", loc, Tmp(t))>>)

pushOperandToFloatRegister(g, op) ==
  LET l == loadOperand(g, op, NoOp) IN addMnemonic(l.g, Ins("FLD", l.o, NoOp))

storeRegisters(g, list, pos) ==
  LET saves == [k \in DOMAIN list |-> Ins("SAVE", Reg(list[k]), NoOp)]
  IN [g EXCEPT !.asm = SubSeq(@, 1, pos) \o saves \o SubSeq(@, pos + 1, Len(@))]

restoreRegisters(g, list, pos) ==
  LET restores == [k \in DOMAIN list |-> Ins("RESTORE", Reg(list[k]), NoOp)]
  IN [g EXCEPT !.asm = SubSeq(@, 1, pos) \o restores \o SubSeq(@, pos + 1, Len(@))]

-----------------------------------------------------------------------------
(* Arrays are allocated below the registers an entry of their function     *)
(* saves, at the line they are declared behind, and freed in reverse order *)
(* behind the last line of a scope, or of one that comes after it in the   *)
(* order of scopes, and at a return.                                       *)
lookupDeclaredArray(g, array) ==
  {k \in DOMAIN g.declaredArrays :
     /\ g.declaredArrays[k].f = g.currentFunction
     /\ g.declaredArrays[k].array = array}

declareArray(g, array) ==
  LET t   == toggled(g)
      tmp == Tmp(t)
      s   == addMnemonic(t, Ins("MOV", getLocationForArray(g.currentFunction, array),
                                Reg("ESP")))
      l   == loadOperand(s, code.arrayLength[array], NoOp)
      a   == addMnemonics(l.g, <<Ins("MOV", tmp, l.o), Ins("IMUL", tmp, Imm(4)),
                                 Ins("SUB", Reg("ESP"), tmp)>>)
  IN [a EXCEPT !.declaredArrays =
        Append(@, [f |-> g.currentFunction, array |-> array, length |-> l.o])]

declareArrays(g, i) ==
  LET Declared[k \in 0 .. Len(code.arrays)] ==
        IF k = 0 THEN g
        ELSE LET before == Declared[k - 1]
                 d == code.arrays[k]
             IN IF d.line = i /\ lookupDeclaredArray(before, d.array) = {}
                THEN declareArray(before, d.array)
                ELSE before
  IN Declared[Len(code.arrays)]

(* Scope::operator<                                                        *)
ScopeLess(s, t) == s[1] < t[1] \/ (s[1] = t[1] /\ s[2] < t[2])

cleanUpArray(g, l, k) ==
  LET d   == g.declaredArrays[k]
      t1  == toggled(g)
      t   == IF l.op = "RET" /\ Tmp(t1) = Reg("EAX") THEN toggled(t1) ELSE t1
      a   == addMnemonics(t, <<Ins("MOV", Tmp(t), d.length),
                               Ins("IMUL", Tmp(t), Imm(4)),
                               Ins("ADD", Reg("ESP"), Tmp(t))>>)
  IN IF ScopeLess(code.arrayScope[d.array], l.scope) THEN g
     ELSE [a EXCEPT !.declaredArrays = RemoveAt(@, k)]

cleanUpArrays(g, l) ==
  LET n == Len(g.declaredArrays)
      Cleaned[k \in 0 .. n] ==
        IF k = 0 THEN g ELSE cleanUpArray(Cleaned[k - 1], l, n + 1 - k)
  IN Cleaned[n]

-----------------------------------------------------------------------------
(* Parameters that have a register are fetched from where they were pushed. *)
ParameterMoves(f) ==
  LET Moves[k \in 0 .. Len(functionVariables[f])] ==
        IF k = 0 THEN <<>>
        ELSE LET v == functionVariables[f][k]
                 target == getLocationForVariable(f, v)
                 arg == Mem(variableStackOffset[<<f, v>>])
             IN IF target # arg THEN Append(Moves[k - 1], Ins("MOV", target, arg))
                ELSE Moves[k - 1]
  IN Moves[Len(functionVariables[f])]

createFunctionProlog(g, f) ==
  LET space == functionStackSpace[f]
      frame == addMnemonics(g,
                 <<Ins("SAVE", Reg("EBP"), NoOp), Ins("MOV", Reg("EBP"), Reg("ESP"))>>
                 \o IF space > 0 THEN <<Ins("SUB", Reg("ESP"), Imm(space))>> ELSE <<>>)
      saved == storeRegisters(frame, <<"EBX", "EDI", "ESI">>, Len(frame.asm))
  IN addMnemonics(saved, ParameterMoves(f))

createFunctionEpilog(g, f) ==
  LET space == functionStackSpace[f]
      restored == restoreRegisters(g, <<"ESI", "EDI", "EBX">>, Len(g.asm))
  IN addMnemonics(restored,
       (IF space > 0 THEN <<Ins("ADD", Reg("ESP"), Imm(space))>> ELSE <<>>)
       \o <<Ins("MOV", Reg("ESP"), Reg("EBP")), Ins("RESTORE", Reg("EBP"), NoOp)>>)

(* The registers a call may change are saved before its arguments: as many *)
(* instructions back as there are words of arguments.                      *)
prepareCallHere(g, f) ==    \* mutant: right before the call
  [storeRegisters(g, <<"ECX", "EDX">>, Len(g.asm)) EXCEPT !.resultAvailable = FALSE]

prepareCall(g, f) ==
  [storeRegisters(g, <<"ECX", "EDX">>,
                  Len(g.asm) - lookupFunctionArgSize(f) \div 4)
     EXCEPT !.resultAvailable = FALSE]

cleanUpCall(g, f) ==
  LET size == lookupFunctionArgSize(f)
      pos  == Len(g.asm) - (IF g.resultAvailable THEN 1 ELSE 0)
      free == IF size > 0 THEN <<Ins("ADD", Reg("ESP"), Imm(size))>> ELSE <<>>
      cleaned == [g EXCEPT !.asm = SubSeq(@, 1, pos) \o free \o SubSeq(@, pos + 1, Len(@)),
                           !.resultAvailable = FALSE]
  IN restoreRegisters(cleaned, <<"EDX", "ECX">>, pos + Len(free))

convertCall(g, l) ==
  LET called == addMnemonic(prepareCall(g, l.dest), InsTo("CALL", l.dest))
      stored == IF TypeOf[l.target] = "NONE" THEN called
                ELSE [storeOperandFromRegister(called, l.target, Reg("EAX"))
                        EXCEPT !.resultAvailable = TRUE]
  IN cleanUpCall(stored, l.dest)

convertReturn(g, l) ==
  LET v == loadOperand(g, l.arg1, NoOp)
      value == IF l.arg1 = NoOperand THEN g
               ELSE addMnemonic(v.g, Ins("MOV", Reg("EAX"), v.o))
  IN addMnemonic(createFunctionEpilog(cleanUpArrays(value, l), g.currentFunction),
                 Ins("RET", NoOp, NoOp))

-----------------------------------------------------------------------------
convertUnary(g, l, name) ==
  LET t == toggled(g)
      o == IF l.target = NoVar THEN loadOperand(g, l.arg1, NoOp)
           ELSE loadOperand(t, l.arg1, Tmp(t))
      done == addMnemonic(o.g, Ins(name, o.o, NoOp))
  IN IF l.target = NoVar THEN done
     ELSE storeOperandFromRegister(done, l.target, o.o)

convertIntArithmetic(g, l) ==
  LET reg0 == loadOperand(g, l.arg1, NoOp)
      t    == toggled(reg0.g)
      tmp  == Tmp(t)
      moved == addMnemonics(t, <<Ins("MOV", tmp, reg0.o)>>
                 \o IF l.op = "DIV" THEN <<Ins("CDQ", NoOp, NoOp)>> ELSE <<>>)
      reg1 == loadOperand(moved, l.arg2, NoOp)
      name == IF l.op = "MUL" THEN "IMUL" ELSE l.op
      done == addMnemonic(reg1.g, IF l.op = "DIV" THEN Ins("IDIV", reg1.o, NoOp)
                                  ELSE Ins(name, tmp, reg1.o))
  IN storeOperandFromRegister(done, l.target, tmp)

convertIntAssign(g, l) ==
  LET undeclared == l.arg1.k = "elem" /\ lookupDeclaredArray(g, l.arg1.array) = {}
      to   == loadOperand(g, l.arg1, NoOp)
      t    == toggled(to.g)
      from == IF l.arg2.k = "elem" /\ isAddress(to.o)
              THEN loadOperand(t, l.arg2, Tmp(t))
              ELSE loadOperand(to.g, l.arg2, NoOp)
      via  == toggled(from.g)
  IN IF undeclared THEN Failed(g)
     ELSE IF isAddress(from.o) /\ isAddress(to.o)
     THEN addMnemonics(via, <<Ins("MOV", Tmp(via), from.o), Ins("MOV", to.o, Tmp(via))>>)
     ELSE addMnemonic(from.g, Ins("MOV", to.o, from.o))

convertIntLogicOperator(g, l) ==
  LET reg0 == loadOperand(g, l.arg1, NoOp)
      reg1 == loadOperand(reg0.g, l.arg2, NoOp)
      t    == toggled(reg1.g)
  IN IF isAddress(reg0.o)
     THEN addMnemonics(t, <<Ins("MOV", Tmp(t), reg0.o), Ins("CMP", Tmp(t), reg1.o)>>)
     ELSE addMnemonic(reg1.g, Ins("CMP", reg0.o, reg1.o))

(* The jump that is taken when the latest comparison does not hold.        *)
IntJumpIfNot ==
  [EQ |-> "JNE", NE |-> "JE", LE |-> "JG", GE |-> "JL", LT |-> "JGE", GT |-> "JLE"]

FloatJumpIfNot ==
  [EQ |-> "JNE", NE |-> "JE", LE |-> "JB", GE |-> "JB", LT |-> "JBE", GT |-> "JBE"]

-----------------------------------------------------------------------------
convertFloatArithmetic(g, l) ==
  LET both == pushOperandToFloatRegister(pushOperandToFloatRegister(g, l.arg1), l.arg2)
      name == [ADD |-> "FADDP", SUB |-> "FSUBP", MUL |-> "FMULP", DIV |-> "FDIVP"]
  IN storeVariableFromFloatRegister(addMnemonic(both, Ins(name[l.op], NoOp, NoOp)),
                                    l.target)

convertFloatAssign(g, l) ==
  LET from == loadOperand(g, l.arg2, NoOp)
  IN storeOperandFromRegister(from.g, l.arg1.v, from.o)

Swapped == {"LT", "LE"}

convertFloatLogicOperator(g, l) ==
  LET first  == IF l.op \in Swapped THEN l.arg2 ELSE l.arg1
      second == IF l.op \in Swapped THEN l.arg1 ELSE l.arg2
      both == pushOperandToFloatRegister(pushOperandToFloatRegister(g, first), second)
      exchange == IF l.op \in {"EQ", "NE"} THEN <<>> ELSE <<Ins("FXCH", NoOp, NoOp)>>
  IN addMnemonics(both, exchange \o <<Ins("FUCOMIP", NoOp, NoOp), Ins("FPOP", NoOp, NoOp)>>)

convertFloatMinus(g, l) ==
  storeVariableFromFloatRegister(
    addMnemonic(pushOperandToFloatRegister(g, l.arg1), Ins("FCHS", NoOp, NoOp)), l.target)

-----------------------------------------------------------------------------
ArithmeticOps == {"ADD", "SUB", "MUL", "DIV"}
LogicOps == {"EQ", "NE", "LE", "GE", "LT", "GT"}

convertArithmetic(g, l) ==
  CASE OperandType(l.arg1) = "INT" -> convertIntArithmetic(g, l)
    [] OperandType(l.arg1) = "FLOAT" -> convertFloatArithmetic(g, l)
    [] OTHER -> Failed(g)

(* An assignment of BOOLs has no code.                                     *)
convertAssign(g, l) ==
  CASE OperandType(l.arg2) = "INT" -> convertIntAssign(g, l)
    [] OperandType(l.arg2) = "FLOAT" -> convertFloatAssign(g, l)
    [] OTHER -> g

convertLabel(g, l) ==
  LET labelled == addMnemonic(g, InsTo("LABEL", l.dest))
  IN IF l.op = "ENTRY"
     THEN createFunctionProlog([labelled EXCEPT !.currentFunction = l.dest], l.dest)
     ELSE labelled

convertLogicOperator(g, l) ==
  LET compared == CASE OperandType(l.arg1) = "INT" -> convertIntLogicOperator(g, l)
                    [] OperandType(l.arg1) = "FLOAT" -> convertFloatLogicOperator(g, l)
                    [] OTHER -> Failed(g)
  IN [compared EXCEPT !.lastOperator = l.op]

(* The Triple that a branch names: the latest line before it with its      *)
(* target, be it a comparison or not.                                      *)
ConditionOf(l) ==
  LET here == CHOOSE i \in DOMAIN code.lines : code.lines[i] = l
      writers == {i \in 1 .. here - 1 : code.lines[i].target = l.arg1.v}
  IN code.lines[CHOOSE i \in writers : \A k \in writers : k <= i]

(* condition->getArg1()->getType()                                         *)
ConditionType(l) ==
  IF l.arg1.k = "miscast" THEN l.arg1.type ELSE OperandType(ConditionOf(l).arg1)

(* The condition decides whether the jump is one for INTs or FLOATs, the   *)
(* latest comparison, of whatever, which one.                              *)
convertJumpFalse(g, l) ==
  LET jump == IF ConditionType(l) = "INT" THEN IntJumpIfNot ELSE FloatJumpIfNot
  IN IF ConditionType(l) \in {"INT", "FLOAT"} /\ g.lastOperator \in LogicOps
     THEN addMnemonic(g, InsTo(jump[g.lastOperator], l.dest))
     ELSE Failed(g)

convertMinus(g, l) ==
  CASE OperandType(l.arg1) = "INT" -> convertUnary(g, l, "NEG")
    [] OperandType(l.arg1) = "FLOAT" -> convertFloatMinus(g, l)
    [] OTHER -> Failed(g)

convertNot(g, l) ==
  IF OperandType(l.arg1) = "BOOL" THEN convertUnary(g, l, "NOT") ELSE Failed(g)

Convert(g, l) ==
  CASE l.op \in ArithmeticOps      -> convertArithmetic(g, l)
    [] l.op = "ASSIGN"             -> convertAssign(g, l)
    [] l.op \in {"ENTRY", "LABEL"} -> convertLabel(g, l)
    [] l.op = "JUMP"               -> addMnemonic(g, InsTo("JMP", l.dest))
    [] l.op = "JUMPFALSE"          -> convertJumpFalse(g, l)
    [] l.op \in LogicOps           -> convertLogicOperator(g, l)
    [] l.op = "MINUS"              -> convertMinus(g, l)
    [] l.op = "NOT"                -> convertNot(g, l)
    [] l.op = "PUSH"               -> convertUnary(g, l, "PUSH")
    [] l.op = "POP"                -> g
    [] l.op = "CALL"               -> convertCall(g, l)
    [] l.op = "RET"                -> convertReturn(g, l)

(* The last line of its scope: the next one belongs to a smaller scope.    *)
IsScopeEnd(i) ==
  \/ i = Len(code.lines)
  \/ ScopeLess(code.lines[i + 1].scope, code.lines[i].scope)

(* convertTac, one line: clean up before the last line of a scope, convert *)
(* the line, declare arrays behind it.                                     *)
convertLine(g, i) ==
  LET l == code.lines[i]
      cleaned == IF l.op # "RET" /\ IsScopeEnd(i) THEN cleanUpArrays(g, l) ELSE g
      converted == Convert(cleaned, l)
      done == declareArrays(converted, i)
  IN IF converted.failed THEN converted
     ELSE [done EXCEPT !.failed = i = Len(code.lines) /\ done.declaredArrays # <<>>]
=============================================================================
