-------------------------------- MODULE Gas --------------------------------
(***************************************************************************)
(* The back end as Gas::Gas runs it, and the code it leaves: the layout of *)
(* the frames, the conversion line by line, and then the machine, one      *)
(* instruction after the other, from a call of main to its return.         *)
(***************************************************************************)
EXTENDS GasConversion

CONSTANTS Main,        \* the function that is called
          Colorings    \* colourings without conflict

-----------------------------------------------------------------------------
(* What Gas::Gas is given: lines as the AST converters leave them.         *)
Scalars == [k : {"var"}, v : Vars] \cup [k : {"int", "float"}, n : Int]
Operands == Scalars \cup [k : {"elem"}, array : Arrays, pos : Scalars]

(* The lines that compute an expression.                                   *)
ExpressionOps == ArithmeticOps \cup LogicOps \cup {"MINUS", "NOT", "PUSH", "CALL"}

EntryLines(p) == {i \in DOMAIN p.lines : p.lines[i].op = "ENTRY"}
LabelLines(p) == {i \in DOMAIN p.lines : p.lines[i].op = "LABEL"}
Entered(p) == {p.lines[i].dest : i \in EntryLines(p)}

FunctionIn(p, i) ==
  LET entries == {j \in EntryLines(p) : j <= i}
  IN p.lines[CHOOSE j \in entries : \A k \in entries : k <= j].dest

HasOperands(l) ==
  /\ l.op \in (ExpressionOps \ {"CALL"}) \cup {"ASSIGN"} => l.arg1 \in Operands
  /\ l.op \in ArithmeticOps \cup LogicOps \cup {"ASSIGN"} => l.arg2 \in Operands
  /\ l.op \in ArithmeticOps \cup LogicOps \cup {"MINUS", "NOT", "CALL"} => l.target \in Vars
  /\ l.op = "ASSIGN" =>
       /\ l.arg1.k \in {"var", "elem"}
       /\ OperandType(l.arg2) = "FLOAT" => l.arg1.k = "var"
  /\ l.op = "RET" => l.arg1 \in Operands \cup {NoOperand}

(* A function ends with a return and jumps to labels of its own.  A branch *)
(* names a Triple that stands before it, or what is none.  A call stands   *)
(* behind the lines that compute and push its arguments, at least one line *)
(* for each.                                                               *)
FlowsWithin(p, i) ==
  LET l == p.lines[i]
  IN /\ l.op = "ENTRY" /\ i > 1 => p.lines[i - 1].op = "RET"
     /\ l.op \in {"JUMP", "JUMPFALSE"} =>
          \E j \in LabelLines(p) :
            p.lines[j].dest = l.dest /\ FunctionIn(p, j) = FunctionIn(p, i)
     /\ l.op = "JUMPFALSE" =>
          \/ l.arg1 \in [k : {"miscast"}, type : Types]
          \/ \E j \in 1 .. i - 1 :
               p.lines[j].target # NoVar /\ l.arg1 = Var(p.lines[j].target)
     /\ l.op = "CALL" =>
          /\ l.dest \in Entered(p)
          /\ \A k \in i - Len(p.params[l.dest]) .. i - 1 :
               k > 0 /\ p.lines[k].op \in ExpressionOps

IsConverted(p) ==
  /\ \A i \in DOMAIN p.lines :
       /\ p.lines[i].op \in ExpressionOps \cup
            {"ASSIGN", "ENTRY", "LABEL", "JUMP", "JUMPFALSE", "POP", "RET"}
       /\ HasOperands(p.lines[i]) /\ FlowsWithin(p, i)
  /\ \A i, j \in LabelLines(p) :
       /\ p.lines[i].dest \notin Functions
       /\ p.lines[i].dest = p.lines[j].dest => i = j
  /\ p.lines[Len(p.lines)].op = "RET"
  /\ \A k \in DOMAIN p.arrays : p.arrayLength[p.arrays[k].array] \in Scalars
  /\ Main \in Entered(p)

ASSUME GasAssumption ==
  /\ NumRegisters \in 0 .. 4
  /\ StackBottom \in Int /\ StackBottom < 0
  /\ Colorings \subseteq [Vars -> Nat]
  /\ \A p \in Programs : IsConverted(p)

-----------------------------------------------------------------------------
VARIABLES stage, gas,
          converting,  \* the line convertTac is at
          machine,
          saved,       \* address |-> register and value last saved there
          active       \* the functions whose activations are on the stack

vars == <<layoutVars, colors, stage, gas, converting, machine, saved, active>>

NothingSaved == [r |-> "none", v |-> 0]

(* The caller of main keeps a value in each register; main returns to 0.   *)
StartMachine ==
  [eip |-> 0, cmp |-> Spoiled, fpu |-> <<>>,
   reg |-> [r \in Registers |->
              CASE r = "ESP" -> 0 [] r = "ESI" -> 501 [] r = "EDI" -> 502
                [] r = "EBX" -> 503 [] r = "EBP" -> 504 [] OTHER -> Garbage],
   mem |-> [a \in Addresses |-> IF a = 0 THEN 0 ELSE Garbage]]

Init ==
  /\ LayoutInit
  /\ colors \in Colorings
  /\ stage = "layout"
  /\ gas = NewGas
  /\ converting = 1
  /\ machine = StartMachine
  /\ saved = [a \in Addresses |->
                IF a = 0 THEN [r |-> "EIP", v |-> 0] ELSE NothingSaved]
  /\ active = <<>>

layout ==
  /\ stage = "layout"
  /\ LayoutNext
  /\ UNCHANGED <<colors, stage, gas, converting, machine, saved, active>>

startConversion ==
  /\ stage = "layout" /\ LayoutDone
  /\ stage' = "convert"
  /\ UNCHANGED <<layoutVars, colors, gas, converting, machine, saved, active>>

convert ==
  /\ stage = "convert" /\ converting <= Len(code.lines)
  /\ gas' = convertLine(gas, converting)
  /\ stage' = IF gas'.failed THEN "aborted" ELSE stage
  /\ converting' = converting + 1
  /\ UNCHANGED <<layoutVars, colors, machine, saved, active>>

Entry(f) ==
  CHOOSE k \in 1 .. Len(gas.asm) : gas.asm[k].i = "LABEL" /\ gas.asm[k].dest = f

start ==
  /\ stage = "convert" /\ converting = Len(code.lines) + 1
  /\ stage' = "run"
  /\ machine' = [machine EXCEPT !.eip = Entry(Main)]
  /\ active' = <<Main>>
  /\ UNCHANGED <<layoutVars, colors, gas, converting, saved>>

instruction == gas.asm[machine.eip]

Running == stage = "run" /\ machine.eip \in 1 .. Len(gas.asm)

(* What the word written by the instruction is, if it is a register saved  *)
(* or a return address.                                                    *)
SavedBy(i) ==
  CASE i.i = "SAVE" -> [r |-> i.a.r, v |-> machine.reg[i.a.r]]
    [] i.i = "CALL" -> [r |-> "EIP", v |-> machine.eip + 1]
    [] OTHER        -> NothingSaved

execute ==
  /\ Running
  /\ Legal(machine, instruction)
  /\ machine' = Effect(machine, instruction, gas.asm, gas.constantFloats)
  /\ saved' = IF instruction.i \in {"SAVE", "CALL", "PUSH"}
              THEN [saved EXCEPT ![Esp(machine) - 4] = SavedBy(instruction)]
              ELSE saved
  /\ active' = CASE instruction.i = "CALL" -> Append(active, instruction.dest)
                 [] instruction.i = "RET"  -> Front(active)
                 [] OTHER                  -> active
  /\ UNCHANGED <<layoutVars, colors, stage, gas, converting>>

fault ==
  /\ stage = "run"
  /\ Running => ~Legal(machine, instruction)
  /\ machine.eip # 0
  /\ stage' = "fault"
  /\ UNCHANGED <<layoutVars, colors, gas, converting, machine, saved, active>>

halt ==
  /\ stage = "run" /\ machine.eip = 0
  /\ stage' = "halted"
  /\ UNCHANGED <<layoutVars, colors, gas, converting, machine, saved, active>>

Next == layout \/ startConversion \/ convert \/ start \/ execute \/ fault \/ halt

Spec == Init /\ [][Next]_vars

-----------------------------------------------------------------------------
(* Code whose translation is known to be wrong is left out of the          *)
(* properties by name.                                                     *)
LinesWith(op) == {i \in 1 .. Len(code.lines) : code.lines[i].op = op}
LineSet == ToSet(code.lines)
ArgumentsOf(l) == {l.arg1, l.arg2}
ElementsOf(l) == {o \in ArgumentsOf(l) : o.k = "elem"}
FunctionOf(i) == FunctionIn(code, i)

(* prepareCall counts one instruction per word of arguments: they are      *)
(* pushed in a row, an element only when it is the single one, and each    *)
(* has a size.                                                             *)
ArgumentsInARow ==
  \A c \in LinesWith("CALL") :
    LET types == code.params[code.lines[c].dest]
        n == Len(types)
    IN /\ \A t \in ToSet(types) : getSize(t) = 4
       /\ \A k \in c - n .. c - 1 :
            code.lines[k].op = "PUSH" /\ (code.lines[k].arg1.k = "elem" => n = 1)

(* IDIV takes its dividend from EAX and destroys EDX, and has no literal   *)
(* as divisor.                                                             *)
DivisionsFit ==
  /\ \A k \in 2 .. Len(gas.asm) :
       gas.asm[k].i = "CDQ" => gas.asm[k - 1].a = Reg("EAX")
  /\ \A l, m \in LineSet :
       l.op = "DIV" /\ OperandType(l.arg1) = "INT" /\ m.target # NoVar =>
         /\ l.arg2.k # "int"
         /\ getLocationForVariable(Main, m.target) # Reg("EDX")

(* CMP has no literal on its left.                                         *)
ComparisonsFit == \A l \in LineSet : l.op \in LogicOps => l.arg1.k # "int"

(* A line that becomes nothing but MOVs, which leave the flags alone.      *)
IsCopy(l) ==
  l.op = "ASSIGN" /\ l.arg1.k = "var" /\ l.arg2.k \in {"var", "int", "float"}

(* A branch jumps by the flags and by lastOperator, whatever it names: its *)
(* condition is a comparison of numbers, and at most copies stand between  *)
(* the two.  No array is declared or freed there.                          *)
ConditionsAreComparisons ==
  /\ \A l \in LineSet : l.op \in LogicOps => OperandType(l.arg1) \in {"INT", "FLOAT"}
  /\ \A i \in LinesWith("JUMPFALSE") : \E j \in 1 .. i - 1 :
       /\ code.lines[j].op \in LogicOps
       /\ code.lines[i].arg1 = Var(code.lines[j].target)
       /\ \A k \in j + 1 .. i - 1 : IsCopy(code.lines[k])
       /\ \A k \in j + 1 .. i : ~IsScopeEnd(k)
       /\ \A d \in DOMAIN code.arrays : code.arrays[d].line \notin j .. i - 1

(* A comparison leaves its outcome in the flags and stores nothing: only a *)
(* branch can use it, and what NOT makes of it is of no use at all.        *)
OutcomesUnread ==
  \A l, m \in LineSet :
    l.op \in LogicOps \cup {"NOT"} /\ m.op \notin {"JUMPFALSE", "NOT"} =>
      Var(l.target) \notin ArgumentsOf(m)

(* A BOOL that is stored is in a register: it has no space in the frame, so *)
(* that its offset is the next owner's or that of the saved EBX.           *)
BoolsInRegisters ==
  \A l \in LineSet :
    l.op \in {"NOT", "CALL"} /\ TypeOf[l.target] = "BOOL" => isColor(getColor(l.target))

(* A literal, or a variable that holds one value.                          *)
Fixed(o) ==
  \/ o.k = "int"
  \/ o.k = "var" /\ \A l, m \in LineSet :
       l.target = o.v /\ m.target = o.v => l = m /\ l.op = "ASSIGN" /\ l.arg2.k = "int"

FixedValue(o) ==
  IF o.k = "int" THEN o.n
  ELSE (CHOOSE l \in LineSet : l.target = o.v).arg2.n

(* An array is known by name and length, so there is one of them; lengths  *)
(* and positions are fixed; element 0 lies in the word above the array,    *)
(* which holds a saved register; one return frees the array, or the end of *)
(* its scope, whose last line does not use it any more.                    *)
ArraysFit ==
  /\ \A d, e \in DOMAIN code.arrays :
       code.arrays[d].array = code.arrays[e].array => d = e
  /\ \A d \in DOMAIN code.arrays : Fixed(code.arrayLength[code.arrays[d].array])
  /\ \A l \in LineSet : \A o \in ElementsOf(l) :
       Fixed(o.pos) /\ FixedValue(o.pos) \in 1 .. FixedValue(code.arrayLength[o.array]) - 1
  /\ \A d \in DOMAIN code.arrays : \A i, j \in LinesWith("RET") :
       FunctionOf(i) = FunctionOf(code.arrays[d].line) /\ FunctionOf(j) = FunctionOf(i) =>
         /\ i = j
         /\ ~ScopeLess(code.arrayScope[code.arrays[d].array], code.lines[i].scope)
  /\ \A i \in DOMAIN code.lines :
       IsScopeEnd(i) /\ code.lines[i].op # "RET" => ElementsOf(code.lines[i]) = {}

Supported ==
  /\ ArgumentsInARow /\ DivisionsFit /\ ComparisonsFit
  /\ ConditionsAreComparisons /\ OutcomesUnread /\ BoolsInRegisters /\ ArraysFit

(* Whatever is restored comes from the word it was saved to, which still   *)
(* holds its value: the registers around a call, those of the caller in    *)
(* the epilogue, the frame and the return address.  Nothing takes more off *)
(* the stack than was put there: ESP stays below the frame.                *)
SavesIntact ==
  Running =>
    /\ Esp(machine) \in Addresses
    /\ Esp(machine) <= machine.reg["EBP"]
    /\ instruction.i \in {"RESTORE", "RET"} =>
         saved[Esp(machine)] =
           [r |-> IF instruction.i = "RET" THEN "EIP" ELSE instruction.a.r,
            v |-> machine.mem[Esp(machine)]]

RestoresMatchSaves == ~SavesIntact => ~Supported

-----------------------------------------------------------------------------
(* Scg::Scg: a vertex per function of the function map, an edge per CALL   *)
(* from the function whose entry came last.                                *)
(* Mutant: any label starts a function; an unknown one is vertex 0.        *)
StaticCallGraphOfLabels ==
  LET Caller(i) ==
        LET labels == {j \in LinesWith("ENTRY") \cup LinesWith("LABEL") : j <= i}
            last == code.lines[CHOOSE j \in labels : \A k \in labels : k <= j].dest
        IN IF last \in Functions THEN last ELSE CHOOSE f \in Functions : TRUE
  IN [node |-> Functions,
      edge |-> {<<Caller(i), code.lines[i].dest>> : i \in LinesWith("CALL")}]

StaticCallGraph ==
  [node |-> Functions,
   edge |-> {<<FunctionOf(i), code.lines[i].dest>> : i \in LinesWith("CALL")}]

(* Functions that are active one above the other are connected in the      *)
(* static call graph.                                                      *)
CallsInGraph ==
  \A k \in 2 .. Len(active) : <<active[k - 1], active[k]>> \in StaticCallGraph.edge
=============================================================================
