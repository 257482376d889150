-------------------------------- MODULE X86 --------------------------------
(***************************************************************************)
(* The machine that the generated assembly runs on, as far as the compiler *)
(* uses it: registers, a stack of words addressed by byte, the outcome of  *)
(* the last comparison, and the stack of the floating point unit.  Values  *)
(* are integers, those of FLOATs included.                                 *)
(*                                                                         *)
(* SAVE and RESTORE are PUSH and POP as Gas::storeRegisters and            *)
(* Gas::restoreRegisters emit them; FPOP is FSTP st(0).                    *)
(***************************************************************************)
LOCAL INSTANCE Integers
LOCAL INSTANCE Sequences

CONSTANT StackBottom    \* lowest address of the stack, below 0

Registers == {"EAX", "EBX", "ECX", "EDX", "ESI", "EDI", "EBP", "ESP"}

Reg(r) == [k |-> "reg", r |-> r, n |-> 0]
Mem(offset) == [k |-> "mem", r |-> "EBP", n |-> offset]
Deref(reg) == [k |-> "mem", r |-> reg.r, n |-> 0]
Imm(n) == [k |-> "imm", r |-> "", n |-> n]
FloatConstant(i) == [k |-> "fc", r |-> "", n |-> i]
NoOp == [k |-> "none", r |-> "", n |-> 0]

isAddress(o) == o.k = "mem"
isFloatConstant(o) == o.k = "fc"

(* An instruction; dest is the label of a LABEL, a jump or a CALL.         *)
Ins(name, a, b) == [i |-> name, a |-> a, b |-> b, dest |-> ""]
InsTo(name, label) == [i |-> name, a |-> NoOp, b |-> NoOp, dest |-> label]

Addresses == {4 * n : n \in (StackBottom \div 4) .. 0}

Garbage == 77

Esp(m) == m.reg["ESP"]

AddressOf(m, o) == m.reg[o.r] + o.n

Value(m, o, constants) ==
  CASE o.k = "reg" -> m.reg[o.r]
    [] o.k = "mem" -> m.mem[AddressOf(m, o)]
    [] o.k = "imm" -> o.n
    [] o.k = "fc"  -> constants[o.n]

Stored(m, o, v) ==
  IF o.k = "reg" THEN [m EXCEPT !.reg[o.r] = v]
  ELSE [m EXCEPT !.mem[AddressOf(m, o)] = v]

Pushed(m, v) ==
  [m EXCEPT !.reg["ESP"] = @ - 4, !.mem[Esp(m) - 4] = v]

Popped(m) == [m EXCEPT !.reg["ESP"] = @ + 4]

Sign(n) == IF n < 0 THEN -1 ELSE IF n > 0 THEN 1 ELSE 0
Magnitude(n) == IF n < 0 THEN -n ELSE n
Quotient(a, b) == Sign(a) * Sign(b) * (Magnitude(a) \div Magnitude(b))
HighWord(n) == IF n < 0 THEN -1 ELSE 0

Arithmetic == {"ADD", "SUB", "IMUL"}
FloatArithmetic == {"FADDP", "FSUBP", "FMULP", "FDIVP"}

Result(name, a, b) ==
  CASE name \in {"ADD", "FADDP"}  -> a + b
    [] name \in {"SUB", "FSUBP"}  -> a - b
    [] name \in {"IMUL", "FMULP"} -> a * b
    [] name = "FDIVP"             -> Quotient(a, b)

Top(m) == m.fpu[Len(m.fpu)]
Second(m) == m.fpu[Len(m.fpu) - 1]
Dropped(m, n) == [m EXCEPT !.fpu = SubSeq(@, 1, Len(@) - n)]

(* When a conditional jump is taken, by the outcome of the comparison.     *)
Taken(name, outcome) ==
  CASE name = "JE" -> outcome = 0      [] name = "JNE" -> outcome # 0
    [] name \in {"JL", "JB"} -> outcome < 0
    [] name \in {"JLE", "JBE"} -> outcome <= 0
    [] name = "JG" -> outcome > 0      [] name = "JGE" -> outcome >= 0

ConditionalJumps == {"JE", "JNE", "JL", "JLE", "JG", "JGE", "JB", "JBE"}

(* What the assembler accepts and the processor can do without a fault.    *)
Writable(o) == o.k \in {"reg", "mem"}

(* Outcome of the last comparison; other arithmetic spoils the flags.      *)
Spoiled == 9

Legal(m, i) ==
  /\ \A o \in {i.a, i.b} : isAddress(o) => AddressOf(m, o) \in Addresses
  /\ ~(isAddress(i.a) /\ isAddress(i.b))
  /\ i.i \in Arithmetic \cup {"MOV", "NEG", "NOT", "RESTORE", "FSTP"} => Writable(i.a)
  /\ i.i = "CMP" => Writable(i.a)
  /\ i.i = "IMUL" => i.a.k = "reg"
  /\ i.i = "IDIV" => /\ Writable(i.a)
                     /\ Value(m, i.a, <<>>) # 0
                     /\ m.reg["EDX"] = HighWord(m.reg["EAX"])
  /\ i.i \in {"PUSH", "SAVE", "CALL"} => Esp(m) - 4 \in Addresses
  /\ i.i \in {"RESTORE", "RET"} => Esp(m) \in Addresses
  /\ i.i = "FLD" => (isAddress(i.a) \/ isFloatConstant(i.a)) /\ Len(m.fpu) < 8
  /\ i.i \in FloatArithmetic \cup {"FUCOMIP", "FXCH"} => Len(m.fpu) >= 2
  /\ i.i = "FDIVP" => Top(m) # 0
  /\ i.i \in {"FSTP", "FPOP", "FCHS"} => Len(m.fpu) >= 1
  /\ i.i \in ConditionalJumps => m.cmp # Spoiled

(* The machine after instruction i of the program asm.                     *)
Effect(m0, i, asm, constants) ==
  LET m == [m0 EXCEPT !.eip = @ + 1]
      Val(o) == Value(m0, o, constants)
      At(label) == CHOOSE k \in 1 .. Len(asm) : asm[k].i = "LABEL" /\ asm[k].dest = label
  IN CASE i.i = "LABEL" -> m
       [] i.i = "MOV" -> Stored(m, i.a, Val(i.b))
       [] i.i \in Arithmetic ->
            [Stored(m, i.a, Result(i.i, Val(i.a), Val(i.b))) EXCEPT !.cmp = Spoiled]
       [] i.i = "NEG" -> [Stored(m, i.a, -Val(i.a)) EXCEPT !.cmp = Spoiled]
       [] i.i = "NOT" -> Stored(m, i.a, -1 - Val(i.a))
       [] i.i = "CDQ" -> [m EXCEPT !.reg["EDX"] = HighWord(m.reg["EAX"])]
       [] i.i = "IDIV" ->
            LET q == Quotient(m.reg["EAX"], Val(i.a))
            IN [m EXCEPT !.reg["EDX"] = m.reg["EAX"] - q * Val(i.a),
                         !.reg["EAX"] = q, !.cmp = Spoiled]
       [] i.i = "CMP" -> [m EXCEPT !.cmp = Sign(Val(i.a) - Val(i.b))]
       [] i.i \in {"PUSH", "SAVE"} -> Pushed(m, Val(i.a))
       [] i.i = "RESTORE" -> Stored(Popped(m), i.a, m.mem[Esp(m)])
       [] i.i = "CALL" -> [Pushed(m, m.eip) EXCEPT !.eip = At(i.dest)]
       [] i.i = "RET" -> [Popped(m) EXCEPT !.eip = m.mem[Esp(m)]]
       [] i.i = "JMP" -> [m EXCEPT !.eip = At(i.dest)]
       [] i.i \in ConditionalJumps ->
            IF Taken(i.i, m.cmp) THEN [m EXCEPT !.eip = At(i.dest)] ELSE m
       [] i.i = "FLD" -> [m EXCEPT !.fpu = Append(@, Val(i.a))]
       [] i.i = "FCHS" -> [m EXCEPT !.fpu[Len(m.fpu)] = -@]
       [] i.i = "FSTP" -> Dropped(Stored(m, i.a, Top(m)), 1)
       [] i.i = "FPOP" -> Dropped(m, 1)
       [] i.i = "FXCH" -> [m EXCEPT !.fpu = Dropped(m, 2).fpu \o <<Top(m), Second(m)>>]
       [] i.i = "FUCOMIP" -> [Dropped(m, 1) EXCEPT !.cmp = Sign(Top(m) - Second(m))]
       [] i.i \in FloatArithmetic ->
            [m EXCEPT !.fpu = Append(Dropped(m, 2).fpu, Result(i.i, Second(m), Top(m)))]
=============================================================================
