----------------------------- MODULE MCCfgBuild -----------------------------
(***************************************************************************)
(* All code of at most MCLength lines in the shape of TacCode!WellFormed   *)
(* over one variable: every arrangement of functions, labels, jumps, calls *)
(* and returns, with lines between them that read or write the variable.   *)
(* Line i declares label i if it declares one.                             *)
(***************************************************************************)
EXTENDS CfgBuild

CONSTANTS MCLength, x

MCVars == {x}
MCLabels == 1 .. MCLength

(* A plain line of the instance: PUSH reads x, ASSIGN writes it, JUMPFALSE *)
(* tests it.                                                               *)
MCOps == {"ENTRY", "LABEL", "JUMP", "JUMPFALSE", "RET", "CALL", "PUSH", "ASSIGN"}

MCLine(op, dest, bb) ==
  [op |-> op, index |-> {}, dest |-> dest, bb |-> bb,
   target |-> IF op = "ASSIGN" THEN x ELSE NoVar,
   arg1 |-> IF op \in {"ASSIGN", "PUSH", "JUMPFALSE"} THEN x ELSE NoVar,
   arg2 |-> NoVar]

MCBlockIds(ops) ==
  LET Id[i \in DOMAIN ops] ==
        IF i = 1 THEN 0
        ELSE Id[i - 1] + (IF \/ ops[i] \in {"ENTRY", "LABEL"}
                             \/ ops[i - 1] \in {"JUMP", "JUMPFALSE", "RET", "CALL"}
                          THEN 1 ELSE 0)
  IN Id

(* A jump may go to any label of its function.                             *)
MCJumps(ops) == {i \in DOMAIN ops : ops[i] \in {"JUMP", "JUMPFALSE"}}
MCTargets(ops) == {i \in DOMAIN ops : ops[i] = "LABEL"}

MCSameFunction(ops, i, j) ==
  \A k \in DOMAIN ops : ops[k] = "ENTRY" => (k <= i <=> k <= j)

MCDest(ops, jump, i) ==
  CASE ops[i] \in {"ENTRY", "LABEL"} -> i
    [] i \in DOMAIN jump             -> jump[i]
    [] OTHER                         -> NoLabel

MCCodes(n) ==
  UNION {{[store |-> MCVars,
           lines |-> LET id == MCBlockIds(ops)
                     IN [i \in 1 .. n |-> MCLine(ops[i], MCDest(ops, jump, i), id[i])]] :
            jump \in {f \in [MCJumps(ops) -> MCTargets(ops)] :
                        \A i \in DOMAIN f : MCSameFunction(ops, i, f[i])}} :
         ops \in {o \in [1 .. n -> MCOps] :
                    /\ o[1] = "ENTRY"
                    /\ \A i \in 1 .. n : o[i] = "JUMPFALSE" =>
                         i < n /\ o[i + 1] # "ENTRY"}}

MCPrograms == UNION {MCCodes(n) : n \in 1 .. MCLength}
=============================================================================
