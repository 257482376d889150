--------------------------- MODULE SamplePrograms ---------------------------
(***************************************************************************)
(* Small programs as the AST converters produce them, for the instances    *)
(* that TLC checks: lines by kind, block ids, the four control structures  *)
(*                                                                         *)
(*   straight  S S S return r;                                             *)
(*   branch    a = 1; if (v) S else S  S return r;                         *)
(*   loop      a = 1; while (v) { S S } return r;                          *)
(*   calls     int f(int a) { S return r; }                                *)
(*             int main() { S int b = f(u); return q; }                    *)
(*                                                                         *)
(* each S being a statement v = u; v = 1; or a = b + c;.  Nothing forces a *)
(* variable to be initialised.  The constants va, vb, ... are the variables *)
(* written a, b, ... here and fn is the function f.                        *)
(***************************************************************************)
EXTENDS TacCode

CONSTANTS va, vb, vc, vs, vt, fn, main, L1, L2

MCVars == {va, vb, vc, vs, vt}
MCLabels == {fn, main, L1, L2}
User == {va, vb, vc}

Blank == [op |-> "RET", target |-> NoVar, arg1 |-> NoVar, arg2 |-> NoVar,
          index |-> {}, dest |-> NoLabel, bb |-> 0]

Decl(op, l) == [Blank EXCEPT !.op = op, !.dest = l]
Jump(l) == [Blank EXCEPT !.op = "JUMP", !.dest = l]
JumpFalse(v, l) == [Blank EXCEPT !.op = "JUMPFALSE", !.arg1 = v, !.dest = l]
Return(v) == [Blank EXCEPT !.op = "RET", !.arg1 = v]
Push(v) == [Blank EXCEPT !.op = "PUSH", !.arg1 = v]
Pop(v) == [Blank EXCEPT !.op = "POP", !.arg1 = v, !.target = v]
Call(v) == [Blank EXCEPT !.op = "CALL", !.target = v]
Assign(v, u) ==
  [Blank EXCEPT !.op = "ASSIGN", !.target = v, !.arg1 = v, !.arg2 = u]
Compute(v, u, w) ==
  [Blank EXCEPT !.op = "COMPUTE", !.target = v, !.arg1 = u, !.arg2 = w]

Moves ==
  {Assign(v, u) : v \in User, u \in User \cup {NoVar}}
    \ {Assign(v, v) : v \in User}

Statements == Moves \cup {Compute(va, vb, vc)}

(* Numbers the blocks of a sequence of lines; store is its variable store. *)
Code(store, lines) ==
  LET Id[i \in DOMAIN lines] ==
        IF i = 1 THEN 0
        ELSE Id[i - 1] + (IF StartsBlock(lines[i]) \/ EndsBlock(lines[i - 1])
                          THEN 1 ELSE 0)
  IN [store |-> store,
      lines |-> [i \in DOMAIN lines |-> [lines[i] EXCEPT !.bb = Id[i]]]]

Straight ==
  {Code(MCVars, <<Decl("ENTRY", main), s1, s2, s3, Return(r)>>) :
     s1, s2, s3 \in Statements, r \in User}

Branch ==
  {Code(MCVars,
        <<Decl("ENTRY", main), Assign(va, NoVar), JumpFalse(v, L1), s1, Jump(L2),
          Decl("LABEL", L1), s2, Decl("LABEL", L2), s3, Return(r)>>) :
     s1, s2, s3 \in Statements, v \in {va, vb}, r \in {va, vb}}

Loop ==
  {Code(MCVars,
        <<Decl("ENTRY", main), Assign(va, NoVar), Decl("LABEL", L1),
          JumpFalse(v, L2), s1, s2, Jump(L1), Decl("LABEL", L2), Return(r)>>) :
     s1, s2 \in Statements, v, r \in User}

Calls ==
  {Code(MCVars,
        <<Decl("ENTRY", fn), Pop(va), s1, Return(r), Decl("ENTRY", main), s2,
          Push(u), Call(vb), Return(q)>>) :
     s1, s2 \in Statements, r, u, q \in {va, vb}}

(* int a = 1; int b = 2; print(b); a = a; print(a);                        *)
SelfAssignment ==
  {Code(MCVars,
        <<Decl("ENTRY", main), Assign(va, NoVar), Assign(vb, NoVar), Push(vb),
          Assign(va, va), Push(va), Return(NoVar)>>)}

(* int a = 1; int b = 2; int[2] t; t[a] = b; return b;  The target of the  *)
(* store is the ArrayAccess, which is a Variable of its own.               *)
IndexedStore ==
  {Code(MCVars,
        <<Decl("ENTRY", main), Assign(va, NoVar), Assign(vb, NoVar),
          [Assign(vt, vb) EXCEPT !.arg1 = NoVar, !.index = {va}], Return(vb)>>)}

UnseenOperands == SelfAssignment \cup IndexedStore

=============================================================================
