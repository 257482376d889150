------------------------- MODULE MCRegisterManager --------------------------
(***************************************************************************)
(* Register allocation with the exact live sets.  One register for three   *)
(* integer variables makes colours go beyond the registers, and sorting by *)
(* degree meets ties; vt is a FLOAT.                                       *)
(***************************************************************************)
EXTENDS RegisterManager, SamplePrograms

ExactLiveOut(p) ==
  LET needed == UNION {{v} \X NeededAfter(p, v) : v \in Vars}
  IN [id \in {p.lines[i].bb : i \in Lines(p)} |->
        {v \in Vars : <<v, LastLineOf(p, id)>> \in needed}]

Targets == {Compute(v, u, w) : v, u \in {va, vb, vc}, w \in {vb, vt}}

Pressure ==
  {Code(MCVars,
        <<Decl("ENTRY", main), Assign(va, NoVar), Assign(vb, NoVar),
          Assign(vt, NoVar), s1, s2, Push(v), Return(vc)>>) :
     s1, s2 \in Targets, v \in User}

MCAnalysed ==
  {[code |-> p, liveOut |-> ExactLiveOut(p)] : p \in Pressure \cup Calls}
=============================================================================
