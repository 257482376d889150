------------------------ MODULE MCRegisterAllocation ------------------------
(* The whole pass over the sample programs, and over three small sets of   *)
(* programs in which liveness goes wrong.                                  *)
EXTENDS RegisterAllocation, SamplePrograms

MCPrograms == Straight \cup Branch \cup Loop \cup Calls

(* The samples are of the code about which QueriesExact, LiveRangesExact   *)
(* and NoClobber speak, and none of their lines is dead.                   *)
ASSUME SamplesAssumption ==
  \A p \in MCPrograms :
    /\ Visible(p)
    /\ \A i \in Lines(p) : p.lines[i].op = "ENTRY" \/ EnteredFromAbove(p, i)
=============================================================================
