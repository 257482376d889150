---------------------------- MODULE LiveQueries ----------------------------
(***************************************************************************)
(* Cfg::liveSetAt and Cfg::liveSetAfter: from the LIVEOUT set of a line's  *)
(* block back to the line.  p is the program, liveOut the map of the Cfg;  *)
(* its sets are taken as they are (recomputeWorkList = false).             *)
(***************************************************************************)
EXTENDS TacCode

LastLineOf(p, b) ==
  CHOOSE i \in LinesOf(p, b) : \A j \in LinesOf(p, b) : j <= i

(* The variables of the line are inserted first and its target is erased   *)
(* after that.                                                             *)
AcrossWithoutKill(l, live) == live \cup getVariables(l)   \* mutant

Across(l, live) == (live \cup getVariables(l)) \ Writes(l)

liveSetAt(p, liveOut, i) ==
  LET b == p.lines[i].bb
      last == LastLineOf(p, b)
      bLive[j \in i .. last] ==
        Across(p.lines[j], IF j = last THEN liveOut[b] ELSE bLive[j + 1])
  IN bLive[i]

liveSetAfter(p, liveOut, i) ==
  LET b == p.lines[i].bb
  IN IF i = LastLineOf(p, b) THEN liveOut[b] ELSE liveSetAt(p, liveOut, i + 1)
=============================================================================
