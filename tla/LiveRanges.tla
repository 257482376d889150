----------------------------- MODULE LiveRanges -----------------------------
(***************************************************************************)
(* Cfg::getVariableLiveRangeMap: for each variable of the store that is    *)
(* live somewhere, the range of lines from the first one at which it is    *)
(* live to the one behind the last.                                        *)
(***************************************************************************)
EXTENDS LiveQueries, FiniteSets

FE == INSTANCE FiniteSetsExt

LiveLines(p, liveOut, v) == {i \in Lines(p) : v \in liveSetAt(p, liveOut, i)}

(* startMap.at of a variable that is live but not in the store.            *)
RangesThrow(p, liveOut) ==
  \E v \in Vars \ p.store : LiveLines(p, liveOut, v) # {}

Ranges(p, liveOut, behindLast) ==
  LET live == [v \in p.store |-> LiveLines(p, liveOut, v)]
  IN [v \in {w \in p.store : live[w] # {}} |->
        [first |-> FE!Min(live[v]), behind |-> FE!Max(live[v]) + behindLast]]

getVariableLiveRangeMapShort(p, liveOut) == Ranges(p, liveOut, 0)   \* mutant

getVariableLiveRangeMap(p, liveOut) == Ranges(p, liveOut, 1)
=============================================================================
