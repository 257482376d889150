---------------------- MODULE RegisterAllocationProofs ----------------------
(***************************************************************************)
(* The constructor of RegisterManager from the code to the registers, for  *)
(* well formed code of any length: what liveSetAt and liveSetAfter answer  *)
(* is what the executions of the code need, so live ranges are right, and  *)
(* no write to a register destroys a variable that is still needed.        *)
(*                                                                         *)
(* The proof joins those of the parts: CfgBuildProofs says that the graph  *)
(* is that of the code, CfgLivenessProofs that the sets are its least      *)
(* solution, RegisterManagerProofs that everything live at a line is       *)
(* joined to what the line writes and gets another register.  What is left *)
(* for this module is what the equations of blocks say of single lines.    *)
(***************************************************************************)
EXTENDS RegisterAllocation, FiniteSetTheorems, TLAPS

BP == INSTANCE CfgBuildProofs
LP == INSTANCE CfgLivenessProofs WITH Graphs <- {}
RP == INSTANCE RegisterManagerProofs WITH Analysed <- {}

LEMMA Least ==
  ASSUME NEW T \in SUBSET Nat, T # {}
  PROVE  \E x \in T : \A y \in T : x <= y
BY LP!Least

LEMMA Greatest ==
  ASSUME NEW n \in Nat, NEW T \in SUBSET (1 .. n), T # {}
  PROVE  \E x \in T : \A y \in T : y <= x
BY LP!Greatest

-----------------------------------------------------------------------------
(* The lines of a block.                                                   *)

LEMMA LinesAre ==
  ASSUME NEW p, WellFormed(p)
  PROVE  /\ Len(p.lines) \in Nat \ {0} /\ Lines(p) = 1 .. Len(p.lines)
         /\ \A i \in Lines(p) : p.lines[i] \in Line /\ p.lines[i].bb \in Nat
         /\ \A i \in Lines(p) \ {1} :
              p.lines[i].bb = p.lines[i - 1].bb +
                (IF StartsBlock(p.lines[i]) \/ EndsBlock(p.lines[i - 1]) THEN 1 ELSE 0)
<1>1. p.lines \in Seq(Line) /\ p.lines # <<>> /\ Lines(p) = 1 .. Len(p.lines)
  BY DEF WellFormed, Lines
<1>2. \A i \in Lines(p) : p.lines[i] \in Line
  BY <1>1
<1>3. \A i \in Lines(p) : p.lines[i].bb \in Nat
  BY <1>2 DEF Line
<1>4. Len(p.lines) \in Nat \ {0}
  BY <1>1
<1> QED
  BY <1>1, <1>2, <1>3, <1>4 DEF WellFormed

FirstIn(p, i) == i = 1 \/ p.lines[i].bb # p.lines[i - 1].bb

LastIn(p, i) == i = Len(p.lines) \/ p.lines[i + 1].bb # p.lines[i].bb

LEMMA BlocksAscend ==
  ASSUME NEW p, WellFormed(p), NEW i \in Lines(p), NEW j \in Lines(p), i <= j
  PROVE  p.lines[i].bb <= p.lines[j].bb
<1> DEFINE T == {k \in i .. j : p.lines[k].bb < p.lines[i].bb}
<1>1. /\ i \in Nat \ {0} /\ j \in Nat \ {0} /\ i .. j \subseteq Lines(p)
      /\ \A k \in Lines(p) : p.lines[k].bb \in Nat
      /\ \A k \in Lines(p) \ {1} : p.lines[k].bb >= p.lines[k - 1].bb
  <2>1. /\ i \in Nat \ {0} /\ j \in Nat \ {0} /\ i .. j \subseteq Lines(p)
        /\ \A k \in Lines(p) : p.lines[k].bb \in Nat
    BY LinesAre
  <2>2. ASSUME NEW k \in Lines(p) \ {1} PROVE p.lines[k].bb >= p.lines[k - 1].bb
    <3>1. k - 1 \in Lines(p)
      BY LinesAre
    <3>2. p.lines[k - 1].bb \in Nat
      BY <2>1, <3>1
    <3> QED
      BY <3>2, LinesAre
  <2> QED
    BY <2>1, <2>2
<1>2. T = {}
  <2> SUFFICES ASSUME T # {} PROVE FALSE
    OBVIOUS
  <2>1. T \in SUBSET Nat
    BY <1>1
  <2>2. PICK k \in T : \A m \in T : k <= m
    <3> HIDE DEF T
    <3> QED
      BY <2>1, Least
  <2>3. k \in i .. j /\ p.lines[k].bb < p.lines[i].bb
    BY <2>2
  <2>4. k # i
    BY <1>1, <2>3
  <2>5. k - 1 \in i .. j /\ k \in Lines(p) \ {1} /\ ~(k <= k - 1)
    BY <1>1, <2>3, <2>4
  <2>6. k - 1 \notin T
    BY <2>2, <2>5
  <2>7. p.lines[k - 1].bb >= p.lines[i].bb
    BY <1>1, <2>5, <2>6
  <2>8. p.lines[k].bb >= p.lines[k - 1].bb
    BY <1>1, <2>5
  <2> QED
    BY <1>1, <2>3, <2>5, <2>7, <2>8
<1>3. j \in i .. j
  BY <1>1
<1>4. ~(p.lines[j].bb < p.lines[i].bb)
  BY <1>2, <1>3
<1> QED
  BY <1>1, <1>3, <1>4

FirstLineOf(p, b) ==
  CHOOSE i \in LinesOf(p, b) : \A j \in LinesOf(p, b) : i <= j

(* A block is a range of lines, and its ends are seen at the line.         *)
LEMMA BlockIs ==
  ASSUME NEW p, WellFormed(p), NEW b, LinesOf(p, b) # {}
  PROVE  /\ FirstLineOf(p, b) \in Lines(p) /\ LastLineOf(p, b) \in Lines(p)
         /\ LinesOf(p, b) = FirstLineOf(p, b) .. LastLineOf(p, b)
         /\ FirstLineOf(p, b) <= LastLineOf(p, b)
         /\ \A i \in LinesOf(p, b) : /\ LastIn(p, i) <=> i = LastLineOf(p, b)
                                     /\ FirstIn(p, i) <=> i = FirstLineOf(p, b)
<1> DEFINE first == FirstLineOf(p, b)
           last == LastLineOf(p, b)
           here == LinesOf(p, b)
<1>1. /\ Len(p.lines) \in Nat \ {0} /\ Lines(p) = 1 .. Len(p.lines)
      /\ here \subseteq Lines(p) /\ \A i \in here : p.lines[i].bb = b
      /\ \A i \in Lines(p) : p.lines[i].bb = b => i \in here
  BY LinesAre DEF LinesOf
<1>2. here \in SUBSET Nat /\ here \in SUBSET (1 .. Len(p.lines)) /\ here # {}
  BY <1>1
<1>3. first \in here /\ \A j \in here : first <= j
  <2> HIDE DEF here
  <2>1. \E i \in here : \A j \in here : i <= j
    BY <1>2, Least
  <2> QED
    BY <2>1 DEF FirstLineOf, here
<1>4. last \in here /\ \A j \in here : j <= last
  <2> HIDE DEF here
  <2>1. \E i \in here : \A j \in here : j <= i
    BY <1>1, <1>2, Greatest
  <2> QED
    BY <2>1 DEF LastLineOf, here
<1>5. b \in Nat
  BY <1>1, <1>3, LinesAre
<1> HIDE DEF here, first, last
<1>6. ASSUME NEW i \in first .. last PROVE i \in here
  <2>1. i \in Lines(p) /\ first <= i /\ i <= last /\ first \in Lines(p) /\ last \in Lines(p)
    BY <1>1, <1>3, <1>4
  <2>2. b <= p.lines[i].bb /\ p.lines[i].bb <= b
    BY <1>1, <1>3, <1>4, <2>1, BlocksAscend
  <2>3. p.lines[i].bb \in Nat
    BY <2>1, LinesAre
  <2> QED
    BY <1>1, <1>5, <2>1, <2>2, <2>3
<1>7. here = first .. last /\ first \in Lines(p) /\ last \in Lines(p) /\ first <= last
  <2>1. first \in Nat /\ last \in Nat /\ first <= last
    BY <1>1, <1>3, <1>4
  <2>2. \A i \in here : i \in first .. last
    BY <1>1, <1>3, <1>4, <2>1
  <2> QED
    BY <1>1, <1>3, <1>4, <1>6, <2>1, <2>2
<1>8. ASSUME NEW i \in here PROVE LastIn(p, i) <=> i = last
  <2>1. CASE i = last
    <3>1. i + 1 \notin here
      BY <1>1, <1>7, <2>1
    <3>2. i # Len(p.lines) => i + 1 \in Lines(p)
      BY <1>1, <1>7, <2>1
    <3> QED
      BY <1>1, <2>1, <3>1, <3>2 DEF LastIn
  <2>2. CASE i # last
    <3>1. i + 1 \in here /\ i # Len(p.lines)
      BY <1>1, <1>7, <2>2
    <3> QED
      BY <1>1, <2>2, <3>1 DEF LastIn
  <2> QED
    BY <2>1, <2>2
<1>9. ASSUME NEW i \in here PROVE FirstIn(p, i) <=> i = first
  <2>1. CASE i = first
    <3>1. i - 1 \notin here
      BY <1>1, <1>7, <2>1
    <3>2. i # 1 => i - 1 \in Lines(p)
      BY <1>1, <1>7, <2>1
    <3> QED
      BY <1>1, <2>1, <3>1, <3>2 DEF FirstIn
  <2>2. CASE i # first
    <3>1. i - 1 \in here /\ i # 1
      BY <1>1, <1>7, <2>2
    <3> QED
      BY <1>1, <2>2, <3>1 DEF FirstIn
  <2> QED
    BY <2>1, <2>2
<1> QED
  BY <1>7, <1>8, <1>9 DEF here, first, last

-----------------------------------------------------------------------------
(* liveSetAt goes from the end of the block back to the line.              *)

(* What it has at each line from i on, when out is live behind the last.   *)
Behind(f, out, j, last) == IF j = last THEN out ELSE f[j + 1]

IsBack(f, p, out, i, last) ==
  f = [j \in i .. last |-> Across(p.lines[j], Behind(f, out, j, last))]

LEMMA BackAt ==
  ASSUME NEW p, NEW out, NEW i \in Nat, NEW last \in Nat, NEW f,
         IsBack(f, p, out, i, last), NEW j \in i .. last
  PROVE  f[j] = Across(p.lines[j], Behind(f, out, j, last))
<1> DEFINE F == [k \in i .. last |-> Across(p.lines[k], Behind(f, out, k, last))]
<1>1. f = F
  BY DEF IsBack
<1>2. F[j] = Across(p.lines[j], Behind(f, out, j, last))
  OBVIOUS
<1> QED
  BY <1>1, <1>2

LEMMA BackExists ==
  ASSUME NEW p, NEW out, NEW i \in Nat \ {0}, NEW last \in Nat, i <= last
  PROVE  \E f : IsBack(f, p, out, i, last)
<1> DEFINE T == {k \in 1 .. last : ~(\E f : IsBack(f, p, out, k, last))}
<1>1. T = {}
  <2> SUFFICES ASSUME T # {} PROVE FALSE
    OBVIOUS
  <2>1. T \in SUBSET (1 .. last)
    OBVIOUS
  <2>2. PICK k \in T : \A m \in T : m <= k
    <3> HIDE DEF T
    <3> QED
      BY <2>1, Greatest
  <2>3. k \in 1 .. last /\ ~(\E f : IsBack(f, p, out, k, last))
    BY <2>2
  <2>4. CASE k = last
    <3> DEFINE f == [j \in k .. last |-> Across(p.lines[j], out)]
    <3>1. \A j \in k .. last : j = last
      BY <2>3, <2>4
    <3>2. f = [j \in k .. last |-> Across(p.lines[j], IF j = last THEN out ELSE f[j + 1])]
      BY <3>1
    <3>3. IsBack(f, p, out, k, last)
      BY <3>2 DEF IsBack, Behind
    <3> QED
      BY <2>3, <3>3
  <2>5. CASE k # last
    <3>1. k + 1 \in 1 .. last /\ ~(k + 1 <= k)
      BY <2>3, <2>5
    <3>2. k + 1 \notin T
      BY <2>2, <3>1
    <3>3. PICK g : IsBack(g, p, out, k + 1, last)
      BY <3>1, <3>2
    <3> DEFINE f == [j \in k .. last |->
                       IF j = k THEN Across(p.lines[k], g[k + 1]) ELSE g[j]]
               F == [j \in k .. last |->
                       Across(p.lines[j], IF j = last THEN out ELSE f[j + 1])]
    <3>4. \A j \in k .. last : j = k \/ j \in k + 1 .. last
      BY <2>3
    <3>5. \A j \in k .. last : j # last => j + 1 \in k + 1 .. last /\ j + 1 \in k .. last /\ j + 1 # k
      BY <2>3
    <3>6. \A j \in k + 1 .. last : j \in k .. last /\ j # k
      BY <2>3
    <3>7. \A j \in k + 1 .. last : f[j] = g[j]
      BY <3>6
    <3>8. f[k] = Across(p.lines[k], g[k + 1])
      BY <2>3
    <3>9. ASSUME NEW j \in k .. last
          PROVE  f[j] = Across(p.lines[j], IF j = last THEN out ELSE f[j + 1])
      <4>1. j # last => f[j + 1] = g[j + 1]
        BY <3>5, <3>7
      <4>2. CASE j = k
        <5> HIDE DEF f
        <5> QED
          BY <2>5, <3>8, <4>1, <4>2
      <4>3. CASE j # k
        <5>1. j \in k + 1 .. last /\ k + 1 \in Nat
          BY <2>3, <3>4, <4>3
        <5>2. g[j] = Across(p.lines[j], Behind(g, out, j, last))
          BY <3>3, <5>1, BackAt
        <5>3. f[j] = g[j]
          BY <3>7, <5>1
        <5> HIDE DEF f
        <5> QED
          BY <4>1, <5>2, <5>3 DEF Behind
      <4> QED
        BY <4>2, <4>3
    <3>10. f = [j \in k .. last |-> f[j]]
      OBVIOUS
    <3> HIDE DEF f
    <3>11. f = F
      BY <3>9, <3>10
    <3>12. IsBack(f, p, out, k, last)
      BY <3>11 DEF IsBack, Behind
    <3> QED
      BY <2>3, <3>12
  <2> QED
    BY <2>4, <2>5
<1>2. i \in 1 .. last
  OBVIOUS
<1> QED
  BY <1>1, <1>2

LEMMA BackUnique ==
  ASSUME NEW p, NEW out, NEW i \in Nat \ {0}, NEW k \in Nat \ {0}, NEW last \in Nat,
         NEW f, IsBack(f, p, out, i, last), NEW g, IsBack(g, p, out, k, last),
         i <= k, NEW j \in k .. last
  PROVE  f[j] = g[j]
<1> DEFINE T == {m \in 1 .. last : m \in k .. last /\ f[m] # g[m]}
<1>1. T = {}
  <2> SUFFICES ASSUME T # {} PROVE FALSE
    OBVIOUS
  <2>1. T \in SUBSET (1 .. last)
    OBVIOUS
  <2>2. PICK m \in T : \A n \in T : n <= m
    <3> HIDE DEF T
    <3> QED
      BY <2>1, Greatest
  <2>3. m \in k .. last /\ m \in i .. last /\ f[m] # g[m]
    BY <2>2
  <2> HIDE DEF T
  <2>4. /\ f[m] = Across(p.lines[m], Behind(f, out, m, last))
        /\ g[m] = Across(p.lines[m], Behind(g, out, m, last))
    BY <2>3, BackAt
  <2>5. m # last => f[m + 1] = g[m + 1]
    <3> SUFFICES ASSUME m # last PROVE f[m + 1] = g[m + 1]
      OBVIOUS
    <3>1. m + 1 \in k .. last /\ m + 1 \in 1 .. last /\ ~(m + 1 <= m)
      BY <2>3
    <3> QED
      BY <2>2, <3>1 DEF T
  <2> QED
    BY <2>3, <2>4, <2>5 DEF Behind
<1>2. j \in 1 .. last
  OBVIOUS
<1> QED
  BY <1>1, <1>2

LEMMA LiveSetIsBack ==
  ASSUME NEW p, WellFormed(p), NEW out, NEW i \in Lines(p)
  PROVE  \E f : /\ IsBack(f, p, out[p.lines[i].bb], i, LastLineOf(p, p.lines[i].bb))
                /\ liveSetAt(p, out, i) = f[i]
<1> DEFINE b == p.lines[i].bb
           last == LastLineOf(p, b)
           f == CHOOSE g : g = [j \in i .. last |->
                  Across(p.lines[j], IF j = last THEN out[b] ELSE g[j + 1])]
<1>1. liveSetAt(p, out, i) = f[i]
  BY DEF liveSetAt
<1>2. i \in LinesOf(p, b)
  BY DEF LinesOf
<1>3. i \in Nat \ {0} /\ last \in Nat /\ i <= last
  BY <1>2, BlockIs, LinesAre
<1> HIDE DEF b, last
<1>4. \E g : g = [j \in i .. last |->
                    Across(p.lines[j], IF j = last THEN out[b] ELSE g[j + 1])]
  <2>1. PICK g : IsBack(g, p, out[b], i, last)
    BY <1>3, BackExists
  <2>2. g = [j \in i .. last |->
               Across(p.lines[j], IF j = last THEN out[b] ELSE g[j + 1])]
    BY <2>1 DEF IsBack, Behind
  <2> QED
    BY <2>2
<1>5. f = [j \in i .. last |-> Across(p.lines[j], IF j = last THEN out[b] ELSE f[j + 1])]
  BY <1>4
<1> HIDE DEF f
<1>6. IsBack(f, p, out[b], i, last)
  BY <1>5 DEF IsBack, Behind
<1> QED
  BY <1>1, <1>6 DEF b, last

(* The live set at a line comes from the one after it.                     *)
LEMMA LiveSetUnfolds ==
  ASSUME NEW p, WellFormed(p), NEW out, NEW i \in Lines(p)
  PROVE  /\ liveSetAt(p, out, i) = Across(p.lines[i], liveSetAfter(p, out, i))
         /\ LastIn(p, i) => liveSetAfter(p, out, i) = out[p.lines[i].bb]
         /\ ~LastIn(p, i) => liveSetAfter(p, out, i) = liveSetAt(p, out, i + 1)
<1> DEFINE b == p.lines[i].bb
           last == LastLineOf(p, b)
<1>1. i \in LinesOf(p, b)
  BY DEF LinesOf
<1>2. /\ i \in Nat \ {0} /\ last \in Nat /\ i <= last /\ LinesOf(p, b) \subseteq Lines(p)
      /\ LastIn(p, i) <=> i = last
      /\ i # last => i + 1 \in LinesOf(p, b)
  <2>1. i \in Nat \ {0} /\ last \in Nat /\ i \in FirstLineOf(p, b) .. last
    BY <1>1, BlockIs, LinesAre
  <2>2. FirstLineOf(p, b) \in Nat
    BY <1>1, BlockIs, LinesAre
  <2>3. i # last => i + 1 \in FirstLineOf(p, b) .. last
    BY <2>1, <2>2
  <2> QED
    BY <1>1, <2>1, <2>3, BlockIs DEF LinesOf
<1>3. PICK f : IsBack(f, p, out[b], i, last) /\ liveSetAt(p, out, i) = f[i]
  BY LiveSetIsBack
<1>4. liveSetAfter(p, out, i) = IF i = last THEN out[b] ELSE liveSetAt(p, out, i + 1)
  BY DEF liveSetAfter
<1>5. i # last => liveSetAt(p, out, i + 1) = f[i + 1]
  <2> SUFFICES ASSUME i # last PROVE liveSetAt(p, out, i + 1) = f[i + 1]
    OBVIOUS
  <2>1. i + 1 \in Lines(p) /\ p.lines[i + 1].bb = b
    BY <1>2 DEF LinesOf
  <2>2. PICK g : IsBack(g, p, out[b], i + 1, last) /\ liveSetAt(p, out, i + 1) = g[i + 1]
    BY <2>1, LiveSetIsBack
  <2>3. i + 1 \in Nat \ {0} /\ i <= i + 1 /\ i + 1 \in i + 1 .. last
    BY <1>2
  <2> HIDE DEF last, b
  <2>4. f[i + 1] = g[i + 1]
    BY <1>2, <1>3, <2>2, <2>3, BackUnique
  <2> QED
    BY <2>2, <2>4
<1> HIDE DEF last, b
<1>6. f[i] = Across(p.lines[i], Behind(f, out[b], i, last))
  <2>1. i \in i .. last /\ i \in Nat
    BY <1>2
  <2> QED
    BY <1>2, <1>3, <2>1, BackAt
<1>7. liveSetAt(p, out, i) = Across(p.lines[i], liveSetAfter(p, out, i))
  BY <1>3, <1>4, <1>5, <1>6 DEF Behind
<1> QED
  BY <1>2, <1>4, <1>7 DEF b

-----------------------------------------------------------------------------
(* What is needed, as a set of lines that is closed under going back.      *)

Readers(p, v) == {i \in Lines(p) : v \in Reads(p.lines[i])}

Nearer(p, v, found) ==
  found \cup {i \in Lines(p) : /\ v \notin Writes(p.lines[i])
                               /\ LineSuccessors(p, i) \cap found # {}}

Level(f, p, v, m) == IF m = 0 THEN Readers(p, v) ELSE Nearer(p, v, f[m - 1])

IsGrow(f, p, v, n) == f = [m \in 0 .. n |-> Level(f, p, v, m)]

LEMMA GrowAt ==
  ASSUME NEW p, NEW v, NEW n \in Nat, NEW f, IsGrow(f, p, v, n), NEW m \in 0 .. n
  PROVE  f[m] = Level(f, p, v, m)
<1> DEFINE F == [k \in 0 .. n |-> Level(f, p, v, k)]
<1>1. f = F
  BY DEF IsGrow
<1>2. F[m] = Level(f, p, v, m)
  OBVIOUS
<1> QED
  BY <1>1, <1>2

LEMMA GrowExists ==
  ASSUME NEW p, NEW v, NEW n \in Nat
  PROVE  \E f : IsGrow(f, p, v, n)
<1> DEFINE T == {k \in Nat : ~(\E f : IsGrow(f, p, v, k))}
<1>1. T = {}
  <2> SUFFICES ASSUME T # {} PROVE FALSE
    OBVIOUS
  <2>1. T \in SUBSET Nat
    OBVIOUS
  <2>2. PICK k \in T : \A m \in T : k <= m
    <3> HIDE DEF T
    <3> QED
      BY <2>1, Least
  <2>3. k \in Nat /\ ~(\E f : IsGrow(f, p, v, k))
    BY <2>2
  <2>4. CASE k = 0
    <3> DEFINE f == [m \in 0 .. k |-> Readers(p, v)]
    <3>1. \A m \in 0 .. k : m = 0
      BY <2>4
    <3>2. IsGrow(f, p, v, k)
      BY <3>1 DEF IsGrow, Level
    <3> QED
      BY <2>3, <3>2
  <2>5. CASE k # 0
    <3>1. k - 1 \in Nat /\ ~(k <= k - 1)
      BY <2>3, <2>5
    <3>2. k - 1 \notin T
      BY <2>2, <3>1
    <3>3. PICK g : IsGrow(g, p, v, k - 1)
      BY <3>1, <3>2
    <3> DEFINE f == [m \in 0 .. k |->
                       IF m = k THEN Nearer(p, v, g[k - 1]) ELSE g[m]]
    <3>4. \A m \in 0 .. k : m = k \/ m \in 0 .. k - 1
      BY <2>3
    <3>5. \A m \in 0 .. k - 1 : m \in 0 .. k /\ m # k
      BY <2>3
    <3>6. \A m \in 0 .. k : m # 0 => m - 1 \in 0 .. k - 1
      BY <2>3
    <3>7. \A m \in 0 .. k - 1 : f[m] = g[m]
      BY <3>5
    <3>8. f[k] = Nearer(p, v, g[k - 1])
      BY <2>3
    <3>9. f = [m \in 0 .. k |-> f[m]]
      OBVIOUS
    <3> HIDE DEF f
    <3>10. ASSUME NEW m \in 0 .. k PROVE f[m] = Level(f, p, v, m)
      <4>1. CASE m = k
        <5>1. f[k - 1] = g[k - 1] /\ k # 0
          BY <2>3, <2>5, <3>6, <3>7
        <5> QED
          BY <3>8, <4>1, <5>1 DEF Level
      <4>2. CASE m # k
        <5>1. m \in 0 .. k - 1 /\ k - 1 \in Nat
          BY <3>1, <3>4, <4>2
        <5>2. g[m] = Level(g, p, v, m)
          BY <3>3, <5>1, GrowAt
        <5>3. m # 0 => f[m - 1] = g[m - 1]
          BY <3>6, <3>7
        <5> QED
          BY <3>7, <5>1, <5>2, <5>3 DEF Level
      <4> QED
        BY <4>1, <4>2
    <3>11. IsGrow(f, p, v, k)
      BY <3>9, <3>10 DEF IsGrow
    <3> QED
      BY <2>3, <3>11
  <2> QED
    BY <2>4, <2>5
<1> QED
  BY <1>1

LEMMA NeededGrows ==
  ASSUME NEW p, NEW v, Len(p.lines) \in Nat
  PROVE  \E f : IsGrow(f, p, v, Len(p.lines)) /\ NeededFrom(p, v) = f[Len(p.lines)]
<1> DEFINE n == Len(p.lines)
           F(h) == [m \in 0 .. n |->
                      IF m = 0 THEN {i \in Lines(p) : v \in Reads(p.lines[i])}
                      ELSE LET found == h[m - 1]
                           IN found \cup
                              {i \in Lines(p) : /\ v \notin Writes(p.lines[i])
                                                /\ LineSuccessors(p, i) \cap found # {}}]
           f == CHOOSE h : h = F(h)
<1>1. NeededFrom(p, v) = f[n]
  BY DEF NeededFrom
<1>2. \A h : IsGrow(h, p, v, n) <=> h = F(h)
  BY DEF IsGrow, Level, Readers, Nearer
<1> HIDE DEF n, F
<1>3. \E h : h = F(h)
  <2>1. PICK g : IsGrow(g, p, v, n)
    BY GrowExists DEF n
  <2> QED
    BY <1>2, <2>1
<1>4. f = F(f)
  BY <1>3
<1> HIDE DEF f
<1>5. IsGrow(f, p, v, n)
  BY <1>2, <1>4
<1> QED
  BY <1>1, <1>5 DEF n

(* Sets of n lines that grow cannot grow n times and still leave a line.   *)
LEMMA Settles ==
  ASSUME NEW n \in Nat, NEW f \in [0 .. n -> SUBSET (1 .. n)],
         \A m \in 1 .. n : f[m - 1] \subseteq f[m]
  PROVE  f[n] = 1 .. n \/ \E m \in 1 .. n : f[m - 1] = f[m]
<1> SUFFICES ASSUME \A m \in 1 .. n : f[m - 1] # f[m] PROVE f[n] = 1 .. n
  OBVIOUS
<1>1. IsFiniteSet(1 .. n) /\ Cardinality(1 .. n) = n
  <2>1. CASE n = 0
    <3>1. 1 .. n = {}
      BY <2>1
    <3> QED
      BY <2>1, <3>1, FS_EmptySet
  <2>2. CASE n # 0
    <3>1. 1 \in Int /\ n \in Int /\ ~(1 > n) /\ n - 1 + 1 = n
      BY <2>2
    <3> QED
      BY <3>1, FS_Interval
  <2> QED
    BY <2>1, <2>2
<1>2. ASSUME NEW m \in 0 .. n
      PROVE  f[m] \in SUBSET (1 .. n) /\ IsFiniteSet(f[m]) /\ Cardinality(f[m]) \in Nat
  <2>1. f[m] \in SUBSET (1 .. n)
    OBVIOUS
  <2> QED
    BY <1>1, <2>1, FS_Subset, FS_CardinalityType
<1> DEFINE T == {m \in 0 .. n : Cardinality(f[m]) < m}
<1>3. T = {}
  <2> SUFFICES ASSUME T # {} PROVE FALSE
    OBVIOUS
  <2>1. T \in SUBSET Nat
    OBVIOUS
  <2>2. PICK m \in T : \A k \in T : m <= k
    <3> HIDE DEF T
    <3> QED
      BY <2>1, Least
  <2>3. m \in 0 .. n /\ Cardinality(f[m]) < m
    BY <2>2
  <2>4. m \in 1 .. n /\ m - 1 \in 0 .. n /\ ~(m <= m - 1)
    BY <1>2, <2>3
  <2>5. ~(Cardinality(f[m - 1]) < m - 1)
    BY <2>2, <2>4
  <2>6. f[m - 1] \in SUBSET f[m] /\ f[m - 1] # f[m]
    BY <2>4
  <2>7. /\ Cardinality(f[m - 1]) <= Cardinality(f[m])
        /\ Cardinality(f[m]) # Cardinality(f[m - 1])
    BY <1>2, <2>3, <2>6, FS_Subset
  <2>8. Cardinality(f[m]) \in Nat /\ Cardinality(f[m - 1]) \in Nat
    BY <1>2, <2>3, <2>4
  <2> QED
    BY <2>3, <2>4, <2>5, <2>7, <2>8
<1>4. n \in 0 .. n
  OBVIOUS
<1>5. ~(Cardinality(f[n]) < n)
  BY <1>3, <1>4
<1>6. /\ f[n] \in SUBSET (1 .. n) /\ Cardinality(f[n]) \in Nat
      /\ Cardinality(f[n]) <= Cardinality(1 .. n)
  BY <1>1, <1>2, <1>4, FS_Subset
<1>7. Cardinality(1 .. n) = Cardinality(f[n])
  BY <1>1, <1>5, <1>6
<1> QED
  BY <1>1, <1>6, <1>7, FS_Subset

LEMMA GrowKnown ==
  ASSUME NEW p, NEW v, NEW n \in Nat, Lines(p) = 1 .. n, NEW f, IsGrow(f, p, v, n)
  PROVE  /\ f \in [0 .. n -> SUBSET (1 .. n)]
         /\ \A m \in 1 .. n : f[m - 1] \subseteq f[m] /\ f[m] = Nearer(p, v, f[m - 1])
         /\ f[0] = Readers(p, v)
<1>1. ASSUME NEW m \in 1 .. n
      PROVE  f[m - 1] \subseteq f[m] /\ f[m] = Nearer(p, v, f[m - 1])
  <2>1. m \in 0 .. n /\ m # 0
    OBVIOUS
  <2>2. f[m] = Level(f, p, v, m)
    BY <2>1, GrowAt
  <2>3. f[m] = Nearer(p, v, f[m - 1])
    BY <2>1, <2>2 DEF Level
  <2> QED
    BY <2>3 DEF Nearer
<1>2. f[0] = Readers(p, v)
  <2>1. 0 \in 0 .. n
    OBVIOUS
  <2>2. f[0] = Level(f, p, v, 0)
    BY <2>1, GrowAt
  <2> QED
    BY <2>2 DEF Level
<1>3. \A m \in 0 .. n : f[m] \in SUBSET (1 .. n)
  <2> DEFINE T == {m \in 0 .. n : ~(f[m] \in SUBSET (1 .. n))}
  <2>1. T = {}
    <3> SUFFICES ASSUME T # {} PROVE FALSE
      OBVIOUS
    <3>1. T \in SUBSET Nat
      OBVIOUS
    <3>2. PICK m \in T : \A k \in T : m <= k
      <4> HIDE DEF T
      <4> QED
        BY <3>1, Least
    <3>3. m \in 0 .. n /\ ~(f[m] \in SUBSET (1 .. n))
      BY <3>2
    <3>4. m # 0
      BY <1>2, <3>3 DEF Readers
    <3>5. m \in 1 .. n /\ m - 1 \in 0 .. n /\ ~(m <= m - 1)
      BY <3>3, <3>4
    <3>6. f[m - 1] \in SUBSET (1 .. n)
      BY <3>2, <3>5
    <3>7. f[m] = Nearer(p, v, f[m - 1])
      BY <1>1, <3>5
    <3> QED
      BY <3>3, <3>6, <3>7 DEF Nearer
  <2> QED
    BY <2>1
<1>4. f = [m \in 0 .. n |-> f[m]]
  BY DEF IsGrow
<1> QED
  BY <1>1, <1>2, <1>3, <1>4

(* Once a level repeats, all the later ones do.                            *)
LEMMA GrowStays ==
  ASSUME NEW p, NEW v, NEW n \in Nat, Lines(p) = 1 .. n, NEW f, IsGrow(f, p, v, n),
         NEW k \in 1 .. n
  PROVE  f[k - 1] = f[k] => f[n] = f[k - 1]
<1>0. /\ f \in [0 .. n -> SUBSET (1 .. n)] /\ f[0] = Readers(p, v)
      /\ \A m \in 1 .. n : f[m - 1] \subseteq f[m] /\ f[m] = Nearer(p, v, f[m - 1])
  BY GrowKnown
<1> SUFFICES ASSUME f[k - 1] = f[k] PROVE f[n] = f[k - 1]
  OBVIOUS
<1> DEFINE T == {m \in Nat : m \in k .. n /\ f[m] # f[k - 1]}
<1>1. T = {}
  <2> SUFFICES ASSUME T # {} PROVE FALSE
    OBVIOUS
  <2>1. T \in SUBSET Nat
    OBVIOUS
  <2>2. PICK m \in T : \A j \in T : m <= j
    <3> HIDE DEF T
    <3> QED
      BY <2>1, Least
  <2>3. m \in Nat /\ m \in k .. n /\ f[m] # f[k - 1]
    BY <2>2
  <2>4. m # k
    BY <2>3
  <2>5. m - 1 \in Nat /\ m - 1 \in k .. n /\ ~(m <= m - 1) /\ m \in 1 .. n
    BY <2>3, <2>4
  <2>6. m - 1 \notin T
    BY <2>2, <2>5
  <2>7. f[m - 1] = f[k - 1]
    BY <2>5, <2>6
  <2> HIDE DEF T
  <2>8. f[m] = Nearer(p, v, f[m - 1]) /\ f[k] = Nearer(p, v, f[k - 1])
    BY <1>0, <2>5
  <2> QED
    BY <2>3, <2>7, <2>8
<1>2. n \in Nat /\ n \in k .. n
  OBVIOUS
<1> QED
  BY <1>1, <1>2

LEMMA GrowReaches ==
  ASSUME NEW p, NEW v, NEW n \in Nat, Lines(p) = 1 .. n, NEW f, IsGrow(f, p, v, n),
         NEW X, Readers(p, v) \subseteq X, Nearer(p, v, X) \subseteq X
  PROVE  f[n] \subseteq X
<1> DEFINE T == {m \in 0 .. n : ~(f[m] \subseteq X)}
<1>1. T = {}
  <2> SUFFICES ASSUME T # {} PROVE FALSE
    OBVIOUS
  <2>1. T \in SUBSET Nat
    OBVIOUS
  <2>2. PICK m \in T : \A k \in T : m <= k
    <3> HIDE DEF T
    <3> QED
      BY <2>1, Least
  <2>3. m \in 0 .. n /\ ~(f[m] \subseteq X)
    BY <2>2
  <2>4. m # 0
    BY <2>3, GrowKnown
  <2>5. m \in 1 .. n /\ m - 1 \in 0 .. n /\ ~(m <= m - 1)
    BY <2>3, <2>4
  <2>6. f[m - 1] \subseteq X
    BY <2>2, <2>5
  <2> HIDE DEF T
  <2>7. f[m] = Nearer(p, v, f[m - 1])
    BY <2>5, GrowKnown
  <2> QED
    BY <2>3, <2>6, <2>7 DEF Nearer
<1>2. n \in 0 .. n
  OBVIOUS
<1> QED
  BY <1>1, <1>2

(* What is needed is the smallest set that holds the lines that read the   *)
(* variable and the lines before it that do not write it.                  *)
LEMMA NeededLeast ==
  ASSUME NEW p, WellFormed(p), NEW v, NEW X,
         Readers(p, v) \subseteq X, Nearer(p, v, X) \subseteq X
  PROVE  NeededFrom(p, v) \subseteq X
<1>1. Len(p.lines) \in Nat /\ Lines(p) = 1 .. Len(p.lines)
  BY LinesAre
<1>2. PICK f : IsGrow(f, p, v, Len(p.lines)) /\ NeededFrom(p, v) = f[Len(p.lines)]
  BY <1>1, NeededGrows
<1> QED
  BY <1>1, <1>2, GrowReaches

LEMMA NeededIs ==
  ASSUME NEW p, WellFormed(p), NEW v
  PROVE  /\ NeededFrom(p, v) \subseteq Lines(p)
         /\ \A i \in Lines(p) :
              i \in NeededFrom(p, v) <=>
                \/ v \in Reads(p.lines[i])
                \/ /\ v \notin Writes(p.lines[i])
                   /\ LineSuccessors(p, i) \cap NeededFrom(p, v) # {}
<1> DEFINE n == Len(p.lines)
           N == NeededFrom(p, v)
<1>1. n \in Nat /\ Lines(p) = 1 .. n
  BY LinesAre
<1>2. PICK f : IsGrow(f, p, v, n) /\ N = f[n]
  BY <1>1, NeededGrows
<1> HIDE DEF n, N
<1>3. /\ f \in [0 .. n -> SUBSET (1 .. n)] /\ f[0] = Readers(p, v)
      /\ \A m \in 1 .. n : f[m - 1] \subseteq f[m] /\ f[m] = Nearer(p, v, f[m - 1])
  BY <1>1, <1>2, GrowKnown
<1>4. N \subseteq Lines(p)
  <2>1. n \in 0 .. n
    BY <1>1
  <2> QED
    BY <1>1, <1>2, <1>3, <2>1
<1>5. Nearer(p, v, N) \subseteq N
  <2>1. f[n] = 1 .. n \/ \E m \in 1 .. n : f[m - 1] = f[m]
    BY <1>1, <1>3, Settles
  <2>2. CASE f[n] = 1 .. n
    BY <1>1, <1>2, <2>2 DEF Nearer
  <2>3. CASE \E m \in 1 .. n : f[m - 1] = f[m]
    <3>1. PICK m \in 1 .. n : f[m - 1] = f[m]
      BY <2>3
    <3>2. f[n] = f[m - 1]
      BY <1>1, <1>2, <3>1, GrowStays
    <3> QED
      BY <1>2, <1>3, <3>1, <3>2
  <2> QED
    BY <2>1, <2>2, <2>3
<1> DEFINE X == Readers(p, v) \cup
                {i \in Lines(p) : /\ v \notin Writes(p.lines[i])
                                  /\ LineSuccessors(p, i) \cap N # {}}
<1>6. X \subseteq N
  <2>1. Readers(p, v) \subseteq N
    <3> DEFINE T == {m \in 0 .. n : ~(Readers(p, v) \subseteq f[m])}
    <3>1. T = {}
      <4> SUFFICES ASSUME T # {} PROVE FALSE
        OBVIOUS
      <4>1. T \in SUBSET Nat
        BY <1>1
      <4>2. PICK m \in T : \A k \in T : m <= k
        <5> HIDE DEF T
        <5> QED
          BY <4>1, Least
      <4>3. m \in 0 .. n /\ ~(Readers(p, v) \subseteq f[m])
        BY <4>2
      <4>4. m # 0
        BY <1>3, <4>3
      <4>5. m \in 1 .. n /\ m - 1 \in 0 .. n /\ ~(m <= m - 1)
        BY <1>1, <4>3, <4>4
      <4>6. Readers(p, v) \subseteq f[m - 1]
        BY <4>2, <4>5
      <4> QED
        BY <1>3, <4>3, <4>5, <4>6
    <3>2. n \in 0 .. n
      BY <1>1
    <3> QED
      BY <1>2, <3>1, <3>2
  <2> QED
    BY <1>5, <2>1 DEF Nearer
<1>7. N \subseteq X
  <2>1. Nearer(p, v, X) \subseteq X
    BY <1>6 DEF Nearer
  <2> HIDE DEF X
  <2>2. Readers(p, v) \subseteq X
    BY DEF X
  <2> QED
    BY <2>1, <2>2, NeededLeast DEF N
<1>8. \A i \in Lines(p) : i \in Readers(p, v) <=> v \in Reads(p.lines[i])
  BY DEF Readers
<1> QED
  BY <1>4, <1>6, <1>7, <1>8 DEF N

-----------------------------------------------------------------------------
(* What the equation of a block says of its lines.  Rd and Wr are the lines*)
(* that read and that write the variable, a tells whether it is needed     *)
(* behind the last line.                                                   *)

ExposedFrom(Rd, Wr, i, last) == \E k \in i .. last : k \in Rd /\ \A j \in i .. k - 1 : j \notin Wr

Clear(Wr, i, last) == \A j \in i .. last : j \notin Wr

Onward(S, a, k, last) == IF k = last THEN a ELSE k + 1 \in S

Follows(i, n, last) == n = i + 1 /\ i < last

LEMMA ExposedSteps ==
  ASSUME NEW Rd, NEW Wr, NEW i \in Nat, NEW last \in Nat, NEW n \in Nat,
         Follows(i, n, last)
  PROVE  /\ ExposedFrom(Rd, Wr, i, last) <=> i \in Rd \/ (i \notin Wr /\ ExposedFrom(Rd, Wr, n, last))
         /\ Clear(Wr, i, last) <=> i \notin Wr /\ Clear(Wr, n, last)
<1>0. n = i + 1 /\ i < last
  BY DEF Follows
<1>1. ASSUME ExposedFrom(Rd, Wr, i, last), i \notin Rd
      PROVE  i \notin Wr /\ ExposedFrom(Rd, Wr, n, last)
  <2>1. PICK k \in i .. last : k \in Rd /\ \A j \in i .. k - 1 : j \notin Wr
    BY <1>1 DEF ExposedFrom
  <2>2. k \in n .. last /\ i \in i .. k - 1 /\ \A j \in n .. k - 1 : j \in i .. k - 1
    BY <1>0, <1>1, <2>1
  <2> QED
    BY <2>1, <2>2 DEF ExposedFrom
<1>2. ASSUME i \in Rd PROVE ExposedFrom(Rd, Wr, i, last)
  <2>1. i \in i .. last /\ \A j \in i .. i - 1 : j \notin Wr
    BY <1>0
  <2> QED
    BY <1>2, <2>1 DEF ExposedFrom
<1>3. ASSUME i \notin Wr, ExposedFrom(Rd, Wr, n, last)
      PROVE  ExposedFrom(Rd, Wr, i, last)
  <2>1. PICK k \in n .. last : k \in Rd /\ \A j \in n .. k - 1 : j \notin Wr
    BY <1>3 DEF ExposedFrom
  <2>2. k \in i .. last /\ \A j \in i .. k - 1 : j = i \/ j \in n .. k - 1
    BY <1>0, <2>1
  <2>3. \A j \in i .. k - 1 : j \notin Wr
    BY <1>3, <2>1, <2>2
  <2> QED
    BY <2>1, <2>2, <2>3 DEF ExposedFrom
<1>4. i \in i .. last /\ \A j \in i .. last : j = i \/ j \in n .. last
  BY <1>0
<1>5. \A j \in n .. last : j \in i .. last
  BY <1>0
<1>6. Clear(Wr, i, last) <=> i \notin Wr /\ Clear(Wr, n, last)
  BY <1>4, <1>5 DEF Clear
<1> QED
  BY <1>1, <1>2, <1>3, <1>6

LEMMA Walk ==
  ASSUME NEW S, NEW Rd, NEW Wr, NEW a \in BOOLEAN, NEW i \in Nat \ {0}, NEW last \in Nat,
         i <= last,
         \A k \in i .. last : k \in S <=> k \in Rd \/ (k \notin Wr /\ Onward(S, a, k, last))
  PROVE  i \in S <=> ExposedFrom(Rd, Wr, i, last) \/ (a /\ Clear(Wr, i, last))
<1> DEFINE Said(m) == m \in S <=> ExposedFrom(Rd, Wr, m, last) \/ (a /\ Clear(Wr, m, last))
           T == {m \in 1 .. last : m \in i .. last /\ ~Said(m)}
<1>1. T = {}
  <2> SUFFICES ASSUME T # {} PROVE FALSE
    OBVIOUS
  <2>1. T \in SUBSET (1 .. last)
    OBVIOUS
  <2>2. PICK m \in T : \A n \in T : n <= m
    <3> HIDE DEF T
    <3> QED
      BY <2>1, Greatest
  <2>3. m \in 1 .. last /\ m \in i .. last /\ ~Said(m)
    BY <2>2
  <2>4. m \in S <=> m \in Rd \/ (m \notin Wr /\ Onward(S, a, m, last))
    BY <2>3
  <2>5. CASE m = last
    <3>1. \A k \in m .. last : k = m
      BY <2>3, <2>5
    <3>2. m \in m .. last /\ \A j \in m .. m - 1 : j \notin Wr
      BY <2>3, <2>5
    <3>3. ExposedFrom(Rd, Wr, m, last) <=> m \in Rd
      BY <3>1, <3>2 DEF ExposedFrom
    <3>4. Clear(Wr, m, last) <=> m \notin Wr
      BY <3>1, <3>2 DEF Clear
    <3>5. Onward(S, a, m, last) <=> a
      BY <2>5 DEF Onward
    <3> QED
      BY <2>3, <2>4, <3>3, <3>4, <3>5
  <2>6. CASE m # last
    <3> DEFINE n == m + 1
    <3>1. n \in 1 .. last /\ n \in i .. last /\ ~(n <= m) /\ m \in Nat /\ m < last /\ n \in Nat
      BY <2>3, <2>6
    <3>2. Said(n)
      <4>1. n \notin T
        BY <2>2, <3>1
      <4> HIDE DEF n
      <4> QED
        BY <3>1, <4>1
    <3>3. Onward(S, a, m, last) <=> n \in S
      BY <2>6 DEF Onward
    <3>4. n = m + 1
      OBVIOUS
    <3> HIDE DEF n, T, Said
    <3>5. /\ ExposedFrom(Rd, Wr, m, last) <=> m \in Rd \/ (m \notin Wr /\ ExposedFrom(Rd, Wr, n, last))
          /\ Clear(Wr, m, last) <=> m \notin Wr /\ Clear(Wr, n, last)
      <4>1. m \in Nat /\ n \in Nat
        BY <3>1
      <4>2. Follows(m, n, last)
        BY <3>1, <3>4 DEF Follows
      <4> QED
        BY <4>1, <4>2, ExposedSteps
    <3> QED
      BY <2>3, <2>4, <3>2, <3>3, <3>5 DEF Said
  <2> QED
    BY <2>5, <2>6
<1>2. i \in 1 .. last /\ i \in i .. last
  OBVIOUS
<1> QED
  BY <1>1, <1>2

-----------------------------------------------------------------------------
(* The graph that belongs to the code.                                     *)

Exposed(p, b) ==
  {v \in Vars : \E i \in LinesOf(p, b) :
     /\ v \in Reads(p.lines[i])
     /\ \A j \in LinesOf(p, b) : j < i => v \notin Writes(p.lines[j])}

Unwritten(p, b, v) == \A i \in LinesOf(p, b) : v \notin Writes(p.lines[i])

Depicts(p, g) ==
  /\ L!IsFlowGraph(g)
  /\ \A i \in Lines(p) : p.lines[i].bb \in L!Blocks(g)
  /\ \A b \in L!Blocks(g) : LinesOf(p, b) # {}
  /\ \A i \in Lines(p) : \A j \in LineSuccessors(p, i) :
       /\ j \in Lines(p)
       /\ LastIn(p, i) => FirstIn(p, j) /\ p.lines[j].bb \in g.succ[p.lines[i].bb]
  /\ \A b \in L!Blocks(g) : \A t \in g.succ[b] :
       \E i \in LinesOf(p, b) : /\ LastIn(p, i)
                                /\ \E j \in LinesOf(p, t) : /\ FirstIn(p, j)
                                                            /\ j \in LineSuccessors(p, i)
  /\ \A b \in L!Blocks(g) : g.ueVar[b] = Exposed(p, b)
  /\ \A b \in L!Blocks(g) : g.notKilled[b] = {v \in p.store : Unwritten(p, b, v)}

(* Inside a block control goes to the next line.                           *)
LEMMA WithinBlock ==
  ASSUME NEW p, WellFormed(p), NEW i \in Lines(p), ~LastIn(p, i)
  PROVE  LineSuccessors(p, i) = {i + 1} /\ i + 1 \in Lines(p)
<1> DEFINE n == i + 1
<1>1. n \in Lines(p) /\ n # 1 /\ n - 1 = i /\ p.lines[n].bb = p.lines[i].bb
  BY LinesAre DEF LastIn
<1>2. /\ p.lines[n].bb \in Nat
      /\ p.lines[n].bb = p.lines[n - 1].bb +
           (IF StartsBlock(p.lines[n]) \/ EndsBlock(p.lines[n - 1]) THEN 1 ELSE 0)
  BY <1>1, LinesAre
<1>3. ~StartsBlock(p.lines[n]) /\ ~EndsBlock(p.lines[i])
  <2>1. p.lines[n - 1] = p.lines[i]
    BY <1>1
  <2>2. /\ p.lines[i].bb \in Nat
        /\ p.lines[i].bb = p.lines[i].bb +
             (IF StartsBlock(p.lines[n]) \/ EndsBlock(p.lines[i]) THEN 1 ELSE 0)
    <3> HIDE DEF n
    <3> QED
      BY <1>1, <1>2, <2>1
  <2> HIDE DEF n
  <2> QED
    BY <2>2
<1> HIDE DEF n
<1>4. {j \in {n} : j \in Lines(p) /\ p.lines[j].op # "ENTRY"} = {n}
  BY <1>1, <1>3 DEF StartsBlock
<1> QED
  BY <1>1, <1>3, <1>4 DEF LineSuccessors, EndsBlock, n

LEMMA Crosses ==
  ASSUME NEW p, WellFormed(p), Visible(p), NEW i \in Lines(p), NEW later
  PROVE  Across(p.lines[i], later) = Reads(p.lines[i]) \cup (later \ Writes(p.lines[i]))
<1> DEFINE l == p.lines[i]
<1>1. /\ l.index = {} /\ Reads(l) \cap Writes(l) = {}
      /\ Operands(l) \subseteq Reads(l) \cup Writes(l)
  BY DEF Visible
<1> HIDE DEF l
<1>2. getVariables(l) \subseteq Operands(l)
  BY DEF getVariables, Operands
<1>3. Reads(l) \subseteq getVariables(l)
  BY <1>1 DEF Reads
<1> QED
  BY <1>1, <1>2, <1>3 DEF Across, l

LEMMA LiveAt ==
  ASSUME NEW p, WellFormed(p), Visible(p), NEW out, NEW v, NEW i \in Lines(p)
  PROVE  /\ i \in LiveLines(p, out, v) <=>
              \/ v \in Reads(p.lines[i])
              \/ v \notin Writes(p.lines[i]) /\ v \in liveSetAfter(p, out, i)
         /\ v \in liveSetAfter(p, out, i) <=>
              IF LastIn(p, i) THEN v \in out[p.lines[i].bb]
              ELSE i + 1 \in LiveLines(p, out, v)
<1>1. liveSetAt(p, out, i) =
        Reads(p.lines[i]) \cup (liveSetAfter(p, out, i) \ Writes(p.lines[i]))
  BY Crosses, LiveSetUnfolds
<1>2. Reads(p.lines[i]) \cap Writes(p.lines[i]) = {}
  BY DEF Visible
<1>3. ~LastIn(p, i) => i + 1 \in Lines(p)
  BY WithinBlock
<1>4. /\ LastIn(p, i) => liveSetAfter(p, out, i) = out[p.lines[i].bb]
      /\ ~LastIn(p, i) => liveSetAfter(p, out, i) = liveSetAt(p, out, i + 1)
  BY LiveSetUnfolds
<1> QED
  BY <1>1, <1>2, <1>3, <1>4 DEF LiveLines

LEMMA NeededAt ==
  ASSUME NEW p, WellFormed(p), NEW v, NEW i \in Lines(p)
  PROVE  /\ i \in NeededFrom(p, v) <=>
              \/ v \in Reads(p.lines[i])
              \/ v \notin Writes(p.lines[i]) /\ i \in NeededAfter(p, v)
         /\ i \in NeededAfter(p, v) <=> LineSuccessors(p, i) \cap NeededFrom(p, v) # {}
         /\ ~LastIn(p, i) => (i \in NeededAfter(p, v) <=> i + 1 \in NeededFrom(p, v))
<1>1. i \in NeededAfter(p, v) <=> LineSuccessors(p, i) \cap NeededFrom(p, v) # {}
  BY DEF NeededAfter
<1>2. i \in NeededFrom(p, v) <=>
        \/ v \in Reads(p.lines[i])
        \/ /\ v \notin Writes(p.lines[i])
           /\ LineSuccessors(p, i) \cap NeededFrom(p, v) # {}
  BY NeededIs
<1>3. ~LastIn(p, i) => LineSuccessors(p, i) = {i + 1}
  BY WithinBlock
<1> QED
  BY <1>1, <1>2, <1>3

(* A set of lines that goes back line by line, seen from the first line of *)
(* a block.                                                                *)
LEMMA BlockSays ==
  ASSUME NEW p, WellFormed(p), NEW g, Depicts(p, g), NEW b \in L!Blocks(g),
         NEW v \in Vars, NEW S, NEW a \in BOOLEAN,
         \A k \in LinesOf(p, b) :
           k \in S <=> \/ v \in Reads(p.lines[k])
                       \/ v \notin Writes(p.lines[k]) /\ Onward(S, a, k, LastLineOf(p, b))
  PROVE  FirstLineOf(p, b) \in S <=> v \in g.ueVar[b] \/ (a /\ Unwritten(p, b, v))
<1> DEFINE first == FirstLineOf(p, b)
           last == LastLineOf(p, b)
           here == LinesOf(p, b)
           Rd == {k \in here : v \in Reads(p.lines[k])}
           Wr == {k \in here : v \in Writes(p.lines[k])}
<1>1. here # {}
  BY DEF Depicts
<1>2. /\ first \in Lines(p) /\ last \in Lines(p) /\ here = first .. last /\ first <= last
  BY <1>1, BlockIs
<1>3. first \in Nat \ {0} /\ last \in Nat
  BY <1>2, LinesAre
<1>4. \A k \in here : k \in S <=> \/ v \in Reads(p.lines[k])
                                  \/ v \notin Writes(p.lines[k]) /\ Onward(S, a, k, last)
  OBVIOUS
<1> HIDE DEF first, last, here
<1>5. \A k \in first .. last : k \in S <=> k \in Rd \/ (k \notin Wr /\ Onward(S, a, k, last))
  BY <1>2, <1>4
<1>6. v \in Exposed(p, b) <=> ExposedFrom(Rd, Wr, first, last)
  <2>1. ASSUME NEW i \in here
        PROVE  (\A j \in here : j < i => v \notin Writes(p.lines[j]))
                 <=> \A j \in first .. i - 1 : j \notin Wr
    <3>1. i \in first .. last
      BY <1>2
    <3>2. \A j \in here : j < i => j \in first .. i - 1
      BY <1>2, <1>3, <3>1
    <3>3. \A j \in first .. i - 1 : j \in here /\ j < i
      BY <1>2, <1>3, <3>1
    <3> QED
      BY <3>2, <3>3
  <2>2. v \in Exposed(p, b) <=>
          \E i \in here : /\ v \in Reads(p.lines[i])
                          /\ \A j \in here : j < i => v \notin Writes(p.lines[j])
    BY DEF Exposed, here
  <2>3. ExposedFrom(Rd, Wr, first, last) <=>
          \E i \in here : i \in Rd /\ \A j \in first .. i - 1 : j \notin Wr
    BY <1>2 DEF ExposedFrom
  <2>4. \A i \in here : i \in Rd <=> v \in Reads(p.lines[i])
    OBVIOUS
  <2> HIDE DEF Rd, Wr
  <2> QED
    BY <2>1, <2>2, <2>3, <2>4
<1>7. Unwritten(p, b, v) <=> Clear(Wr, first, last)
  BY <1>2 DEF Unwritten, Clear, here
<1> HIDE DEF Rd, Wr
<1>8. first \in S <=> ExposedFrom(Rd, Wr, first, last) \/ (a /\ Clear(Wr, first, last))
  BY <1>2, <1>3, <1>5, Walk
<1>9. g.ueVar[b] = Exposed(p, b)
  BY DEF Depicts
<1> QED
  BY <1>6, <1>7, <1>8, <1>9 DEF first

-----------------------------------------------------------------------------
(* The sets that the executions define solve the equations.                *)

LEMMA UnstoredUnneeded ==
  ASSUME NEW p, WellFormed(p), Visible(p), NEW v, v \notin p.store
  PROVE  NeededFrom(p, v) = {}
<1>1. \A i \in Lines(p) : v \notin Reads(p.lines[i])
  BY DEF Visible
<1>2. Readers(p, v) \subseteq {} /\ Nearer(p, v, {}) \subseteq {}
  BY <1>1 DEF Readers, Nearer
<1> QED
  BY <1>2, NeededLeast

(* The first line of a block is the only one that looks like it.           *)
LEMMA FirstIs ==
  ASSUME NEW p, WellFormed(p), NEW b, NEW i \in LinesOf(p, b)
  PROVE  /\ i \in Lines(p) /\ p.lines[i].bb = b
         /\ FirstIn(p, i) <=> i = FirstLineOf(p, b)
         /\ LastIn(p, i) <=> i = LastLineOf(p, b)
         /\ FirstLineOf(p, b) \in LinesOf(p, b) /\ LastLineOf(p, b) \in LinesOf(p, b)
<1> DEFINE first == FirstLineOf(p, b)
           last == LastLineOf(p, b)
<1>1. /\ first \in Lines(p) /\ last \in Lines(p) /\ first <= last
      /\ LinesOf(p, b) = first .. last
      /\ FirstIn(p, i) <=> i = first
      /\ LastIn(p, i) <=> i = last
  BY BlockIs
<1>2. first \in Nat /\ last \in Nat
  BY <1>1, LinesAre
<1> HIDE DEF first, last
<1>3. first \in LinesOf(p, b) /\ last \in LinesOf(p, b)
  BY <1>1, <1>2
<1> QED
  BY <1>1, <1>3 DEF LinesOf, first, last

NeededSets(p, g) ==
  [in |-> [b \in L!Blocks(g) |-> {v \in Vars : FirstLineOf(p, b) \in NeededFrom(p, v)}],
   out |-> [b \in L!Blocks(g) |-> {v \in Vars : LastLineOf(p, b) \in NeededAfter(p, v)}]]

LEMMA NeededSolves ==
  ASSUME NEW p, WellFormed(p), Visible(p), NEW g, Depicts(p, g)
  PROVE  /\ NeededSets(p, g) \in L!Assignments(g)
         /\ L!IsSolution(g, NeededSets(p, g))
<1> DEFINE s == NeededSets(p, g)
<1>1. s \in L!Assignments(g)
  BY DEF NeededSets, L!Assignments
<1>2. ASSUME NEW b \in L!Blocks(g)
      PROVE  /\ s.in[b] = {v \in Vars : FirstLineOf(p, b) \in NeededFrom(p, v)}
             /\ s.out[b] = {v \in Vars : LastLineOf(p, b) \in NeededAfter(p, v)}
  BY DEF NeededSets
<1> HIDE DEF s
<1>3. ASSUME NEW b \in L!Blocks(g) PROVE L!InHolds(g, s, b)
  <2>1. ASSUME NEW v \in Vars
        PROVE  v \in s.in[b] <=> v \in L!LiveInOf(g, s.out, b)
    <3> DEFINE a == LastLineOf(p, b) \in NeededAfter(p, v)
               N == NeededFrom(p, v)
    <3>1. ASSUME NEW k \in LinesOf(p, b)
          PROVE  k \in N <=> \/ v \in Reads(p.lines[k])
                             \/ v \notin Writes(p.lines[k]) /\ Onward(N, a, k, LastLineOf(p, b))
      <4>1. k \in Lines(p) /\ (LastIn(p, k) <=> k = LastLineOf(p, b))
        BY FirstIs
      <4>2. k \in NeededAfter(p, v) <=> Onward(N, a, k, LastLineOf(p, b))
        BY <4>1, NeededAt DEF Onward
      <4> QED
        BY <4>1, <4>2, NeededAt
    <3>2. a \in BOOLEAN
      OBVIOUS
    <3> HIDE DEF a, N
    <3>3. FirstLineOf(p, b) \in N <=> v \in g.ueVar[b] \/ (a /\ Unwritten(p, b, v))
      BY <3>1, <3>2, BlockSays
    <3>4. g.notKilled[b] = {w \in p.store : Unwritten(p, b, w)}
      BY DEF Depicts
    <3>5. v \in p.store \/ N = {}
      BY UnstoredUnneeded DEF N
    <3>6. v \in s.in[b] <=> FirstLineOf(p, b) \in N
      BY <1>2 DEF N
    <3>7. v \in s.out[b] <=> a
      BY <1>2 DEF a
    <3>8. v \notin p.store => ~a
      BY <3>5 DEF a, N, NeededAfter
    <3> QED
      BY <3>3, <3>4, <3>6, <3>7, <3>8 DEF L!LiveInOf
  <2>2. s.in[b] \subseteq Vars
    BY <1>2
  <2>3. L!LiveInOf(g, s.out, b) \subseteq Vars
    <3>1. g.ueVar[b] \subseteq Vars /\ s.out[b] \subseteq Vars
      BY <1>2 DEF Depicts, L!IsFlowGraph
    <3> QED
      BY <3>1 DEF L!LiveInOf
  <2> QED
    BY <2>1, <2>2, <2>3 DEF L!InHolds
<1>4. ASSUME NEW b \in L!Blocks(g) PROVE L!OutHolds(g, s, b)
  <2>1. PICK i \in LinesOf(p, b) : i = LastLineOf(p, b) /\ LastIn(p, i) /\ i \in Lines(p)
                                   /\ p.lines[i].bb = b
    <3>1. LinesOf(p, b) # {}
      BY DEF Depicts
    <3>2. LastLineOf(p, b) \in LinesOf(p, b)
      BY <3>1, FirstIs
    <3> QED
      BY <3>2, FirstIs
  <2>2. g.succ[b] \subseteq L!Blocks(g)
    BY DEF Depicts, L!IsFlowGraph
  <2>3. ASSUME NEW v \in s.out[b] PROVE v \in L!LiveOutOf(g, s.in, b)
    <3>1. v \in Vars /\ i \in NeededAfter(p, v)
      BY <1>2, <2>1
    <3>2. PICK j \in LineSuccessors(p, i) : j \in NeededFrom(p, v)
      BY <2>1, <3>1, NeededAt
    <3> DEFINE t == p.lines[j].bb
    <3>3. j \in Lines(p) /\ FirstIn(p, j) /\ t \in g.succ[b]
      BY <2>1, <3>2 DEF Depicts
    <3>4. j = FirstLineOf(p, t)
      <4>1. j \in LinesOf(p, t)
        BY <3>3 DEF LinesOf
      <4> QED
        BY <3>3, <4>1, FirstIs
    <3> HIDE DEF t
    <3>5. v \in s.in[t]
      BY <1>2, <2>2, <3>1, <3>2, <3>3, <3>4
    <3> QED
      BY <3>3, <3>5 DEF L!LiveOutOf, L!getSuccessor
  <2>4. ASSUME NEW v \in L!LiveOutOf(g, s.in, b) PROVE v \in s.out[b]
    <3>1. PICK t \in g.succ[b] : v \in s.in[t]
      BY DEF L!LiveOutOf, L!getSuccessor
    <3>2. v \in Vars /\ FirstLineOf(p, t) \in NeededFrom(p, v)
      BY <1>2, <2>2, <3>1
    <3>3. PICK k \in LinesOf(p, b), j \in LinesOf(p, t) :
            LastIn(p, k) /\ FirstIn(p, j) /\ j \in LineSuccessors(p, k)
      BY DEF Depicts
    <3>4. k = i /\ j = FirstLineOf(p, t)
      BY <2>1, <3>3, FirstIs
    <3>5. i \in NeededAfter(p, v)
      BY <2>1, <3>2, <3>3, <3>4, NeededAt
    <3> QED
      BY <1>2, <2>1, <3>2, <3>5
  <2> QED
    BY <2>3, <2>4 DEF L!OutHolds
<1> QED
  BY <1>1, <1>3, <1>4 DEF L!IsSolution, s

-----------------------------------------------------------------------------
(* The queries on a least solution answer what the executions define.      *)

LEMMA StoredOnly ==
  ASSUME NEW p, WellFormed(p), Visible(p), NEW g, Depicts(p, g),
         NEW s, L!IsSolution(g, s), NEW b \in L!Blocks(g)
  PROVE  s.in[b] \subseteq p.store /\ s.out[b] \subseteq p.store
<1>1. ASSUME NEW c \in L!Blocks(g) PROVE s.in[c] \subseteq p.store
  <2>1. s.in[c] = g.ueVar[c] \cup (s.out[c] \cap g.notKilled[c])
    BY DEF L!IsSolution, L!InHolds, L!LiveInOf
  <2>2. g.ueVar[c] \subseteq p.store
    <3>1. \A i \in LinesOf(p, c) : Reads(p.lines[i]) \subseteq p.store
      BY DEF Visible, LinesOf
    <3> QED
      BY <3>1 DEF Depicts, Exposed
  <2>3. g.notKilled[c] \subseteq p.store
    BY DEF Depicts
  <2> QED
    BY <2>1, <2>2, <2>3
<1>2. s.out[b] = UNION {s.in[t] : t \in g.succ[b]}
  BY DEF L!IsSolution, L!OutHolds, L!LiveOutOf, L!getSuccessor
<1>3. g.succ[b] \subseteq L!Blocks(g)
  BY DEF Depicts, L!IsFlowGraph
<1> QED
  BY <1>1, <1>2, <1>3

LEMMA LiveAtFirst ==
  ASSUME NEW p, WellFormed(p), Visible(p), NEW g, Depicts(p, g),
         NEW s, L!IsSolution(g, s), NEW b \in L!Blocks(g), NEW v \in Vars
  PROVE  FirstLineOf(p, b) \in LiveLines(p, s.out, v) <=> v \in s.in[b]
<1> DEFINE a == v \in s.out[b]
           X == LiveLines(p, s.out, v)
<1>1. ASSUME NEW k \in LinesOf(p, b)
      PROVE  k \in X <=> \/ v \in Reads(p.lines[k])
                         \/ v \notin Writes(p.lines[k]) /\ Onward(X, a, k, LastLineOf(p, b))
  <2>1. k \in Lines(p) /\ (LastIn(p, k) <=> k = LastLineOf(p, b)) /\ p.lines[k].bb = b
    BY FirstIs
  <2>2. v \in liveSetAfter(p, s.out, k) <=> Onward(X, a, k, LastLineOf(p, b))
    BY <2>1, LiveAt DEF Onward
  <2> QED
    BY <2>1, <2>2, LiveAt
<1>2. a \in BOOLEAN
  OBVIOUS
<1> HIDE DEF a, X
<1>3. FirstLineOf(p, b) \in X <=> v \in g.ueVar[b] \/ (a /\ Unwritten(p, b, v))
  BY <1>1, <1>2, BlockSays
<1>4. s.in[b] = g.ueVar[b] \cup (s.out[b] \cap g.notKilled[b])
  BY DEF L!IsSolution, L!InHolds, L!LiveInOf
<1>5. g.notKilled[b] = {w \in p.store : Unwritten(p, b, w)}
  BY DEF Depicts
<1>6. a => v \in p.store
  BY StoredOnly DEF a
<1> QED
  BY <1>3, <1>4, <1>5, <1>6 DEF a, X

(* From line to line along the control flow.                               *)
LEMMA LiveComesBack ==
  ASSUME NEW p, WellFormed(p), Visible(p), NEW g, Depicts(p, g),
         NEW s, L!IsSolution(g, s), NEW v \in Vars,
         NEW i \in Lines(p), NEW j \in LineSuccessors(p, i), j \in LiveLines(p, s.out, v)
  PROVE  v \in liveSetAfter(p, s.out, i)
<1>1. CASE ~LastIn(p, i)
  <2>1. j = i + 1
    BY <1>1, WithinBlock
  <2> QED
    BY <1>1, <2>1, LiveAt
<1>2. CASE LastIn(p, i)
  <2> DEFINE b == p.lines[i].bb
             t == p.lines[j].bb
  <2>1. j \in Lines(p) /\ FirstIn(p, j) /\ t \in g.succ[b] /\ b \in L!Blocks(g)
    BY <1>2 DEF Depicts
  <2>2. j = FirstLineOf(p, t)
    <3>1. j \in LinesOf(p, t)
      BY <2>1 DEF LinesOf
    <3> QED
      BY <2>1, <3>1, FirstIs
  <2>3. v \in liveSetAfter(p, s.out, i) <=> v \in s.out[b]
    BY <1>2, LiveAt
  <2> HIDE DEF b, t
  <2>4. t \in L!Blocks(g)
    BY <2>1 DEF Depicts, L!IsFlowGraph
  <2>5. v \in s.in[t]
    BY <2>2, <2>4, LiveAtFirst
  <2>6. s.out[b] = UNION {s.in[c] : c \in g.succ[b]}
    BY <2>1 DEF L!IsSolution, L!OutHolds, L!LiveOutOf, L!getSuccessor
  <2> QED
    BY <2>1, <2>3, <2>5, <2>6
<1> QED
  BY <1>1, <1>2

LEMMA NeededIsLive ==
  ASSUME NEW p, WellFormed(p), Visible(p), NEW g, Depicts(p, g),
         NEW s, L!IsSolution(g, s), NEW v \in Vars
  PROVE  /\ NeededFrom(p, v) \subseteq LiveLines(p, s.out, v)
         /\ \A i \in NeededAfter(p, v) : v \in liveSetAfter(p, s.out, i)
<1> DEFINE X == LiveLines(p, s.out, v)
<1>1. Readers(p, v) \subseteq X
  BY LiveAt DEF Readers
<1>2. Nearer(p, v, X) \subseteq X
  <2> SUFFICES ASSUME NEW i \in Lines(p), v \notin Writes(p.lines[i]),
                      NEW j \in LineSuccessors(p, i), j \in X
               PROVE  i \in X
    BY DEF Nearer
  <2>1. v \in liveSetAfter(p, s.out, i)
    BY LiveComesBack
  <2> QED
    BY <2>1, LiveAt
<1> HIDE DEF X
<1>3. NeededFrom(p, v) \subseteq X
  BY <1>1, <1>2, NeededLeast
<1>4. ASSUME NEW i \in NeededAfter(p, v) PROVE v \in liveSetAfter(p, s.out, i)
  <2>1. i \in Lines(p) /\ LineSuccessors(p, i) \cap NeededFrom(p, v) # {}
    BY DEF NeededAfter
  <2>2. PICK j \in LineSuccessors(p, i) : j \in X
    BY <1>3, <2>1
  <2> QED
    BY <2>1, <2>2, LiveComesBack DEF X
<1> QED
  BY <1>3, <1>4 DEF X

LEMMA LiveIsNeeded ==
  ASSUME NEW p, WellFormed(p), Visible(p), NEW g, Depicts(p, g), NEW out,
         \A b \in L!Blocks(g) : out[b] \subseteq NeededSets(p, g).out[b],
         NEW v \in Vars
  PROVE  /\ LiveLines(p, out, v) \subseteq NeededFrom(p, v)
         /\ \A i \in Lines(p) : v \in liveSetAfter(p, out, i) => i \in NeededAfter(p, v)
<1> DEFINE X == LiveLines(p, out, v)
           N == NeededFrom(p, v)
           T == {i \in Lines(p) : i \in X /\ i \notin N}
<1>1. ASSUME NEW i \in Lines(p), v \in liveSetAfter(p, out, i),
             ~LastIn(p, i) => i + 1 \notin T
      PROVE  i \in NeededAfter(p, v)
  <2>1. CASE LastIn(p, i)
    <3> DEFINE b == p.lines[i].bb
    <3>1. b \in L!Blocks(g) /\ i \in LinesOf(p, b)
      BY DEF Depicts, LinesOf
    <3>2. v \in out[b]
      BY <1>1, <2>1, LiveAt
    <3> HIDE DEF b
    <3>3. i = LastLineOf(p, b)
      BY <2>1, <3>1, FirstIs
    <3>4. LastLineOf(p, b) \in NeededAfter(p, v)
      BY <3>1, <3>2 DEF NeededSets
    <3> QED
      BY <3>3, <3>4
  <2>2. CASE ~LastIn(p, i)
    <3>1. i + 1 \in X /\ i + 1 \in Lines(p)
      BY <1>1, <2>2, LiveAt, WithinBlock
    <3>2. i + 1 \in N
      BY <1>1, <2>2, <3>1
    <3> QED
      BY <2>2, <3>2, NeededAt
  <2> QED
    BY <2>1, <2>2
<1>2. T = {}
  <2> SUFFICES ASSUME T # {} PROVE FALSE
    OBVIOUS
  <2>1. Len(p.lines) \in Nat /\ T \in SUBSET (1 .. Len(p.lines))
    BY LinesAre
  <2>2. PICK i \in T : \A j \in T : j <= i
    <3> HIDE DEF T
    <3> QED
      BY <2>1, Greatest
  <2>3. i \in Lines(p) /\ i \in X /\ i \notin N /\ i + 1 \notin T
    <3>1. i \in Nat /\ ~(i + 1 <= i)
      BY <2>1
    <3>2. i + 1 \notin T
      BY <2>2, <3>1
    <3> QED
      BY <3>2
  <2> HIDE DEF X, N, T
  <2>4. v \in liveSetAfter(p, out, i)
    BY <2>3, LiveAt, NeededAt DEF X, N
  <2>5. i \in NeededAfter(p, v)
    BY <1>1, <2>3, <2>4
  <2>6. v \notin Writes(p.lines[i])
    BY <2>3, LiveAt, NeededAt DEF X, N
  <2> QED
    BY <2>3, <2>5, <2>6, NeededAt DEF N
<1>3. X \subseteq N
  BY <1>2 DEF LiveLines
<1> QED
  BY <1>1, <1>2, <1>3

-----------------------------------------------------------------------------
(* The three parts speak of the same code.                                 *)

LEMMA SameCode ==
  /\ \A p : BP!Lines(p) = Lines(p) /\ RP!Lines(p) = Lines(p)
  /\ \A p, b : BP!LinesOf(p, b) = LinesOf(p, b)
  /\ \A l : BP!Reads(l) = Reads(l) /\ BP!Writes(l) = Writes(l)
            /\ BP!Operands(l) = Operands(l)
  /\ \A p, i : BP!LineSuccessors(p, i) = LineSuccessors(p, i)
  /\ \A p, i : RP!FunctionAt(p, i) = FunctionAt(p, i)
  /\ \A p, out, i : RP!liveSetAt(p, out, i) = liveSetAt(p, out, i)
<1>1. \A p : BP!Lines(p) = Lines(p) /\ RP!Lines(p) = Lines(p)
  BY DEF Lines, BP!Lines, RP!Lines
<1>2. \A p, b : BP!LinesOf(p, b) = LinesOf(p, b) /\ RP!LinesOf(p, b) = LinesOf(p, b)
  BY DEF LinesOf, BP!LinesOf, Lines, BP!Lines, RP!LinesOf, RP!Lines
<1>3. \A l : BP!Reads(l) = Reads(l) /\ BP!Writes(l) = Writes(l)
             /\ BP!Operands(l) = Operands(l)
  BY DEF Reads, Writes, Operands, getVariables,
         BP!Reads, BP!Writes, BP!Operands, BP!getVariables
<1>4. \A p, i : BP!LineSuccessors(p, i) = LineSuccessors(p, i)
  BY DEF LineSuccessors, BP!LineSuccessors, Position, BP!Position, IsDeclarationOf,
         BP!IsDeclarationOf, Lines, BP!Lines
<1>5. \A p, i : RP!FunctionAt(p, i) = FunctionAt(p, i)
  BY DEF FunctionAt, RP!FunctionAt
<1>6. \A p, out, i : RP!liveSetAt(p, out, i) = liveSetAt(p, out, i)
  BY DEF liveSetAt, RP!liveSetAt, LastLineOf, RP!LastLineOf, LinesOf, RP!LinesOf,
         Lines, RP!Lines, Across, RP!Across, getVariables, RP!getVariables,
         Writes, RP!Writes
<1> QED
  BY <1>1, <1>2, <1>3, <1>4, <1>5, <1>6

LEMMA SameShape ==
  ASSUME NEW p
  PROVE  /\ BP!WellFormed(p) <=> WellFormed(p)
         /\ RP!WellFormed(p) <=> WellFormed(p)
<1>1. BP!WellFormed(p) <=> WellFormed(p)
  BY DEF WellFormed, BP!WellFormed, Line, BP!Line, StartsBlock, BP!StartsBlock, EndsBlock,
         BP!EndsBlock, Lines, BP!Lines, IsJump, BP!IsJump, IsDeclarationOf,
         BP!IsDeclarationOf, Ops, BP!Ops, FunctionAt, BP!FunctionAt
<1>2. RP!WellFormed(p) <=> WellFormed(p)
  BY DEF WellFormed, RP!WellFormed, Line, RP!Line, StartsBlock, RP!StartsBlock, EndsBlock,
         RP!EndsBlock, Lines, RP!Lines, IsJump, RP!IsJump, IsDeclarationOf,
         RP!IsDeclarationOf, Ops, RP!Ops, FunctionAt, RP!FunctionAt
<1> QED
  BY <1>1, <1>2

LEMMA BuildSteps == [Next]_vars => [BP!Next]_(BP!vars)
<1> SUFFICES ASSUME [Next]_vars PROVE [BP!Next]_(BP!vars)
  OBVIOUS
<1>1. CASE build
  <2>1. B!Next
    BY <1>1 DEF build
  <2>2. B!Next <=> BP!Next
    BY DEF B!Next, BP!Next, B!pushLine, BP!pushLine, B!addVertices, BP!addVertices,
           B!connect, BP!connect, B!line, BP!line, B!AtEnd, BP!AtEnd,
           B!Belongs, BP!Belongs, B!WithLine, BP!WithLine, B!NewBlock, BP!NewBlock,
           B!JumpTargets, BP!JumpTargets, B!FallsInto, BP!FallsInto, B!IsJump, BP!IsJump,
           B!Writes, BP!Writes, B!Operands, BP!Operands, B!Position, BP!Position,
           B!IsDeclarationOf, BP!IsDeclarationOf, B!Lines, BP!Lines
  <2> QED
    BY <2>1, <2>2
<1>2. CASE startLiveness \/ callWorkList \/ live \/ startAllocation
  BY <1>2 DEF startLiveness, callWorkList, live, startAllocation, buildVars, BP!vars
<1>3. CASE allocate
  <2>1. code' = code
    BY <1>3 DEF allocate, R!Next, R!skipLine, R!joinTarget, R!colorVertex, R!storeColors,
                R!inputs
  <2> QED
    BY <1>3, <2>1 DEF allocate, buildVars, BP!vars
<1>4. CASE UNCHANGED vars
  BY <1>4 DEF vars, buildVars, BP!vars
<1> QED
  BY <1>1, <1>2, <1>3, <1>4 DEF Next

LEMMA BuildInit == Init => BP!Init
BY DEF Init, B!Init, BP!Init, B!NewBlock, BP!NewBlock

(* What the construction of the graph contributes.                         *)
Built ==
  BP!Inv /\ BP!DescriptorsMatch /\ BP!EdgesSound /\ BP!EdgesComplete /\ BP!ExposedExact

LEMMA AlwaysBuilt == Spec => []Built
<1>1. Spec => BP!Spec
  BY BuildInit, BuildSteps, PTL DEF Spec, BP!Spec
<1>2. \A p \in Programs : BP!WellFormed(p)
  BY CompiledAssumption, SameShape
<1>3. BP!Spec => [](BP!Inv)
  BY <1>2, NoVarAssumption, BP!InvariantHolds
<1>4. BP!Spec => [](BP!DescriptorsMatch)
  BY <1>2, NoVarAssumption, BP!DescriptorsCorrect
<1>5. BP!Spec => [](BP!EdgesSound)
  BY <1>2, NoVarAssumption, BP!SoundEdges
<1>6. BP!Spec => [](BP!EdgesComplete)
  BY <1>2, NoVarAssumption, BP!CompleteEdges
<1>7. BP!Spec => [](BP!ExposedExact)
  BY <1>2, NoVarAssumption, BP!ExposedCorrect
<1> QED
  BY <1>1, <1>3, <1>4, <1>5, <1>6, <1>7, PTL DEF Built

GraphReady == LP!IsFlowGraph(graph) /\ LP!Constructed

LEMMA LivenessReady == GraphReady => LP!IInv
BY LP!ConstructedIInv DEF GraphReady

LEMMA LivenessReadyNow == GraphReady' => LP!IInv'
BY LivenessReady, PTL

LEMMA AllocationReady == RP!Started => RP!IInv /\ RP!Joined
<1>1. RP!Started => RP!IInv
  BY RegistersAssumption, NoVarAssumption, RP!StartedHolds
<1>2. RP!Started => RP!Joined
  BY RegistersAssumption, NoVarAssumption, RP!StartedJoined
<1> QED
  BY <1>1, <1>2

LEMMA AllocationReadyNow == RP!Started' => RP!IInv' /\ RP!Joined'
BY AllocationReady, PTL

-----------------------------------------------------------------------------
(* The parts run one after the other, each on what the one before left.    *)

NotStarted ==
  /\ pc = "no Cfg" => /\ cursor = 0 /\ changed = FALSE /\ worklist = {}
                      /\ task = "no live sets"
  /\ task = "no live sets" => loc = 1

Analysing == pc # "no Cfg" => stage = "built" /\ graph = B!flowGraph /\ LP!IInv

Allocating == task # "no live sets" => pc = "returned" /\ RP!IInv /\ RP!Joined

InOrder == NotStarted /\ Analysing /\ Allocating

LEMMA LivenessSteps == [L!Next]_(L!vars) => [LP!Next]_(LP!vars)
BY DEF L!Next, LP!Next, L!vars, LP!vars, L!callLiveInOut, LP!callLiveInOut,
       L!callWorkList, LP!callWorkList, L!Step, LP!Step, L!roundLiveIn, LP!roundLiveIn,
       L!roundLiveOut, LP!roundLiveOut, L!workOn, LP!workOn, L!endWorkList, LP!endWorkList,
       L!updateLiveIn, LP!updateLiveIn, L!updateLiveOut, LP!updateLiveOut, L!IsLast, LP!IsLast,
       L!changedSoFar, LP!changedSoFar, L!First, LP!First, L!addedAfter, LP!addedAfter,
       L!LiveInOf, LP!LiveInOf, L!LiveOutOf, LP!LiveOutOf, L!getSuccessor, LP!getSuccessor,
       L!getPredecessor, LP!getPredecessor, L!Blocks, LP!Blocks, L!Idle, LP!Idle

LEMMA AllocationSteps == [R!Next]_(R!vars) => [RP!Next]_(RP!vars)
<1>1. R!skipLine <=> RP!skipLine
  BY DEF R!skipLine, RP!skipLine, R!inputs, RP!inputs, R!HasVertex, RP!HasVertex,
         R!containsTargetVar, RP!containsTargetVar, R!nextTask, RP!nextTask,
         R!nextLoc, RP!nextLoc
<1>2. R!joinTarget <=> RP!joinTarget
  BY DEF R!joinTarget, RP!joinTarget, R!inputs, RP!inputs, R!HasVertex, RP!HasVertex,
         R!containsTargetVar, RP!containsTargetVar, R!nextTask, RP!nextTask,
         R!nextLoc, RP!nextLoc, R!FunctionAt, RP!FunctionAt,
         R!LiveWith, RP!LiveWith, R!liveSetAt, RP!liveSetAt, R!LastLineOf, RP!LastLineOf,
         R!LinesOf, RP!LinesOf, R!Lines, RP!Lines, R!Across, RP!Across,
         R!getVariables, RP!getVariables, R!Writes, RP!Writes, R!Known, RP!Known
<1>3. R!Functions = RP!Functions
  BY DEF R!Functions, RP!Functions, R!Lines, RP!Lines
<1>4. \A f, v : R!Uncolored(f) = RP!Uncolored(f) /\ R!Neighbours(f, v) = RP!Neighbours(f, v)
  BY DEF R!Uncolored, RP!Uncolored, R!Neighbours, RP!Neighbours
<1>5. /\ \A S : R!Cardinality(S) = RP!Cardinality(S)
      /\ \A f, v : R!outDegree(f, v) = RP!outDegree(f, v)
  <2>1. \A S : R!Cardinality(S) = RP!Cardinality(S)
    BY DEF R!Cardinality, RP!Cardinality, R!IsFiniteSet, RP!IsFiniteSet
  <2>2. \A f, v : R!outDegree(f, v) = RP!outDegree(f, v)
    BY <1>4, <2>1 DEF R!outDegree, RP!outDegree
  <2> QED
    BY <2>1, <2>2
<1>6. \A f, v : R!ComesNext(f, v) <=> RP!ComesNext(f, v)
  BY <1>4, <1>5 DEF R!ComesNext, RP!ComesNext
<1>7. \A f, v : R!UsedAround(f, v) = RP!UsedAround(f, v)
  BY <1>4 DEF R!UsedAround, RP!UsedAround
<1>8. \A c, used : R!IsSmallestFree(c, used) <=> RP!IsSmallestFree(c, used)
  BY DEF R!IsSmallestFree, RP!IsSmallestFree
<1>9. \A f, v : R!colorVertex(f, v) <=> RP!colorVertex(f, v)
  BY <1>5, <1>6, <1>7, <1>8 DEF R!colorVertex, RP!colorVertex, R!inputs, RP!inputs
<1>10. R!storeColors <=> RP!storeColors
  BY <1>3, <1>4 DEF R!storeColors, RP!storeColors, R!inputs, RP!inputs, R!Capped, RP!Capped
<1>11. R!Next <=> RP!Next
  BY <1>1, <1>2, <1>3, <1>9, <1>10 DEF R!Next, RP!Next
<1> QED
  BY <1>11 DEF R!vars, RP!vars

LEMMA LivenessGoesOn == LP!IInv /\ [L!Next]_(L!vars) => LP!IInv'
<1>1. LP!IInv /\ [LP!Next]_(LP!vars) => LP!IInv'
  BY LP!NextIInv
<1> QED
  BY <1>1, LivenessSteps

LEMMA AllocationGoesOn ==
  RP!IInv /\ RP!Joined /\ [R!Next]_(R!vars) => RP!IInv' /\ RP!Joined'
<1>1. RP!IInv /\ [RP!Next]_(RP!vars) => RP!IInv'
  BY RegistersAssumption, NoVarAssumption, RP!StepPreserves
<1>2. RP!IInv /\ RP!Joined /\ [RP!Next]_(RP!vars) => RP!Joined'
  BY RegistersAssumption, NoVarAssumption, RP!JoinedStep
<1> QED
  BY <1>1, <1>2, AllocationSteps

LEMMA InitInOrder == Init => InOrder
BY DEF Init, InOrder, NotStarted, Analysing, Allocating

LEMMA BuildKeeps == Built /\ InOrder /\ build => InOrder'
<1> SUFFICES ASSUME InOrder, build PROVE InOrder'
  OBVIOUS
<1>1. stage # "built"
  BY DEF build, B!Next, B!pushLine, B!addVertices, B!connect
<1>2. pc = "no Cfg" /\ task = "no live sets"
  BY <1>1 DEF InOrder, NotStarted, Analysing
<1> QED
  BY <1>2 DEF build, liveVars, allocVars, InOrder, NotStarted, Analysing, Allocating

LEMMA SameGraph ==
  ASSUME code' = code, UNCHANGED buildVars
  PROVE  B!flowGraph' = B!flowGraph
BY DEF B!flowGraph, buildVars

LEMMA StartLivenessKeeps == Built /\ InOrder /\ startLiveness => InOrder'
<1> SUFFICES ASSUME Built, InOrder, startLiveness PROVE InOrder'
  OBVIOUS
<1>1. B!flowGraph' = B!flowGraph
  BY SameGraph DEF startLiveness
<1>2. BP!flowGraph = B!flowGraph
  BY DEF B!flowGraph, BP!flowGraph
<1>3. LP!IsFlowGraph(B!flowGraph)
  <2>1. BP!IsFlowGraph(BP!flowGraph)
    BY DEF startLiveness, Built, BP!DescriptorsMatch
  <2> QED
    BY <1>2, <2>1 DEF BP!IsFlowGraph, LP!IsFlowGraph, BP!Blocks, LP!Blocks
<1>4. GraphReady'
  BY <1>3 DEF startLiveness, GraphReady, LP!Constructed, InOrder, NotStarted, L!Blocks,
              LP!Blocks
<1>5. LP!IInv'
  BY <1>4, LivenessReadyNow
<1>6. Analysing'
  BY <1>1, <1>5 DEF startLiveness, Analysing, buildVars
<1>7. NotStarted' /\ Allocating'
  BY DEF startLiveness, InOrder, NotStarted, Allocating, allocVars
<1> QED
  BY <1>6, <1>7 DEF InOrder

LEMMA LivenessKeeps == InOrder /\ (callWorkList \/ live) => InOrder'
<1> SUFFICES ASSUME InOrder, callWorkList \/ live PROVE InOrder'
  OBVIOUS
<1>1. /\ pc \in {"constructed"} \cup L!Running
      /\ [L!Next]_(L!vars)
      /\ UNCHANGED <<code, buildVars, allocVars>>
  BY DEF callWorkList, live, L!Next
<1>2. /\ pc # "no Cfg" /\ pc # "returned" /\ LP!IInv /\ graph = B!flowGraph
      /\ stage = "built" /\ task = "no live sets" /\ loc = 1
  BY <1>1 DEF InOrder, NotStarted, Analysing, Allocating, L!Running
<1>3. LP!IInv'
  BY <1>1, <1>2, LivenessGoesOn
<1>4. pc' # "no Cfg"
  BY <1>3 DEF LP!IInv, LP!TypeOK, LP!Idle, LP!Running
<1>5. B!flowGraph' = B!flowGraph /\ graph' = graph
  <2>1. B!flowGraph' = B!flowGraph
    BY <1>1, SameGraph
  <2>2. graph' = graph
    BY DEF callWorkList, live, L!callWorkList, L!Step, L!roundLiveIn, L!roundLiveOut,
           L!workOn, L!endWorkList
  <2> QED
    BY <2>1, <2>2
<1>6. stage' = "built" /\ task' = "no live sets" /\ loc' = 1
  BY <1>1, <1>2 DEF buildVars, allocVars
<1> QED
  BY <1>2, <1>3, <1>4, <1>5, <1>6 DEF InOrder, NotStarted, Analysing, Allocating

LEMMA StartAllocationKeeps == Built /\ InOrder /\ startAllocation => InOrder'
<1> SUFFICES ASSUME Built, InOrder, startAllocation PROVE InOrder'
  OBVIOUS
<1>1. pc = "returned" /\ pc' = "returned" /\ LP!IInv /\ graph = B!flowGraph /\ loc = 1
      /\ stage = "built" /\ UNCHANGED <<code, buildVars, liveVars, loc>>
  BY DEF startAllocation, InOrder, NotStarted, Analysing, liveVars
<1>2. LP!IInv'
  <2>1. UNCHANGED L!vars
    BY <1>1 DEF liveVars, L!vars
  <2> QED
    BY <1>1, <2>1, LivenessGoesOn
<1>3. RP!Started'
  <2>1. RP!WellFormed(code')
    <3>1. code \in Programs
      BY DEF Built, BP!Inv, BP!TypeOK
    <3> QED
      BY <1>1, <3>1, CompiledAssumption, SameShape
  <2>2. R!Functions' = RP!Functions' /\ R!Functions' = R!Functions
    BY <1>1 DEF R!Functions, RP!Functions, R!Lines, RP!Lines
  <2> QED
    BY <1>1, <2>1, <2>2 DEF startAllocation, RP!Started
<1>4. RP!IInv' /\ RP!Joined'
  BY <1>3, AllocationReadyNow
<1>5. B!flowGraph' = B!flowGraph
  BY <1>1, SameGraph
<1>6. task' # "no live sets" /\ graph' = graph /\ stage' = stage
  BY <1>1 DEF startAllocation, liveVars, buildVars
<1> QED
  BY <1>1, <1>2, <1>4, <1>5, <1>6 DEF InOrder, NotStarted, Analysing, Allocating

LEMMA AllocateKeeps == InOrder /\ allocate => InOrder'
<1> SUFFICES ASSUME InOrder, allocate PROVE InOrder'
  OBVIOUS
<1>1. task # "no live sets" /\ R!Next
      /\ UNCHANGED <<buildVars, graph, liveIn, pc, cursor, changed, worklist>>
  BY DEF allocate
<1>2. code' = code /\ liveOut' = liveOut
  BY <1>1 DEF R!Next, R!skipLine, R!joinTarget, R!colorVertex, R!storeColors, R!inputs
<1>3. pc = "returned" /\ RP!IInv /\ RP!Joined /\ LP!IInv /\ graph = B!flowGraph
      /\ stage = "built"
  BY <1>1 DEF InOrder, Analysing, Allocating
<1>4. RP!IInv' /\ RP!Joined'
  BY <1>1, <1>3, AllocationGoesOn
<1>5. LP!IInv'
  <2>1. UNCHANGED L!vars
    BY <1>1, <1>2 DEF L!vars
  <2> QED
    BY <1>3, <2>1, LivenessGoesOn
<1>6. B!flowGraph' = B!flowGraph
  BY <1>1, <1>2, SameGraph
<1>7. task' # "no live sets"
  BY <1>4 DEF RP!IInv, RP!TypeOK, RP!Tasks
<1>8. pc' = "returned" /\ graph' = graph /\ stage' = "built"
  BY <1>1, <1>3 DEF buildVars
<1> QED
  BY <1>3, <1>4, <1>5, <1>6, <1>7, <1>8 DEF InOrder, NotStarted, Analysing, Allocating

LEMMA StutterKeeps == InOrder /\ UNCHANGED vars => InOrder'
<1> SUFFICES ASSUME InOrder, UNCHANGED vars PROVE InOrder'
  OBVIOUS
<1>1. UNCHANGED <<code, buildVars, liveVars, allocVars>>
  BY DEF vars
<1>2. B!flowGraph' = B!flowGraph /\ UNCHANGED L!vars /\ UNCHANGED R!vars
  BY <1>1, SameGraph DEF liveVars, allocVars, L!vars, R!vars
<1>3. /\ LP!IInv => LP!IInv'
      /\ RP!IInv /\ RP!Joined => RP!IInv' /\ RP!Joined'
  BY <1>2, LivenessGoesOn, AllocationGoesOn
<1> QED
  BY <1>1, <1>2, <1>3 DEF InOrder, NotStarted, Analysing, Allocating, buildVars, liveVars,
                          allocVars

(* The constructor works in order: liveness is analysed on the graph of    *)
(* the finished code, registers are allocated from finished live sets, and *)
(* the invariants of the parts hold throughout.                            *)
THEOREM OrderKept == Spec => []InOrder
<1>1. Built /\ InOrder /\ [Next]_vars => InOrder'
  BY BuildKeeps, StartLivenessKeeps, LivenessKeeps, StartAllocationKeeps, AllocateKeeps,
     StutterKeeps DEF Next
<1> QED
  BY InitInOrder, AlwaysBuilt, <1>1, PTL DEF Spec

-----------------------------------------------------------------------------
(* The answers.                                                            *)

(* Block ids leave no gaps.                                                *)
LEMMA NoGaps ==
  ASSUME NEW p, WellFormed(p), NEW b \in 0 .. p.lines[Len(p.lines)].bb
  PROVE  LinesOf(p, b) # {}
<1> DEFINE n == Len(p.lines)
           T == {i \in Lines(p) : p.lines[i].bb >= b}
<1>1. n \in Nat \ {0} /\ Lines(p) = 1 .. n /\ n \in Lines(p) /\ p.lines[n].bb \in Nat
  BY LinesAre
<1>2. p.lines[1].bb = 0
  BY DEF WellFormed
<1> HIDE DEF n
<1>3. n \in T
  BY <1>1 DEF n
<1>4. T \in SUBSET Nat /\ T # {}
  BY <1>1, <1>3
<1>5. PICK k \in T : \A i \in T : k <= i
  <2> HIDE DEF T
  <2> QED
    BY <1>4, Least
<1>6. k \in Lines(p) /\ p.lines[k].bb >= b /\ p.lines[k].bb \in Nat
  BY <1>5, LinesAre
<1>7. CASE k = 1
  BY <1>2, <1>6, <1>7 DEF LinesOf
<1>8. CASE k # 1
  <2> DEFINE m == k - 1
  <2>1. m \in Lines(p) /\ ~(k <= m)
    BY <1>1, <1>6, <1>8
  <2>2. p.lines[m].bb \in Nat /\ m \notin T
    BY <1>5, <2>1, LinesAre
  <2>3. ~(p.lines[m].bb >= b)
    BY <2>1, <2>2
  <2>4. p.lines[k].bb = p.lines[m].bb +
          (IF StartsBlock(p.lines[k]) \/ EndsBlock(p.lines[m]) THEN 1 ELSE 0)
    BY <1>6, <1>8, LinesAre
  <2> HIDE DEF m
  <2>5. p.lines[k].bb = b
    BY <1>6, <2>2, <2>3, <2>4
  <2> QED
    BY <1>6, <2>5 DEF LinesOf
<1> QED
  BY <1>7, <1>8

HasCfg == pc # "no Cfg"

LEMMA CodeDepicted ==
  ASSUME Built, InOrder, HasCfg, Visible(code)
  PROVE  WellFormed(code) /\ Depicts(code, graph)
<1>1. stage = "built" /\ graph = BP!flowGraph /\ WellFormed(code) /\ BP!Inv
  <2>1. stage = "built" /\ graph = B!flowGraph
    BY DEF InOrder, Analysing, HasCfg
  <2>2. BP!flowGraph = B!flowGraph
    BY DEF B!flowGraph, BP!flowGraph
  <2>3. code \in Programs
    BY DEF Built, BP!Inv, BP!TypeOK
  <2> QED
    BY <2>1, <2>2, <2>3, CompiledAssumption DEF Built
<1>0. /\ Len(code.lines) \in Nat \ {0} /\ Lines(code) = 1 .. Len(code.lines)
      /\ \A i \in Lines(code) : code.lines[i] \in Line /\ code.lines[i].bb \in Nat
  BY <1>1, LinesAre
<1>2. \A p \in Programs : BP!WellFormed(p)
  BY CompiledAssumption, SameShape
<1>3. /\ DOMAIN succ = 0 .. Len(blockIndex) - 1
      /\ \A i \in Lines(code) : code.lines[i].bb \in DOMAIN succ
      /\ BP!BlocksCounted
  BY <1>1, <1>2, NoVarAssumption, BP!BuiltFacts, SameCode
<1>4. /\ graph.succ = succ /\ graph.notKilled = notKilled
      /\ L!Blocks(graph) = DOMAIN succ
      /\ \A b \in DOMAIN succ : graph.ueVar[b] = blockIndex[b + 1].ueVar
  BY <1>1, <1>3 DEF BP!flowGraph, L!Blocks
<1>5. L!IsFlowGraph(graph)
  BY <1>1 DEF Built, BP!DescriptorsMatch, L!IsFlowGraph, BP!IsFlowGraph, L!Blocks, BP!Blocks
<1>6. \A i : BP!IsFirst(i) <=> FirstIn(code, i)
  BY DEF BP!IsFirst, FirstIn
<1>7. ASSUME NEW i \in Lines(code)
      PROVE  LastIn(code, i) <=> i = Len(code.lines) \/ FirstIn(code, i + 1)
  <2>0. i \in Nat \ {0}
    BY <1>0
  <2>1. i + 1 # 1 /\ (i + 1) - 1 = i
    BY <2>0
  <2> DEFINE n == i + 1
  <2> HIDE DEF n
  <2>2. FirstIn(code, n) <=> n = 1 \/ code.lines[n].bb # code.lines[n - 1].bb
    BY DEF FirstIn
  <2>3. LastIn(code, i) <=> i = Len(code.lines) \/ code.lines[n].bb # code.lines[i].bb
    BY DEF LastIn, n
  <2> QED
    BY <2>1, <2>2, <2>3 DEF n
<1>8. ASSUME NEW i \in Lines(code), NEW j \in LineSuccessors(code, i)
      PROVE  \/ j = i + 1 /\ code.lines[j].bb = code.lines[i].bb /\ ~FirstIn(code, j)
             \/ i = Len(code.lines) /\ FirstIn(code, j)
                  /\ code.lines[j].bb \in succ[code.lines[i].bb]
             \/ i # Len(code.lines) /\ FirstIn(code, i + 1) /\ FirstIn(code, j)
                  /\ code.lines[j].bb \in succ[code.lines[i].bb]
  BY <1>1, <1>6, SameCode DEF Built, BP!EdgesComplete
<1>9. ASSUME NEW i \in Lines(code), NEW j \in LineSuccessors(code, i)
      PROVE  j \in Lines(code)
  <2>1. CASE BP!IsJump(code.lines[i])
    <3>1. code \in Programs
      BY <1>1 DEF BP!Inv, BP!TypeOK
    <3>2. \A k \in BP!LineSuccessors(code, i) : k \in BP!Lines(code) /\ BP!IsFirst(k)
      BY <1>2, <2>1, <3>1, NoVarAssumption, BP!JumpsLead, SameCode
    <3> QED
      BY <3>2, SameCode
  <2>2. CASE ~BP!IsJump(code.lines[i])
    BY <2>2 DEF LineSuccessors, BP!IsJump
  <2> QED
    BY <2>1, <2>2
<1>10. ASSUME NEW i \in Lines(code), NEW j \in LineSuccessors(code, i), LastIn(code, i)
       PROVE  FirstIn(code, j) /\ code.lines[j].bb \in succ[code.lines[i].bb]
  <2>1. i = Len(code.lines) => j # i + 1
    <3>1. Len(code.lines) \in Nat /\ j \in 1 .. Len(code.lines)
      BY <1>0, <1>9
    <3> QED
      BY <3>1
  <2> QED
    BY <1>7, <1>8, <1>10, <2>1
<1>11. ASSUME NEW b \in DOMAIN succ, NEW t \in succ[b]
       PROVE  \E i \in LinesOf(code, b) :
                /\ LastIn(code, i)
                /\ \E j \in LinesOf(code, t) : /\ FirstIn(code, j)
                                               /\ j \in LineSuccessors(code, i)
  <2>0. PICK i \in LinesOf(code, b) : \E j \in LineSuccessors(code, i) :
          code.lines[j].bb = t /\ (j # i + 1 \/ FirstIn(code, j))
    <3>1. PICK i \in BP!LinesOf(code, b) : \E j \in BP!LineSuccessors(code, i) :
            code.lines[j].bb = t /\ (j # i + 1 \/ BP!IsFirst(j))
      BY <1>1 DEF Built, BP!EdgesSound
    <3>2. i \in LinesOf(code, b) /\ BP!LineSuccessors(code, i) = LineSuccessors(code, i)
      BY SameCode
    <3> QED
      BY <1>6, <3>1, <3>2
  <2>1. PICK j \in LineSuccessors(code, i) :
          code.lines[j].bb = t /\ (j # i + 1 \/ FirstIn(code, j))
    BY <2>0
  <2>2. i \in Lines(code) /\ j \in LinesOf(code, t)
    BY <1>9, <2>1 DEF LinesOf
  <2>3. FirstIn(code, j) /\ LastIn(code, i)
    BY <1>7, <1>8, <2>1, <2>2
  <2> QED
    BY <2>1, <2>2, <2>3
<1>12. ASSUME NEW b \in DOMAIN succ PROVE LinesOf(code, b) # {}
  <2>1. BP!pushed = Len(code.lines) /\ Len(code.lines) \in Nat \ {0}
    BY <1>0, <1>1 DEF BP!pushed
  <2>2. Len(blockIndex) = code.lines[Len(code.lines)].bb + 1
    <3>1. Len(blockIndex) = IF BP!pushed = 0 THEN 1 ELSE code.lines[BP!pushed].bb + 1
      BY <1>3 DEF BP!BlocksCounted
    <3> QED
      BY <2>1, <3>1
  <2>3. code.lines[Len(code.lines)].bb \in Nat
    <3>1. Len(code.lines) \in Lines(code)
      BY <1>0
    <3> QED
      BY <1>0, <3>1
  <2>4. b \in 0 .. code.lines[Len(code.lines)].bb
    BY <1>3, <2>2, <2>3
  <2> QED
    BY <1>1, <2>4, NoGaps
<1>13. ASSUME NEW b \in DOMAIN succ PROVE graph.ueVar[b] = Exposed(code, b)
  <2>1. \A i \in BP!LinesOf(code, b) : BP!PlainLine(code.lines[i])
    BY SameCode DEF Visible, BP!PlainLine, LinesOf
  <2> QED
    BY <1>1, <1>4, <2>1, SameCode DEF Built, BP!ExposedExact, Exposed
<1>14. ASSUME NEW b \in DOMAIN succ
       PROVE  graph.notKilled[b] = {v \in code.store : Unwritten(code, b, v)}
  <2>1. BP!pushed = Len(code.lines) /\ Lines(code) = 1 .. Len(code.lines)
    BY <1>0, <1>1 DEF BP!pushed
  <2>2. notKilled[b] = code.store \ blockIndex[b + 1].defVar
    BY <1>1, <1>3 DEF BP!Inv, BP!KillsKnown
  <2>3. blockIndex[b + 1].defVar = BP!DefinedIn(b, BP!pushed)
    BY <1>1, <1>3 DEF BP!Inv, BP!SetsCollected
  <2>4. BP!Members(b, BP!pushed) = LinesOf(code, b)
    BY <2>1 DEF BP!Members, LinesOf
  <2>5. BP!DefinedIn(b, BP!pushed) = UNION {Writes(code.lines[i]) : i \in LinesOf(code, b)}
    <3>1. \A l : BP!Writes(l) = Writes(l)
      BY SameCode
    <3> QED
      BY <2>4, <3>1 DEF BP!DefinedIn
  <2> QED
    BY <1>4, <2>2, <2>3, <2>5 DEF Unwritten
<1>15. \A b \in L!Blocks(graph) : b \in DOMAIN succ
  BY <1>4
<1>16. Depicts(code, graph)
  BY <1>3, <1>4, <1>5, <1>9, <1>10, <1>11, <1>12, <1>13, <1>14 DEF Depicts
<1> QED
  BY <1>1, <1>16

HasReturned == pc = "returned"

(* A returned call has left the least solution.                            *)
LEMMA LeastSolution ==
  ASSUME Built, InOrder, HasReturned, Visible(code)
  PROVE  \E s : /\ s.in = liveIn /\ s.out = liveOut
                /\ L!IsSolution(graph, s)
                /\ \A t \in L!Assignments(graph) : L!IsSolution(graph, t) => L!Below(graph, s, t)
<1> DEFINE s == LP!current
<1>1. LP!IInv
  BY DEF HasReturned, InOrder, Analysing
<1>2. LP!IsSolution(graph, s)
  BY <1>1 DEF HasReturned, LP!IInv, LP!Solved, LP!SolvedWhenReturned
<1>3. \A t \in LP!Assignments(graph) : LP!IsSolution(graph, t) => LP!Below(graph, s, t)
  BY <1>1 DEF LP!IInv, LP!BelowEverySolution
<1>4. s.in = liveIn /\ s.out = liveOut
  BY DEF LP!current
<1> HIDE DEF s
<1>5. \A t : L!IsSolution(graph, t) <=> LP!IsSolution(graph, t)
  BY DEF L!IsSolution, LP!IsSolution, L!InHolds, LP!InHolds, L!OutHolds, LP!OutHolds,
         L!LiveInOf, LP!LiveInOf, L!LiveOutOf, LP!LiveOutOf, L!getSuccessor,
         LP!getSuccessor, L!Blocks, LP!Blocks
<1>6. \A t : L!Below(graph, s, t) <=> LP!Below(graph, s, t)
  BY DEF L!Below, LP!Below, L!Blocks, LP!Blocks
<1>7. L!Assignments(graph) = LP!Assignments(graph)
  BY DEF L!Assignments, LP!Assignments, L!Blocks, LP!Blocks
<1> QED
  BY <1>2, <1>3, <1>4, <1>5, <1>6, <1>7

LEMMA Answers ==
  ASSUME Built, InOrder, HasReturned, Visible(code), NEW v \in Vars
  PROVE  /\ LiveLines(code, liveOut, v) = NeededFrom(code, v)
         /\ \A i \in Lines(code) :
              v \in liveSetAfter(code, liveOut, i) <=> i \in NeededAfter(code, v)
<1>1. WellFormed(code) /\ Depicts(code, graph)
  <2>1. HasCfg
    BY DEF HasReturned, HasCfg
  <2> QED
    BY <2>1, CodeDepicted
<1>2. PICK s : /\ s.in = liveIn /\ s.out = liveOut
               /\ L!IsSolution(graph, s)
               /\ \A t \in L!Assignments(graph) : L!IsSolution(graph, t) => L!Below(graph, s, t)
  BY LeastSolution
<1>3. L!Below(graph, s, NeededSets(code, graph))
  BY <1>1, <1>2, NeededSolves
<1>4. \A b \in L!Blocks(graph) : s.out[b] \subseteq NeededSets(code, graph).out[b]
  BY <1>3 DEF L!Below
<1>5. /\ NeededFrom(code, v) \subseteq LiveLines(code, s.out, v)
      /\ \A i \in NeededAfter(code, v) : v \in liveSetAfter(code, s.out, i)
  BY <1>1, <1>2, NeededIsLive
<1>6. /\ LiveLines(code, s.out, v) \subseteq NeededFrom(code, v)
      /\ \A i \in Lines(code) :
           v \in liveSetAfter(code, s.out, i) => i \in NeededAfter(code, v)
  BY <1>1, <1>4, LiveIsNeeded
<1> QED
  BY <1>2, <1>5, <1>6

(* The queries for single lines are right for code of any length: no more  *)
(* and no less is reported live than some execution needs.                 *)
THEOREM QueriesCorrect == Spec => []QueriesExact
<1>1. Built /\ InOrder => QueriesExact
  <2> SUFFICES ASSUME Built, InOrder, HasReturned, Visible(code), NEW v \in Vars,
                      NEW i \in Lines(code)
               PROVE  /\ v \in liveSetAt(code, liveOut, i) <=> i \in NeededFrom(code, v)
                      /\ v \in liveSetAfter(code, liveOut, i) <=> i \in NeededAfter(code, v)
    BY DEF QueriesExact, HasReturned
  <2> QED
    BY Answers DEF LiveLines
<1> QED
  BY AlwaysBuilt, OrderKept, <1>1, PTL

(* No write to a register destroys a variable that is needed later, for    *)
(* code of any length, any number of registers and any order in which the  *)
(* vertices were coloured: the whole chain from the blocks over the live   *)
(* sets and the interference graph to the colours.                         *)
THEOREM NoClobberCorrect == Spec => []NoClobber
<1>1. Built /\ InOrder => NoClobber
  <2> SUFFICES ASSUME Built, InOrder, task = "done", Visible(code),
                      NEW w \in Vars, NEW i \in NeededAfter(code, w),
                      NEW v \in Writes(code.lines[i]) \ {w},
                      R!InRegister(FunctionAt(code, i), v),
                      R!InRegister(FunctionAt(code, i), w)
               PROVE  colors[FunctionAt(code, i)][v] # colors[FunctionAt(code, i)][w]
    BY DEF NoClobber
  <2> DEFINE l == code.lines[i]
             f == FunctionAt(code, i)
  <2>1. HasReturned /\ RP!IInv /\ RP!Joined
    BY DEF InOrder, Allocating, HasReturned
  <2>2. WellFormed(code) /\ i \in Lines(code)
    <3>1. HasCfg
      BY <2>1 DEF HasReturned, HasCfg
    <3> QED
      BY <3>1, CodeDepicted DEF NeededAfter
  <2>3. v = l.target /\ v # NoVar /\ w \notin Writes(l)
    BY DEF Writes
  <2>4. /\ v \in vertices[f] /\ w \in vertices[f]
        /\ RP!InRegister(f, v) /\ RP!InRegister(f, w)
    BY DEF R!InRegister, RP!InRegister, R!isColor, RP!isColor
  <2>5. f \in RP!Functions
    <3>1. RP!WellFormed(code) /\ i \in RP!Lines(code)
      BY <2>2, SameShape, SameCode
    <3>2. \E e \in RP!Lines(code) : /\ code.lines[e].op = "ENTRY"
                                    /\ RP!FunctionAt(code, i) = code.lines[e].dest
      BY <3>1, RegistersAssumption, NoVarAssumption, RP!FunctionIsThere
    <3> QED
      BY <3>2, SameCode DEF RP!Functions
  <2>6. v \notin FloatVars /\ w \notin FloatVars
    BY <2>1, <2>4, <2>5 DEF RP!IInv, RP!TypeOK
  <2>7. w \in liveSetAt(code, liveOut, i)
    <3>1. w \in liveSetAfter(code, liveOut, i)
      BY <2>1, <2>2, Answers
    <3> QED
      BY <2>2, <2>3, <3>1, LiveAt DEF LiveLines
  <2>8. {v, w} \in edges[f]
    <3>1. RP!JoinedAt(i)
      BY <2>1, <2>2, SameCode DEF RP!Joined, RP!HasPassed
    <3>2. RP!HasVertex(l)
      BY <2>3, <2>6 DEF RP!HasVertex, RP!containsTargetVar
    <3>3. \A u \in RP!liveSetAt(code, liveOut, i) \ FloatVars : {l.target, u} \in edges[f]
      BY <3>1, <3>2, SameCode DEF RP!JoinedAt
    <3> QED
      BY <2>3, <2>6, <2>7, <3>3, SameCode
  <2>9. RP!RegistersSeparate
    BY <2>1, RegistersAssumption, NoVarAssumption, RP!RegistersFollow
  <2> QED
    BY <2>4, <2>5, <2>8, <2>9 DEF RP!RegistersSeparate
<1> QED
  BY AlwaysBuilt, OrderKept, <1>1, PTL

(* The map of live ranges is right for code of any length: the range of a  *)
(* variable begins and ends at a line before which its value is needed and *)
(* has all such lines; only unneeded variables are left out, and nothing   *)
(* is looked up in vain.                                                   *)
THEOREM LiveRangesCorrect == Spec => []LiveRangesExact
<1>1. Built /\ InOrder => LiveRangesExact
  <2> SUFFICES ASSUME Built, InOrder, HasReturned, Visible(code)
               PROVE  LET range == getVariableLiveRangeMap(code, liveOut)
                      IN /\ ~RangesThrow(code, liveOut)
                         /\ \A v \in code.store :
                              LET needed == NeededFrom(code, v)
                              IN /\ v \in DOMAIN range <=> needed # {}
                                 /\ needed # {} =>
                                      /\ needed \subseteq range[v].first .. range[v].behind - 1
                                      /\ {range[v].first, range[v].behind - 1} \subseteq needed
    BY DEF LiveRangesExact, HasReturned
  <2> DEFINE range == getVariableLiveRangeMap(code, liveOut)
  <2>1. WellFormed(code)
    <3>1. HasCfg
      BY DEF HasReturned, HasCfg
    <3> QED
      BY <3>1, CodeDepicted
  <2>2. code.store \subseteq Vars
    BY <2>1 DEF WellFormed
  <2>3. ~RangesThrow(code, liveOut)
    <3> SUFFICES ASSUME NEW v \in Vars \ code.store PROVE LiveLines(code, liveOut, v) = {}
      BY DEF RangesThrow
    <3> QED
      BY <2>1, Answers, UnstoredUnneeded
  <2>4. ASSUME NEW v \in code.store
        PROVE  LET needed == NeededFrom(code, v)
               IN /\ v \in DOMAIN range <=> needed # {}
                  /\ needed # {} =>
                       /\ needed \subseteq range[v].first .. range[v].behind - 1
                       /\ {range[v].first, range[v].behind - 1} \subseteq needed
    <3> DEFINE needed == NeededFrom(code, v)
    <3>1. LiveLines(code, liveOut, v) = needed
      BY <2>2, Answers
    <3>2. /\ v \in DOMAIN range <=> needed # {}
          /\ needed # {} => /\ range[v].first = FE!Min(needed)
                            /\ range[v].behind = FE!Max(needed) + 1
      BY <3>1 DEF getVariableLiveRangeMap, Ranges
    <3>3. /\ Len(code.lines) \in Nat /\ needed \subseteq 1 .. Len(code.lines)
      BY <2>1, NeededIs, LinesAre
    <3> HIDE DEF needed, range
    <3>4. ASSUME needed # {}
          PROVE  /\ FE!Min(needed) \in needed /\ \A i \in needed : FE!Min(needed) <= i
                 /\ FE!Max(needed) \in needed /\ \A i \in needed : i <= FE!Max(needed)
      <4>1. needed \in SUBSET Nat /\ needed \in SUBSET (1 .. Len(code.lines))
        BY <3>3
      <4>2. \E i \in needed : \A j \in needed : i <= j
        BY <3>4, <4>1, Least
      <4>3. \E i \in needed : \A j \in needed : j <= i
        BY <3>3, <3>4, <4>1, Greatest
      <4>4. FE!Min(needed) = CHOOSE i \in needed : \A j \in needed : i <= j
        BY DEF FE!Min
      <4>5. FE!Max(needed) = CHOOSE i \in needed : \A j \in needed : i >= j
        BY DEF FE!Max
      <4>6. \E i \in needed : \A j \in needed : i >= j
        BY <4>1, <4>3
      <4>7. FE!Min(needed) \in needed /\ \A i \in needed : FE!Min(needed) <= i
        BY <4>2, <4>4
      <4>8. FE!Max(needed) \in needed /\ \A i \in needed : FE!Max(needed) >= i
        BY <4>5, <4>6
      <4> QED
        BY <4>1, <4>7, <4>8
    <3>5. ASSUME needed # {}
          PROVE  /\ needed \subseteq range[v].first .. range[v].behind - 1
                 /\ {range[v].first, range[v].behind - 1} \subseteq needed
      <4> DEFINE first == FE!Min(needed)
                 last == FE!Max(needed)
      <4>1. range[v].first = first /\ range[v].behind = last + 1
        BY <3>2, <3>5
      <4>2. first \in needed /\ last \in needed
        BY <3>4, <3>5
      <4>3. \A i \in needed : first <= i /\ i <= last
        BY <3>4, <3>5
      <4>4. needed \subseteq Nat
        BY <3>3
      <4> HIDE DEF first, last
      <4>5. range[v].behind - 1 = last
        BY <4>1, <4>2, <4>4
      <4>6. needed \subseteq first .. last
        BY <4>2, <4>3, <4>4
      <4> QED
        BY <4>1, <4>2, <4>5, <4>6
    <3> QED
      BY <3>2, <3>5 DEF needed, range
  <2> QED
    BY <2>3, <2>4
<1> QED
  BY AlwaysBuilt, OrderKept, <1>1, PTL

-----------------------------------------------------------------------------
(* Giving up.                                                              *)

(* Only variables are live.                                                *)
LEMMA LiveAreVariables ==
  ASSUME NEW p, WellFormed(p), Visible(p), NEW out,
         \A k \in Lines(p) : out[p.lines[k].bb] \subseteq Vars, NEW w
  PROVE  w \in Vars \/ LiveLines(p, out, w) = {}
<1> SUFFICES ASSUME w \notin Vars, LiveLines(p, out, w) # {} PROVE FALSE
  OBVIOUS
<1> DEFINE X == LiveLines(p, out, w)
<1>1. Len(p.lines) \in Nat /\ Lines(p) = 1 .. Len(p.lines)
  BY LinesAre
<1>2. X \in SUBSET (1 .. Len(p.lines)) /\ X # {}
  BY <1>1 DEF LiveLines
<1> HIDE DEF X
<1>3. PICK i \in X : \A j \in X : j <= i
  BY <1>1, <1>2, Greatest
<1>4. i \in Lines(p) /\ i + 1 \notin X
  BY <1>1, <1>2, <1>3
<1>5. w \notin Reads(p.lines[i])
  BY <1>4 DEF Visible, WellFormed
<1>6. w \in liveSetAfter(p, out, i)
  BY <1>3, <1>4, <1>5, LiveAt DEF X
<1>7. LastIn(p, i)
  BY <1>4, <1>6, LiveAt DEF X
<1> QED
  BY <1>4, <1>6, <1>7, LiveAt

(* What leads to a line, other than an entry, is in the same function.     *)
LEMMA StaysInFunction ==
  ASSUME NEW p, WellFormed(p), NEW j \in Lines(p), NEW i \in LineSuccessors(p, j)
  PROVE  i \in Lines(p) => FunctionAt(p, i) = FunctionAt(p, j)
<1> SUFFICES ASSUME i \in Lines(p) PROVE FunctionAt(p, i) = FunctionAt(p, j)
  OBVIOUS
<1>1. Len(p.lines) \in Nat /\ Lines(p) = 1 .. Len(p.lines)
  BY LinesAre
<1>2. CASE i = j + 1 /\ p.lines[i].op # "ENTRY"
  <2>1. {k \in 1 .. i : p.lines[k].op = "ENTRY"} = {k \in 1 .. j : p.lines[k].op = "ENTRY"}
    <3>1. 1 .. i = 1 .. j \cup {i}
      BY <1>1, <1>2
    <3> QED
      BY <1>2, <3>1
  <2> QED
    BY <2>1 DEF FunctionAt
<1>3. CASE IsJump(p.lines[j]) /\ i = Position(p, p.lines[j].dest)
  <2> DEFINE label == p.lines[j].dest
  <2>1. PICK k \in Lines(p) : /\ p.lines[k].op = "LABEL" /\ p.lines[k].dest = label
                              /\ FunctionAt(p, k) = FunctionAt(p, j)
    BY <1>3 DEF WellFormed
  <2>2. IsDeclarationOf(p.lines[k], label) /\ StartsBlock(p.lines[k])
    BY <2>1 DEF IsDeclarationOf, StartsBlock
  <2>3. IsDeclarationOf(p.lines[i], label)
    BY <1>3, <2>2 DEF Position
  <2>4. i = k
    BY <2>1, <2>2, <2>3 DEF WellFormed
  <2> QED
    BY <2>1, <2>4
<1>4. \/ i = j + 1 /\ p.lines[i].op # "ENTRY"
      \/ IsJump(p.lines[j]) /\ i = Position(p, p.lines[j].dest)
  <2>1. CASE p.lines[j].op = "JUMPFALSE" /\ i = j + 1
    BY <2>1 DEF WellFormed
  <2> QED
    BY <2>1 DEF LineSuccessors, IsJump
<1> QED
  BY <1>2, <1>3, <1>4

(* A variable that is needed at a line which writes, and that no line of   *)
(* the function above it writes, is needed at an entry.                    *)
LEMMA NeededSinceEntry ==
  ASSUME NEW p, WellFormed(p), WritesReached(p), NEW w, NEW i \in Lines(p),
         i \in NeededFrom(p, w), Writes(p.lines[i]) # {},
         \A j \in 1 .. i : FunctionAt(p, j) = FunctionAt(p, i) => w \notin Writes(p.lines[j])
  PROVE  \E e \in NeededFrom(p, w) : p.lines[e].op = "ENTRY"
<1> SUFFICES ASSUME \A e \in NeededFrom(p, w) : p.lines[e].op # "ENTRY" PROVE FALSE
  OBVIOUS
<1> DEFINE N == NeededFrom(p, w)
           f == FunctionAt(p, i)
           X == {k \in Lines(p) : ~(k <= i /\ FunctionAt(p, k) = f /\ k \in N)}
<1>1. Len(p.lines) \in Nat /\ Lines(p) = 1 .. Len(p.lines)
  BY LinesAre
<1>2. ASSUME NEW k \in Lines(p), NEW j \in X, j < k, k \in LineSuccessors(p, j)
      PROVE  k \in X
  <2> SUFFICES ASSUME k <= i, FunctionAt(p, k) = f, k \in N PROVE FALSE
    OBVIOUS
  <2>1. j \in Lines(p) /\ j \in 1 .. i
    BY <1>1, <1>2
  <2>2. FunctionAt(p, j) = f
    BY <1>2, <2>1, StaysInFunction
  <2>3. w \notin Writes(p.lines[j])
    BY <2>1, <2>2
  <2>4. j \in N
    BY <1>2, <2>1, <2>3, NeededIs
  <2>5. j <= i
    BY <2>1
  <2> QED
    BY <2>2, <2>4, <2>5
<1>3. \A k \in Lines(p) : p.lines[k].op = "ENTRY" => k \in X
  OBVIOUS
<1>4. Descends(p, X)
  BY <1>2, <1>3 DEF Descends
<1>5. i \in X
  <2> HIDE DEF X
  <2>1. X \in SUBSET Lines(p)
    BY DEF X
  <2> QED
    BY <1>4, <2>1 DEF WritesReached
<1> QED
  BY <1>1, <1>5

(* So it is when every line but the entries is entered from above, as in   *)
(* code from the converters without statements directly behind a return.   *)
LEMMA ReachedWhenEntered ==
  ASSUME NEW p, WellFormed(p),
         \A i \in Lines(p) : p.lines[i].op = "ENTRY" \/ EnteredFromAbove(p, i)
  PROVE  WritesReached(p)
<1> SUFFICES ASSUME NEW X \in SUBSET Lines(p), Descends(p, X), Lines(p) \ X # {}
             PROVE  FALSE
  BY DEF WritesReached
<1>1. Len(p.lines) \in Nat /\ Lines(p) = 1 .. Len(p.lines)
  BY LinesAre
<1>2. PICK i \in Lines(p) \ X : \A j \in Lines(p) \ X : i <= j
  <2>1. Lines(p) \ X \in SUBSET Nat
    BY <1>1
  <2> QED
    BY <2>1, LP!Least
<1>3. p.lines[i].op # "ENTRY"
  BY <1>2 DEF Descends
<1>4. PICK j \in 1 .. i - 1 : i \in LineSuccessors(p, j)
  BY <1>3 DEF EnteredFromAbove
<1>5. j \in Lines(p) /\ j < i
  BY <1>1
<1>6. j \in X
  <2>1. ~(i <= j)
    BY <1>1, <1>5
  <2> QED
    BY <1>2, <1>5, <2>1
<1> QED
  BY <1>2, <1>4, <1>5, <1>6 DEF Descends

LEMMA StoppedKept == Spec => []RP!StoppedByMissing
<1>1. Init => RP!StoppedByMissing
  BY DEF Init, RP!StoppedByMissing
<1>2. InOrder /\ RP!StoppedByMissing /\ [Next]_vars => RP!StoppedByMissing'
  <2> SUFFICES ASSUME InOrder, RP!StoppedByMissing, [Next]_vars PROVE RP!StoppedByMissing'
    OBVIOUS
  <2>1. CASE build
    <3>1. stage # "built"
      BY <2>1 DEF build, B!Next, B!pushLine, B!addVertices, B!connect
    <3>2. task = "no live sets"
      BY <3>1 DEF InOrder, NotStarted, Analysing
    <3> QED
      BY <2>1, <3>2 DEF build, allocVars, RP!StoppedByMissing
  <2>2. CASE startLiveness \/ callWorkList \/ live
    <3>1. pc # "returned"
      BY <2>2 DEF startLiveness, callWorkList, live, L!Running
    <3>2. task = "no live sets"
      BY <3>1 DEF InOrder, Allocating
    <3> QED
      BY <2>2, <3>2 DEF startLiveness, callWorkList, live, allocVars, RP!StoppedByMissing
  <2>3. CASE startAllocation
    BY <2>3 DEF startAllocation, RP!StoppedByMissing
  <2>4. CASE allocate \/ UNCHANGED vars
    <3>1. [R!Next]_(R!vars)
      BY <2>4 DEF allocate, vars, allocVars, liveVars, R!vars
    <3>2. CASE task = "no live sets"
      BY <2>4, <3>2 DEF allocate, vars, allocVars, RP!StoppedByMissing
    <3>3. CASE task # "no live sets"
      <4>1. RP!IInv
        BY <3>3 DEF InOrder, Allocating
      <4>2. [RP!Next]_(RP!vars)
        BY <3>1, AllocationSteps
      <4>3. RP!IInv /\ RP!StoppedByMissing /\ [RP!Next]_(RP!vars) => RP!StoppedByMissing'
        BY RegistersAssumption, NoVarAssumption, RP!StoppedStep
      <4> QED
        BY <4>1, <4>2, <4>3
    <3> QED
      BY <3>2, <3>3
  <2> QED
    BY <2>1, <2>2, <2>3, <2>4 DEF Next
<1> QED
  BY <1>1, <1>2, OrderKept, PTL DEF Spec

(* Whenever allocation gives up, some execution needs a variable at the    *)
(* line it stopped at which nothing above that line in the function has    *)
(* written.                                                                *)
NothingWrittenAbove ==
  task = "aborted" /\ Visible(code) =>
    /\ loc \in Lines(code)
    /\ Writes(code.lines[loc]) # {}
    /\ \E w \in Vars :
         /\ loc \in NeededFrom(code, w)
         /\ \A j \in 1 .. loc :
              FunctionAt(code, j) = FunctionAt(code, loc) => w \notin Writes(code.lines[j])

(* Allocation stops at a variable that is really needed there, by some     *)
(* execution and not only by the live sets, for code of any shape: above   *)
(* the line nothing in the function stores a value in it.                  *)
THEOREM AbortsExplained == Spec => []NothingWrittenAbove
<1>1. Built /\ InOrder /\ RP!StoppedByMissing => NothingWrittenAbove
  <2> SUFFICES ASSUME Built, InOrder, RP!StoppedByMissing, task = "aborted", Visible(code)
               PROVE  /\ loc \in Lines(code)
                      /\ Writes(code.lines[loc]) # {}
                      /\ \E w \in Vars :
                           /\ loc \in NeededFrom(code, w)
                           /\ \A j \in 1 .. loc :
                                FunctionAt(code, j) = FunctionAt(code, loc) =>
                                  w \notin Writes(code.lines[j])
    BY DEF NothingWrittenAbove
  <2>1. HasReturned /\ RP!IInv /\ RP!Joined
    BY DEF InOrder, Allocating, HasReturned
  <2>2. WellFormed(code) /\ Depicts(code, graph)
    <3>1. HasCfg
      BY <2>1 DEF HasReturned, HasCfg
    <3> QED
      BY <3>1, CodeDepicted
  <2>3. PICK w : RP!Missing(w)
    BY DEF RP!StoppedByMissing
  <2>4. loc \in Lines(code)
    BY <2>1, SameCode DEF RP!IInv, RP!TypeOK
  <2>5. Writes(code.lines[loc]) # {} /\ w \in liveSetAt(code, liveOut, loc)
    BY <2>3, SameCode DEF RP!Missing, RP!HasVertex, RP!containsTargetVar, Writes
  <2>6. w \in Vars
    <3>1. LP!IInv
      BY <2>1 DEF HasReturned, InOrder, Analysing
    <3>2. \A b \in L!Blocks(graph) : liveOut[b] \subseteq Vars
      BY <3>1 DEF LP!IInv, LP!TypeOK, LP!Blocks, L!Blocks
    <3>3. \A k \in Lines(code) : liveOut[code.lines[k].bb] \subseteq Vars
      BY <2>2, <3>2 DEF Depicts
    <3> QED
      BY <2>2, <2>4, <2>5, <3>3, LiveAreVariables DEF LiveLines
  <2>7. loc \in NeededFrom(code, w)
    BY <2>1, <2>4, <2>5, <2>6, Answers DEF LiveLines
  <2>8. ASSUME NEW j \in 1 .. loc, FunctionAt(code, j) = FunctionAt(code, loc),
               w \in Writes(code.lines[j])
        PROVE  FALSE
    <3>1. RP!FunctionAt(code, j) = RP!FunctionAt(code, loc)
      BY <2>8, SameCode
    <3>2. w \notin RP!Writes(code.lines[j])
      BY <2>1, <2>3, <3>1, RegistersAssumption, NoVarAssumption, RP!MissingNotStored
    <3> QED
      BY <2>8, <3>2 DEF Writes, RP!Writes
  <2> QED
    BY <2>4, <2>5, <2>6, <2>7, <2>8
<1> QED
  BY AlwaysBuilt, OrderKept, StoppedKept, <1>1, PTL

(* Allocation gives up only on code that may read a variable of the        *)
(* function before anything was stored in it, provided that every line     *)
(* that writes is reached downward from an entry (ReachedWhenEntered).     *)
THEOREM AbortsCorrect ==
  ASSUME \A p \in Programs : Visible(p) /\ WritesReached(p)
  PROVE  Spec => []AbortsOnlyUninitialised
<1>1. Built /\ NothingWrittenAbove => AbortsOnlyUninitialised
  <2> SUFFICES ASSUME Built, NothingWrittenAbove, task = "aborted"
               PROVE  \E v \in Vars : \E i \in NeededFrom(code, v) :
                        code.lines[i].op = "ENTRY"
    BY DEF AbortsOnlyUninitialised
  <2>1. code \in Programs
    BY DEF Built, BP!Inv, BP!TypeOK
  <2>2. Visible(code) /\ WritesReached(code) /\ WellFormed(code)
    BY <2>1, CompiledAssumption
  <2>3. /\ loc \in Lines(code)
        /\ Writes(code.lines[loc]) # {}
    BY <2>2 DEF NothingWrittenAbove
  <2>4. PICK w \in Vars :
          /\ loc \in NeededFrom(code, w)
          /\ \A j \in 1 .. loc :
               FunctionAt(code, j) = FunctionAt(code, loc) => w \notin Writes(code.lines[j])
    BY <2>2 DEF NothingWrittenAbove
  <2>5. \E e \in NeededFrom(code, w) : code.lines[e].op = "ENTRY"
    BY <2>2, <2>3, <2>4, NeededSinceEntry
  <2> QED
    BY <2>5
<1> QED
  BY AlwaysBuilt, AbortsExplained, <1>1, PTL
=============================================================================
