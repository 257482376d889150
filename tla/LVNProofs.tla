------------------------------ MODULE LVNProofs ------------------------------
(***************************************************************************)
(* Proofs about local value numbering, for code of any length and however  *)
(* many values it reuses: the loop over the blocks survives that they are  *)
(* rebuilt under it, a single copy gets to its place, and with copies in   *)
(* their places the code means what it did.                                *)
(*                                                                         *)
(* The argument is that insertions stay in front: the copies of a block go *)
(* into this block or, by mistake, into earlier ones, never behind its     *)
(* end, so that the blocks still to come are as they were.                 *)
(***************************************************************************)
EXTENDS LVN, SequenceTheorems, WellFoundedInduction, TLAPS

(* Induction over natural numbers, without the number.                     *)
Descending == {p \in Nat \X Nat : p[1] < p[2]}

LEMMA Least ==
  ASSUME NEW T \in SUBSET Nat, T # {}
  PROVE  \E x \in T : \A y \in T : x <= y
<1>1. Descending = OpToRel(<, Nat)
  BY Zenon DEF Descending, OpToRel
<1>2. IsWellFoundedOn(Descending, Nat)
  BY <1>1, NatLessThanWellFounded, Zenon
<1>3. PICK x \in T : \A y \in T : ~(<<y, x>> \in Descending)
  BY <1>2, WFMin, Zenon
<1>4. ASSUME NEW y \in T PROVE x <= y
  <2>1. ~(y < x)
    BY <1>3 DEF Descending
  <2> QED
    BY <2>1
<1> QED
  BY <1>4

-----------------------------------------------------------------------------
(* Sequences.                                                              *)

LEMMA Inserted ==
  ASSUME NEW s \in Seq(Int), NEW i \in 1 .. Len(s) + 1, NEW e \in Int
  PROVE  LET r == InsertAt(s, i, e)
         IN /\ r \in Seq(Int) /\ Len(r) = Len(s) + 1
            /\ \A k \in 1 .. Len(s) + 1 :
                 r[k] = IF k < i THEN s[k] ELSE IF k = i THEN e ELSE s[k - 1]
<1> DEFINE front == SubSeq(s, 1, i - 1)
           rear == SubSeq(s, i, Len(s))
<1>1. /\ front \in Seq(Int) /\ Len(front) = i - 1
      /\ \A k \in 1 .. i - 1 : front[k] = s[k]
  OBVIOUS
<1>2. /\ rear \in Seq(Int) /\ Len(rear) = Len(s) - i + 1
      /\ \A k \in 1 .. Len(s) - i + 1 : rear[k] = s[i + k - 1]
  OBVIOUS
<1>3. InsertAt(s, i, e) = (front \o <<e>>) \o rear
  BY DEF InsertAt
<1> DEFINE both == front \o <<e>>
<1> HIDE DEF front, rear
<1>4. <<e>> \in Seq(Int) /\ Len(<<e>>) = 1 /\ <<e>>[1] = e
  OBVIOUS
<1>5. /\ both \in Seq(Int) /\ Len(both) = i
      /\ \A k \in 1 .. i : both[k] = IF k < i THEN s[k] ELSE e
  <2>1. /\ Len(both) = Len(front) + Len(<<e>>)
        /\ \A k \in 1 .. Len(both) :
             both[k] = IF k <= Len(front) THEN front[k] ELSE <<e>>[k - Len(front)]
    BY <1>1, <1>4, ConcatProperties
  <2>2. both \in Seq(Int)
    BY <1>1, <1>4, ConcatProperties
  <2> HIDE DEF both
  <2> QED
    BY <1>1, <1>4, <2>1, <2>2
<1> DEFINE all == both \o rear
<1> HIDE DEF both
<1>6. /\ Len(all) = Len(both) + Len(rear)
      /\ \A k \in 1 .. Len(all) :
           all[k] = IF k <= Len(both) THEN both[k] ELSE rear[k - Len(both)]
  <2>1. both \in Seq(Int) /\ rear \in Seq(Int)
    BY <1>2, <1>5
  <2> QED
    BY <2>1, ConcatProperties
<1>7. all \in Seq(Int)
  BY <1>2, <1>5, ConcatProperties
<1> HIDE DEF all
<1>8. Len(all) = Len(s) + 1
  BY <1>2, <1>5, <1>6
<1>9. ASSUME NEW k \in 1 .. Len(s) + 1
      PROVE  all[k] = IF k < i THEN s[k] ELSE IF k = i THEN e ELSE s[k - 1]
  <2>1. CASE k <= i
    BY <1>5, <1>6, <1>8, <2>1
  <2>2. CASE k > i
    <3>1. all[k] = rear[k - i] /\ k - i \in 1 .. Len(s) - i + 1 /\ i + (k - i) - 1 = k - 1
      BY <1>5, <1>6, <1>8, <2>2
    <3> QED
      BY <1>2, <2>2, <3>1
  <2> QED
    BY <2>1, <2>2
<1> QED
  BY <1>3, <1>7, <1>8, <1>9 DEF all, both

-----------------------------------------------------------------------------
(* createBasicBlockIndex.                                                  *)

Grown(made, lines, content, m) ==
  IF m > 1 /\ content[lines[m]].bb = content[lines[m - 1]].bb
  THEN [made EXCEPT ![Len(made)] = Append(@, lines[m])]
  ELSE Append(made, <<lines[m]>>)

IsIndex(f, lines, content, n) ==
  f = [m \in 0 .. n |->
         IF m = 0 THEN <<>> ELSE Grown(f[m - 1], lines, content, m)]

LEMMA IndexExists ==
  ASSUME NEW lines, NEW content, NEW n \in Nat
  PROVE  \E f : IsIndex(f, lines, content, n)
<1> DEFINE Good(k) == \E f : IsIndex(f, lines, content, k)
           T == {k \in Nat : ~Good(k)}
<1>1. Good(0)
  <2> DEFINE f == [m \in 0 .. 0 |-> <<>>]
  <2>1. \A m \in 0 .. 0 : m = 0
    OBVIOUS
  <2>2. f = [m \in 0 .. 0 |->
               IF m = 0 THEN <<>> ELSE Grown(f[m - 1], lines, content, m)]
    BY <2>1
  <2>3. IsIndex(f, lines, content, 0)
    BY <2>2 DEF IsIndex
  <2> QED
    BY <2>3
<1>2. ASSUME NEW k \in Nat, k # 0, Good(k - 1) PROVE Good(k)
  <2>1. PICK g : IsIndex(g, lines, content, k - 1)
    BY <1>2
  <2> DEFINE f == [m \in 0 .. k |->
                     IF m = k THEN Grown(g[k - 1], lines, content, k) ELSE g[m]]
  <2>2. k - 1 \in 0 .. k - 1 /\ \A m \in 0 .. k : m # k => m \in 0 .. k - 1
    BY <1>2
  <2>3. ASSUME NEW m \in 0 .. k
        PROVE  f[m] = IF m = 0 THEN <<>> ELSE Grown(f[m - 1], lines, content, m)
    <3>1. CASE m = 0
      BY <1>2, <2>1, <2>2, <3>1 DEF IsIndex
    <3>2. CASE m # 0
      <4>1. m - 1 \in 0 .. k /\ m - 1 # k
        BY <1>2, <3>2
      <4>2. f[m - 1] = g[m - 1]
        BY <4>1
      <4>3. CASE m = k
        BY <3>2, <4>2, <4>3
      <4>4. CASE m # k
        <5>1. m \in 0 .. k - 1 /\ f[m] = g[m]
          BY <2>2, <4>4
        <5> QED
          BY <2>1, <3>2, <4>2, <5>1 DEF IsIndex
      <4> QED
        BY <4>3, <4>4
    <3> QED
      BY <3>1, <3>2
  <2>4. f = [m \in 0 .. k |->
               IF m = 0 THEN <<>> ELSE Grown(f[m - 1], lines, content, m)]
    BY <2>3
  <2> HIDE DEF f
  <2>5. IsIndex(f, lines, content, k)
    BY <2>4 DEF IsIndex
  <2> QED
    BY <2>5
<1>3. T = {}
  <2> SUFFICES ASSUME T # {} PROVE FALSE
    OBVIOUS
  <2>1. PICK k \in T : \A y \in T : k <= y
    <3>1. T \in SUBSET Nat
      OBVIOUS
    <3> HIDE DEF T
    <3> QED
      BY <3>1, Least
  <2>2. k \in Nat /\ ~Good(k) /\ k # 0
    <3> HIDE DEF Good
    <3> QED
      BY <1>1, <2>1
  <2>3. k - 1 \in Nat /\ ~(k <= k - 1)
    BY <2>2
  <2>4. Good(k - 1)
    <3> HIDE DEF Good
    <3> QED
      BY <2>1, <2>3
  <2> HIDE DEF Good
  <2> QED
    BY <1>2, <2>2, <2>4
<1>4. Good(n)
  <2> HIDE DEF Good
  <2> QED
    BY <1>3
<1> QED
  BY <1>4

LEMMA BlocksOfByLines ==
  ASSUME NEW lines, NEW content, Len(lines) \in Nat
  PROVE  \E f : /\ IsIndex(f, lines, content, Len(lines))
                /\ BlocksOf(lines, content) = f[Len(lines)]
<1> DEFINE n == Len(lines)
           F(h) == [m \in 0 .. n |->
                      IF m = 0 THEN <<>>
                      ELSE LET made == h[m - 1]
                           IN IF m > 1 /\ content[lines[m]].bb = content[lines[m - 1]].bb
                              THEN [made EXCEPT ![Len(made)] = Append(@, lines[m])]
                              ELSE Append(made, <<lines[m]>>)]
           f == CHOOSE h : h = F(h)
<1>1. BlocksOf(lines, content) = f[n]
  BY DEF BlocksOf
<1>2. \A h : IsIndex(h, lines, content, n) <=> h = F(h)
  BY DEF IsIndex, Grown
<1> HIDE DEF F, n
<1>3. \E h : h = F(h)
  <2>1. PICK g : IsIndex(g, lines, content, n)
    BY IndexExists DEF n
  <2> QED
    BY <1>2, <2>1
<1>4. f = F(f)
  BY <1>3
<1> HIDE DEF f
<1>5. IsIndex(f, lines, content, n)
  BY <1>2, <1>4
<1> QED
  BY <1>1, <1>5 DEF n

(* made are the blocks of the first m lines, whose blocks are bb.          *)
IsSpan(bb, m, b, f, e) == \A k \in 1 .. m : bb[k] = b <=> f <= k /\ k <= e

Split(made, lines, bb, m) ==
  /\ made \in Seq(Seq(Int)) /\ Len(made) = bb[m] + 1
  /\ \A k \in 1 .. m : bb[k] <= bb[m]
  /\ \A c \in 1 .. Len(made) : \E f \in 1 .. m : \E e \in f .. m :
       /\ IsSpan(bb, m, c - 1, f, e)
       /\ Len(made[c]) = e - f + 1
       /\ \A j \in 1 .. e - f + 1 : made[c][j] = lines[f + j - 1]

LEMMA SplitFirst ==
  ASSUME NEW lines \in Seq(Int), NEW n \in Nat \ {0}, Len(lines) = n,
         NEW bb \in [1 .. n -> Nat], bb[1] = 0
  PROVE  Split(<<<<lines[1]>>>>, lines, bb, 1)
<1> DEFINE made == <<<<lines[1]>>>>
<1>1. lines[1] \in Int
  OBVIOUS
<1>2. made \in Seq(Seq(Int)) /\ Len(made) = 1 /\ made[1] = <<lines[1]>>
  BY <1>1
<1>3. Len(made[1]) = 1 /\ made[1][1] = lines[1]
  BY <1>2
<1> HIDE DEF made
<1>4. IsSpan(bb, 1, 0, 1, 1)
  BY DEF IsSpan
<1>5. \A k \in 1 .. 1 : bb[k] <= bb[1]
  OBVIOUS
<1>6. \A c \in 1 .. Len(made) : c = 1
  BY <1>2
<1>7. 1 \in 1 .. 1 /\ 1 - 1 = 0 /\ 1 - 1 + 1 = 1 /\ \A j \in 1 .. 1 : 1 + j - 1 = 1
  OBVIOUS
<1>8. ASSUME NEW c \in 1 .. Len(made)
      PROVE  \E f \in 1 .. 1 : \E e \in f .. 1 :
               /\ IsSpan(bb, 1, c - 1, f, e)
               /\ Len(made[c]) = e - f + 1
               /\ \A j \in 1 .. e - f + 1 : made[c][j] = lines[f + j - 1]
  <2>1. c = 1
    BY <1>6
  <2>2. /\ IsSpan(bb, 1, c - 1, 1, 1) /\ Len(made[c]) = 1 - 1 + 1
        /\ \A j \in 1 .. 1 - 1 + 1 : made[c][j] = lines[1 + j - 1]
    <3>1. \A j \in 1 .. 1 - 1 + 1 : j = 1 /\ 1 + j - 1 = 1
      OBVIOUS
    <3> QED
      BY <1>3, <1>4, <1>7, <2>1, <3>1
  <2>3. 1 \in 1 .. 1
    OBVIOUS
  <2> QED
    BY <2>2, <2>3
<1>9. Split(made, lines, bb, 1)
  BY <1>2, <1>5, <1>7, <1>8 DEF Split
<1> QED
  BY <1>9 DEF made

LEMMA SplitSame ==
  ASSUME NEW lines \in Seq(Int), NEW n \in Nat \ {0}, Len(lines) = n,
         NEW bb \in [1 .. n -> Nat], NEW p \in 1 .. n - 1, NEW made,
         Split(made, lines, bb, p), bb[p + 1] = bb[p]
  PROVE  Split([made EXCEPT ![Len(made)] = Append(@, lines[p + 1])], lines, bb, p + 1)
<1> DEFINE last == Len(made)
           m == p + 1
           block == Append(made[last], lines[m])
           new == [made EXCEPT ![last] = block]
<1>1. made \in Seq(Seq(Int)) /\ last = bb[p] + 1
  BY DEF Split
<1>2. p \in 1 .. n /\ m \in 1 .. n /\ lines[m] \in Int
  OBVIOUS
<1>3. bb[p] \in Nat /\ last \in Nat \ {0}
  <2>1. bb[p] \in Nat
    BY <1>2
  <2> QED
    BY <1>1, <2>1
<1>4. made[last] \in Seq(Int) /\ last \in 1 .. Len(made)
  <2>1. last \in 1 .. Len(made)
    BY <1>3
  <2> QED
    BY <1>1, <2>1, ElementOfSeq
<1>5. /\ block \in Seq(Int) /\ Len(block) = Len(made[last]) + 1
      /\ \A j \in 1 .. Len(made[last]) : block[j] = made[last][j]
      /\ block[Len(made[last]) + 1] = lines[m]
  <2> DEFINE b == made[last]
             l == lines[m]
  <2>1. b \in Seq(Int) /\ l \in Int
    BY <1>4, <1>2
  <2> HIDE DEF b, l
  <2>2. /\ Append(b, l) \in Seq(Int) /\ Len(Append(b, l)) = Len(b) + 1
        /\ \A j \in 1 .. Len(b) : Append(b, l)[j] = b[j]
        /\ Append(b, l)[Len(b) + 1] = l
    BY <2>1, AppendProperties
  <2> QED
    BY <2>2 DEF b, l
<1> HIDE DEF block
<1>6. /\ new \in Seq(Seq(Int)) /\ Len(new) = last /\ new[last] = block
      /\ \A c \in 1 .. last : c # last => new[c] = made[c]
  <2> DEFINE S == Seq(Int)
  <2>1. made \in Seq(S) /\ block \in S /\ last \in 1 .. Len(made)
    BY <1>1, <1>4, <1>5
  <2> HIDE DEF S
  <2>2. /\ new \in Seq(S) /\ Len(new) = Len(made)
        /\ \A c \in 1 .. Len(made) : new[c] = IF c = last THEN block ELSE made[c]
    BY <2>1, ExceptSeq
  <2> QED
    BY <2>1, <2>2 DEF S
<1> HIDE DEF new, m
<1>7. \A k \in 1 .. m : k \in 1 .. p \/ k = m
  BY DEF m
<1>8. bb[m] = bb[p] /\ m = p + 1 /\ bb[p] \in Nat
  BY DEF m
<1>9. \A k \in 1 .. m : bb[k] <= bb[m]
  <2>1. \A k \in 1 .. p : bb[k] <= bb[p]
    BY DEF Split
  <2> QED
    BY <1>7, <1>8, <2>1
<1>10. ASSUME NEW c \in 1 .. last
      PROVE  \E f \in 1 .. m : \E e \in f .. m :
               /\ IsSpan(bb, m, c - 1, f, e)
               /\ Len(new[c]) = e - f + 1
               /\ \A j \in 1 .. e - f + 1 : new[c][j] = lines[f + j - 1]
  <2>1. PICK f \in 1 .. p : \E e \in f .. p :
               /\ IsSpan(bb, p, c - 1, f, e)
               /\ Len(made[c]) = e - f + 1
               /\ \A j \in 1 .. e - f + 1 : made[c][j] = lines[f + j - 1]
    BY <1>10 DEF Split
  <2>2. PICK e \in f .. p :
               /\ IsSpan(bb, p, c - 1, f, e)
               /\ Len(made[c]) = e - f + 1
               /\ \A j \in 1 .. e - f + 1 : made[c][j] = lines[f + j - 1]
    BY <2>1
  <2>3. CASE c # last
    <3>1. bb[m] # c - 1
      BY <1>1, <1>8, <2>3
    <3>2. IsSpan(bb, m, c - 1, f, e)
      <4> SUFFICES ASSUME NEW k \in 1 .. m
                   PROVE  bb[k] = c - 1 <=> f <= k /\ k <= e
        BY DEF IsSpan
      <4>1. CASE k \in 1 .. p
        BY <2>2, <4>1 DEF IsSpan
      <4>2. CASE k = m
        BY <1>8, <3>1, <4>2
      <4> QED
        BY <1>7, <4>1, <4>2
    <3>3. f \in 1 .. m /\ e \in f .. m
      BY <1>8
    <3>4. new[c] = made[c]
      BY <1>6, <2>3
    <3> QED
      BY <2>2, <3>2, <3>3, <3>4
  <2>4. CASE c = last
    <3>1. bb[p] = c - 1 /\ p \in 1 .. p
      BY <1>1, <2>4
    <3>2. e = p
      BY <2>2, <3>1 DEF IsSpan
    <3>3. IsSpan(bb, m, c - 1, f, m)
      <4> SUFFICES ASSUME NEW k \in 1 .. m
                   PROVE  bb[k] = c - 1 <=> f <= k /\ k <= m
        BY DEF IsSpan
      <4>1. CASE k \in 1 .. p
        <5>1. bb[k] = c - 1 <=> f <= k /\ k <= p
          BY <2>2, <3>2, <4>1 DEF IsSpan
        <5> QED
          BY <1>8, <4>1, <5>1
      <4>2. CASE k = m
        BY <1>8, <3>1, <4>2
      <4> QED
        BY <1>7, <4>1, <4>2
    <3>4. f \in 1 .. m /\ m \in f .. m
      BY <1>8
    <3>5. Len(new[c]) = m - f + 1
      <4>1. new[c] = block /\ Len(block) = Len(made[c]) + 1
        BY <1>5, <1>6, <2>4
      <4>2. Len(made[c]) = p - f + 1
        BY <2>2, <3>2
      <4>3. (p - f + 1) + 1 = m - f + 1
        BY <1>8
      <4> QED
        BY <4>1, <4>2, <4>3
    <3>6. ASSUME NEW j \in 1 .. m - f + 1 PROVE new[c][j] = lines[f + j - 1]
      <4>1. CASE j \in 1 .. e - f + 1
        BY <1>5, <1>6, <2>2, <2>4, <4>1
      <4>2. CASE j \notin 1 .. e - f + 1
        <5>1. j = m - f + 1 /\ j = (e - f + 1) + 1 /\ f + j - 1 = m
          BY <1>8, <3>2, <4>2
        <5> QED
          BY <1>5, <1>6, <2>2, <2>4, <5>1
      <4> QED
        BY <4>1, <4>2
    <3> QED
      BY <3>3, <3>4, <3>5, <3>6
  <2> QED
    BY <2>3, <2>4
<1>11. Split(new, lines, bb, m)
  BY <1>1, <1>6, <1>8, <1>9, <1>10 DEF Split
<1> QED
  BY <1>11 DEF new, m, block

LEMMA SplitNext ==
  ASSUME NEW lines \in Seq(Int), NEW n \in Nat \ {0}, Len(lines) = n,
         NEW bb \in [1 .. n -> Nat], NEW p \in 1 .. n - 1, NEW made,
         Split(made, lines, bb, p), bb[p + 1] = bb[p] + 1
  PROVE  Split(Append(made, <<lines[p + 1]>>), lines, bb, p + 1)
<1> DEFINE last == Len(made)
           m == p + 1
           block == <<lines[m]>>
           new == Append(made, block)
<1>1. made \in Seq(Seq(Int)) /\ last = bb[p] + 1
  BY DEF Split
<1>2. p \in 1 .. n /\ m \in 1 .. n /\ lines[m] \in Int
  OBVIOUS
<1>3. bb[p] \in Nat /\ last \in Nat \ {0} /\ last = bb[p] + 1
  <2>1. bb[p] \in Nat
    BY <1>2
  <2> QED
    BY <1>1, <2>1
<1>4. block \in Seq(Int) /\ Len(block) = 1 /\ block[1] = lines[m]
  BY <1>2
<1> HIDE DEF block
<1>5. /\ new \in Seq(Seq(Int)) /\ Len(new) = last + 1 /\ new[last + 1] = block
      /\ \A c \in 1 .. last : new[c] = made[c]
  <2> DEFINE S == Seq(Int)
  <2>1. made \in Seq(S) /\ block \in S /\ last = Len(made)
    BY <1>1, <1>4
  <2> HIDE DEF S
  <2>2. /\ new \in Seq(S) /\ Len(new) = Len(made) + 1 /\ new[Len(made) + 1] = block
        /\ \A c \in 1 .. Len(made) : new[c] = made[c]
    BY <2>1, AppendProperties
  <2> QED
    BY <2>1, <2>2 DEF S
<1> HIDE DEF new, m
<1>6. \A k \in 1 .. m : k \in 1 .. p \/ k = m
  BY DEF m
<1>7. bb[m] = bb[p] + 1 /\ m = p + 1 /\ bb[p] \in Nat
  BY DEF m
<1>8. \A k \in 1 .. m : bb[k] <= bb[m] /\ (k # m => bb[k] < bb[m])
  <2>1. \A k \in 1 .. p : bb[k] \in Nat /\ bb[k] <= bb[p]
    BY DEF Split
  <2> QED
    BY <1>6, <1>7, <2>1
<1>9. ASSUME NEW c \in 1 .. last + 1
      PROVE  \E f \in 1 .. m : \E e \in f .. m :
               /\ IsSpan(bb, m, c - 1, f, e)
               /\ Len(new[c]) = e - f + 1
               /\ \A j \in 1 .. e - f + 1 : new[c][j] = lines[f + j - 1]
  <2>3. CASE c # last + 1
    <3>0. c \in 1 .. last
      BY <1>3, <2>3
    <3>1. PICK f \in 1 .. p : \E e \in f .. p :
               /\ IsSpan(bb, p, c - 1, f, e)
               /\ Len(made[c]) = e - f + 1
               /\ \A j \in 1 .. e - f + 1 : made[c][j] = lines[f + j - 1]
      BY <3>0 DEF Split
    <3>2. PICK e \in f .. p :
               /\ IsSpan(bb, p, c - 1, f, e)
               /\ Len(made[c]) = e - f + 1
               /\ \A j \in 1 .. e - f + 1 : made[c][j] = lines[f + j - 1]
      BY <3>1
    <3>3. bb[m] # c - 1
      BY <1>2, <1>3, <1>7, <2>3
    <3>4. IsSpan(bb, m, c - 1, f, e)
      <4> SUFFICES ASSUME NEW k \in 1 .. m
                   PROVE  bb[k] = c - 1 <=> f <= k /\ k <= e
        BY DEF IsSpan
      <4>1. CASE k \in 1 .. p
        BY <3>2, <4>1 DEF IsSpan
      <4>2. CASE k = m
        <5>1. ~(k <= e)
          BY <1>7, <4>2
        <5> QED
          BY <3>3, <4>2, <5>1
      <4> QED
        BY <1>6, <4>1, <4>2
    <3>5. f \in 1 .. m /\ e \in f .. m
      BY <1>7
    <3>6. new[c] = made[c]
      BY <1>5, <3>0
    <3> QED
      BY <3>2, <3>4, <3>5, <3>6
  <2>4. CASE c = last + 1
    <3>1. c - 1 = bb[m]
      BY <1>2, <1>3, <1>7, <2>4
    <3>2. IsSpan(bb, m, c - 1, m, m)
      <4>1. \A k \in 1 .. m : bb[k] = bb[m] <=> k = m
        <5> SUFFICES ASSUME NEW k \in 1 .. m PROVE bb[k] = bb[m] <=> k = m
          OBVIOUS
        <5>1. k \in 1 .. n
          BY <1>2
        <5>2. bb[k] \in Nat /\ bb[m] \in Nat
          BY <1>2, <5>1
        <5>3. CASE k # m
          <6>1. bb[k] < bb[m]
            BY <1>8, <5>3
          <6>2. bb[k] # bb[m]
            BY <5>2, <6>1
          <6> QED
            BY <5>3, <6>2
        <5>4. CASE k = m
          BY <5>4
        <5> QED
          BY <5>3, <5>4
      <4>2. \A k \in 1 .. m : k = m <=> m <= k /\ k <= m
        <5>1. m \in Nat
          BY <1>2
        <5> QED
          BY <5>1
      <4> QED
        BY <3>1, <4>1, <4>2 DEF IsSpan
    <3>3. m \in 1 .. m /\ m \in m .. m /\ m - m + 1 = 1
      BY <1>7
    <3>4. \A j \in 1 .. 1 : j = 1 /\ m + j - 1 = m
      BY <1>2
    <3>5. new[c] = block /\ Len(new[c]) = m - m + 1
      BY <1>4, <1>5, <2>4, <3>3
    <3>6. ASSUME NEW j \in 1 .. m - m + 1 PROVE new[c][j] = lines[m + j - 1]
      <4>1. j = 1 /\ m + j - 1 = m
        BY <3>3, <3>4
      <4> QED
        BY <1>4, <3>5, <4>1
    <3> QED
      BY <3>2, <3>3, <3>5, <3>6
  <2> QED
    BY <2>3, <2>4
<1>10. Split(new, lines, bb, m)
  <2>1. new \in Seq(Seq(Int)) /\ Len(new) = bb[m] + 1 /\ Len(new) = last + 1
    BY <1>5, <1>7, <1>3
  <2>2. \A k \in 1 .. m : bb[k] <= bb[m]
    BY <1>8
  <2> QED
    BY <1>9, <2>1, <2>2 DEF Split
<1> QED
  BY <1>10 DEF new, m, block

(* Ids count up from 0 without gaps.                                       *)
Rises(bb, n) ==
  /\ n \in Nat \ {0} /\ bb \in [1 .. n -> Nat] /\ bb[1] = 0
  /\ \A k \in 1 .. n - 1 : bb[k + 1] \in {bb[k], bb[k] + 1}

LEMMA BlocksOfSplits ==
  ASSUME NEW lines \in Seq(Int), NEW content, NEW bb, Rises(bb, Len(lines)),
         \A k \in 1 .. Len(lines) : bb[k] = content[lines[k]].bb
  PROVE  Split(BlocksOf(lines, content), lines, bb, Len(lines))
<1> DEFINE n == Len(lines)
<1>1. Len(lines) = n
  OBVIOUS
<1>2. PICK f : IsIndex(f, lines, content, n) /\ BlocksOf(lines, content) = f[n]
  <2>1. Len(lines) \in Nat
    OBVIOUS
  <2> QED
    BY <2>1, BlocksOfByLines
<1>3. /\ n \in Nat \ {0} /\ bb \in [1 .. n -> Nat] /\ bb[1] = 0
      /\ \A k \in 1 .. n - 1 : bb[k + 1] \in {bb[k], bb[k] + 1}
  BY DEF Rises
<1> HIDE DEF n
<1>4. /\ f[0] = <<>>
      /\ \A m \in 1 .. n : f[m] = Grown(f[m - 1], lines, content, m)
  <2>1. 0 \in 0 .. n /\ \A m \in 1 .. n : m \in 0 .. n /\ m # 0
    BY <1>3
  <2> QED
    BY <1>2, <2>1 DEF IsIndex
<1>5. \A k \in 1 .. n : bb[k] = content[lines[k]].bb
  BY DEF n
<1>6. Split(f[1], lines, bb, 1)
  <2>1. f[1] = Grown(f[0], lines, content, 1)
    <3>1. 1 \in 1 .. n /\ 1 - 1 = 0
      BY <1>3
    <3> QED
      BY <1>4, <3>1
  <2>2. f[1] = Append(<<>>, <<lines[1]>>)
    BY <1>4, <2>1 DEF Grown
  <2>3. f[1] = <<<<lines[1]>>>>
    BY <2>2
  <2> QED
    BY <1>3, <2>3, SplitFirst DEF n
<1>7. ASSUME NEW p \in 1 .. n - 1, Split(f[p], lines, bb, p)
      PROVE  Split(f[p + 1], lines, bb, p + 1)
  <2>1. p \in 1 .. n /\ p + 1 \in 1 .. n /\ p + 1 > 1 /\ p + 1 - 1 = p
    BY <1>3
  <2> DEFINE made == f[p]
             m == p + 1
  <2>2. /\ f[m] = Grown(made, lines, content, m) /\ Split(made, lines, bb, p)
        /\ m > 1 /\ content[lines[m]].bb = bb[m] /\ content[lines[m - 1]].bb = bb[p]
        /\ bb[p] \in Nat /\ m = p + 1
    <3>1. f[m] = Grown(made, lines, content, m) /\ Split(made, lines, bb, p)
      <4>1. m \in 1 .. n /\ m - 1 = p
        BY <2>1
      <4>2. f[m] = Grown(f[m - 1], lines, content, m)
        BY <1>4, <4>1
      <4> QED
        BY <1>7, <4>1, <4>2
    <3>2. content[lines[m]].bb = bb[m] /\ content[lines[m - 1]].bb = bb[p]
      <4>1. m \in 1 .. n /\ m - 1 = p
        BY <2>1
      <4> HIDE DEF m
      <4> QED
        BY <1>5, <2>1, <4>1
    <3>3. m > 1 /\ bb[p] \in Nat
      BY <1>3, <2>1
    <3> QED
      BY <3>1, <3>2, <3>3
  <2> HIDE DEF made, m
  <2>3. CASE bb[m] = bb[p]
    <3>1. f[m] = [made EXCEPT ![Len(made)] = Append(@, lines[m])]
      <4>1. m > 1 /\ content[lines[m]].bb = content[lines[m - 1]].bb
        BY <2>2, <2>3
      <4>2. Grown(made, lines, content, m) = [made EXCEPT ![Len(made)] = Append(@, lines[m])]
        BY <4>1, Zenon DEF Grown
      <4> QED
        BY <2>2, <4>2
    <3>2. Split([made EXCEPT ![Len(made)] = Append(@, lines[p + 1])], lines, bb, p + 1)
      BY <1>1, <1>3, <2>2, <2>3, SplitSame
    <3> QED
      BY <2>2, <3>1, <3>2
  <2>4. CASE bb[m] = bb[p] + 1
    <3>1. bb[m] # bb[p]
      BY <2>2, <2>4
    <3>2. f[m] = Append(made, <<lines[m]>>)
      <4>1. content[lines[m]].bb # content[lines[m - 1]].bb
        BY <2>2, <3>1
      <4>2. Grown(made, lines, content, m) = Append(made, <<lines[m]>>)
        BY <4>1, Zenon DEF Grown
      <4> QED
        BY <2>2, <4>2
    <3>3. Split(Append(made, <<lines[p + 1]>>), lines, bb, p + 1)
      BY <1>1, <1>3, <2>2, <2>4, SplitNext
    <3> QED
      BY <2>2, <3>2, <3>3
  <2>5. bb[m] = bb[p] \/ bb[m] = bb[p] + 1
    BY <1>3, <2>2
  <2> QED
    BY <2>2, <2>3, <2>4, <2>5
<1> DEFINE T == {m \in 1 .. n : ~Split(f[m], lines, bb, m)}
<1>8. T = {}
  <2> SUFFICES ASSUME T # {} PROVE FALSE
    OBVIOUS
  <2>1. T \in SUBSET Nat
    BY <1>3
  <2>2. PICK m \in T : \A y \in T : m <= y
    <3> HIDE DEF T
    <3> QED
      BY <2>1, Least
  <2>3. m \in 1 .. n /\ ~Split(f[m], lines, bb, m)
    BY <2>2
  <2>4. m # 1
    BY <1>6, <2>3
  <2> DEFINE p == m - 1
  <2>5. p \in 1 .. n - 1 /\ p \in 1 .. n /\ p + 1 = m /\ ~(m <= p)
    BY <1>3, <2>3, <2>4
  <2> HIDE DEF p
  <2>6. Split(f[p], lines, bb, p)
    BY <2>2, <2>5
  <2>7. Split(f[p + 1], lines, bb, p + 1)
    BY <1>7, <2>5, <2>6
  <2> QED
    BY <2>3, <2>5, <2>7
<1>9. n \in 1 .. n
  BY <1>3
<1> QED
  BY <1>2, <1>8, <1>9 DEF n

-----------------------------------------------------------------------------
(* The invariant.                                                          *)

size == Len(source)
total == Len(codeLines)

bbs == [k \in 1 .. total |-> line[codeLines[k]].bb]

Shaped(l) ==
  /\ DOMAIN l = {"op", "target", "arg1", "arg2", "bb"}
  /\ l.bb \in Nat

TypeOK ==
  /\ InBlocks(source)
  /\ 1 .. size \subseteq DOMAIN line /\ DOMAIN line \subseteq Int
  /\ \A i \in DOMAIN line : i \in 1 .. size \/ i < 0
  /\ codeLines \in Seq(Int) /\ \A k \in 1 .. total : codeLines[k] \in DOMAIN line
  /\ blockNo \in Nat /\ currentPos \in Nat /\ numInserted \in Nat /\ todo \in Seq(Int)
  /\ DOMAIN tempVarAssign \subseteq Int
  /\ phase \in {"visit", "update", "done"}

(* Lines keep their block, and only expressions become copies.             *)
LinesKept ==
  /\ \A i \in DOMAIN line : Shaped(line[i])
  /\ \A i \in 1 .. size :
       line[i].bb = source[i].bb /\ (line[i].op \in Jumps <=> source[i].op \in Jumps)
  /\ \A i \in DOMAIN line : i < 0 => line[i].op \notin Jumps

Ordered ==
  /\ \A i \in 1 .. size : \E n \in 1 .. total : codeLines[n] = i
  /\ \A n, m \in 1 .. total :
       n < m /\ codeLines[n] > 0 /\ codeLines[m] > 0 => codeLines[n] < codeLines[m]

(* The code is made of as many blocks as the source.                       *)
Numbered ==
  /\ total >= size + numInserted
  /\ Len(blocks) = source[size].bb + 1
  /\ bbs[1] = 0 /\ bbs[total] = source[size].bb
  /\ \A k \in 1 .. total - 1 :
       \/ bbs[k + 1] = bbs[k] + 1
       \/ bbs[k + 1] = bbs[k] /\ line[codeLines[k]].op \notin Jumps

(* Lines f to e of the source are block number b.                          *)
SourceSpan(b, f, e) ==
  /\ f \in 1 .. size /\ e \in f .. size
  /\ \A i \in 1 .. size : source[i].bb = b - 1 <=> f <= i /\ i <= e

(* Nothing was inserted behind line i of the source.                       *)
Untouched(i) == \A j \in i .. size : codeLines[total - size + j] = j

(* The copies to come are of lines from f to e.                            *)
CopiesOf(f, e) ==
  \A t \in DOMAIN tempVarAssign :
    /\ tempVarAssign[t].position = -t
    /\ f <= -t /\ -t <= e /\ source[-t].op \notin Jumps

Visits ==
  phase = "visit" =>
    \E f, e \in 1 .. size :
      /\ SourceSpan(blockNo, f, e)
      /\ f <= currentPos + 1 /\ currentPos + Len(todo) = e
      /\ \A k \in 1 .. Len(todo) : todo[k] = currentPos + k
      /\ Untouched(f)
      /\ \A k \in 1 .. total - size + f - 1 : bbs[k] < blockNo - 1
      /\ CopiesOf(f, currentPos)

Updates ==
  phase = "update" =>
    \E f, e \in 1 .. size :
      /\ SourceSpan(blockNo, f, e)
      /\ currentPos = e /\ todo = <<>>
      /\ Untouched(e + 1)
      /\ \A k \in 1 .. total - size + e : bbs[k] <= blockNo - 1
      /\ CopiesOf(f, e)

Finished == phase = "done" => currentPos = size /\ todo = <<>>

Inv == TypeOK /\ LinesKept /\ Ordered /\ Numbered /\ Visits /\ Updates /\ Finished

(* What the ids of the source are like.                                    *)
LEMMA SourceFacts ==
  ASSUME InBlocks(source)
  PROVE  /\ size \in Nat \ {0} /\ source[1].bb = 0
         /\ \A i \in 1 .. size : source[i] \in Line /\ source[i].bb \in Nat
         /\ \A i \in 1 .. size - 1 :
              \/ source[i + 1].bb = source[i].bb + 1
              \/ source[i + 1].bb = source[i].bb /\ source[i].op \notin Jumps
<1>1. source \in Seq(Line) /\ source # <<>> /\ source[1].bb = 0
  BY DEF InBlocks
<1>2. size \in Nat \ {0} /\ \A i \in 1 .. size : source[i] \in Line
  BY <1>1 DEF size
<1>3. \A i \in 1 .. size : source[i].bb \in Nat
  BY <1>2 DEF Line
<1> QED
  BY <1>1, <1>2, <1>3 DEF InBlocks, size

LEMMA CodeFacts ==
  ASSUME TypeOK, LinesKept, Numbered
  PROVE  /\ size \in Nat \ {0} /\ total \in Nat \ {0} /\ total - size \in Nat
         /\ bbs \in [1 .. total -> Nat]
         /\ Rises(bbs, total)
         /\ \A k \in 1 .. total : bbs[k] = line[codeLines[k]].bb
         /\ \A i \in 1 .. size : source[i].bb \in Nat
<1>1. size \in Nat \ {0} /\ \A i \in 1 .. size : source[i].bb \in Nat
  BY SourceFacts DEF TypeOK
<1>2. total \in Nat /\ numInserted \in Nat
  BY DEF TypeOK, total
<1>3. total >= size + numInserted
  BY DEF Numbered
<1>4. \A k \in 1 .. total : bbs[k] = line[codeLines[k]].bb /\ bbs[k] \in Nat
  BY DEF TypeOK, LinesKept, Shaped, bbs
<1>5. bbs \in [1 .. total -> Nat]
  BY <1>4 DEF bbs
<1>6. Rises(bbs, total)
  <2>1. total \in Nat \ {0}
    BY <1>1, <1>2, <1>3
  <2>2. bbs[1] = 0 /\ \A k \in 1 .. total - 1 : bbs[k + 1] \in {bbs[k], bbs[k] + 1}
    BY DEF Numbered
  <2> QED
    BY <1>5, <2>1, <2>2 DEF Rises
<1> QED
  BY <1>1, <1>2, <1>3, <1>4, <1>5, <1>6

(* Blocks of the code: as many as there are ids, with their lines.         *)
LEMMA BlocksAre ==
  ASSUME TypeOK, LinesKept, Numbered
  PROVE  Split(BlocksOf(codeLines, line), codeLines, bbs, total)
<1>1. codeLines \in Seq(Int) /\ total = Len(codeLines)
  BY DEF TypeOK, total
<1>2. Rises(bbs, Len(codeLines))
      /\ \A k \in 1 .. Len(codeLines) : bbs[k] = line[codeLines[k]].bb
  BY <1>1, CodeFacts
<1> QED
  BY <1>1, <1>2, BlocksOfSplits

LEMMA InitInv == Init => Inv
<1> SUFFICES ASSUME Init PROVE Inv
  OBVIOUS
<1>1. InBlocks(source)
  BY SourcesAssumption DEF Init
<1>2. /\ size \in Nat \ {0} /\ source[1].bb = 0
      /\ \A i \in 1 .. size : source[i] \in Line /\ source[i].bb \in Nat
      /\ \A i \in 1 .. size - 1 :
           \/ source[i + 1].bb = source[i].bb + 1
           \/ source[i + 1].bb = source[i].bb /\ source[i].op \notin Jumps
  BY <1>1, SourceFacts
<1>3. /\ line = source /\ codeLines = [i \in 1 .. size |-> i]
      /\ blocks = BlocksOf(codeLines, line) /\ blockNo = 1 /\ todo = blocks[1]
      /\ currentPos = 0 /\ tempVarAssign = <<>> /\ numInserted = 0 /\ phase = "visit"
  BY DEF Init, size
<1>4. DOMAIN line = 1 .. size /\ line \in Seq(Line)
  BY <1>1, <1>3 DEF InBlocks, size
<1>5. /\ codeLines \in Seq(Int) /\ total = size
      /\ \A k \in 1 .. total : codeLines[k] = k
  BY <1>2, <1>3 DEF total
<1>6. \A k \in 1 .. total : bbs[k] = source[k].bb
  BY <1>3, <1>5 DEF bbs
<1>7. bbs \in [1 .. total -> Nat] /\ Rises(bbs, total)
  <2>1. bbs \in [1 .. total -> Nat]
    BY <1>2, <1>5, <1>6 DEF bbs
  <2>2. ASSUME NEW k \in 1 .. total - 1 PROVE bbs[k + 1] \in {bbs[k], bbs[k] + 1}
    <3>1. k \in 1 .. size - 1 /\ k \in 1 .. total /\ k + 1 \in 1 .. total
      BY <1>2, <1>5
    <3>2. bbs[k] = source[k].bb /\ bbs[k + 1] = source[k + 1].bb
      BY <1>6, <3>1
    <3> QED
      BY <1>2, <3>1, <3>2
  <2>3. total \in Nat \ {0} /\ 1 \in 1 .. total
    BY <1>2, <1>5
  <2>4. bbs[1] = 0
    BY <1>2, <1>6, <2>3
  <2> QED
    BY <2>1, <2>2, <2>3, <2>4 DEF Rises
<1>8. Split(blocks, codeLines, bbs, total)
  <2>1. Rises(bbs, Len(codeLines))
        /\ \A k \in 1 .. Len(codeLines) : bbs[k] = line[codeLines[k]].bb
    BY <1>3, <1>5, <1>6, <1>7 DEF total
  <2> QED
    BY <1>3, <1>5, <2>1, BlocksOfSplits DEF total
<1>9. /\ blocks \in Seq(Seq(Int)) /\ Len(blocks) = source[size].bb + 1
      /\ 1 \in 1 .. Len(blocks)
  BY <1>2, <1>5, <1>6, <1>8 DEF Split
<1>10. TypeOK
  <2>1. todo \in Seq(Int)
    BY <1>3, <1>9
  <2>2. DOMAIN tempVarAssign = {}
    BY <1>3
  <2> QED
    BY <1>1, <1>3, <1>4, <1>5, <2>1, <2>2 DEF TypeOK
<1>11. LinesKept
  <2>1. \A i \in 1 .. size : Shaped(line[i])
    BY <1>2, <1>3 DEF Shaped, Line
  <2>2. \A i \in 1 .. size : ~(i < 0)
    OBVIOUS
  <2> QED
    BY <1>3, <1>4, <2>1, <2>2 DEF LinesKept
<1>12. Ordered
  BY <1>5 DEF Ordered
<1>13. Numbered
  <2>1. 1 \in 1 .. total /\ total \in 1 .. total
    BY <1>2, <1>5
  <2>2. bbs[1] = 0 /\ bbs[total] = source[size].bb
    BY <1>2, <1>5, <1>6, <2>1
  <2>3. \A k \in 1 .. total - 1 : k \in 1 .. total /\ k + 1 \in 1 .. total /\ codeLines[k] = k
    BY <1>2, <1>5
  <2> QED
    BY <1>2, <1>3, <1>5, <1>6, <1>9, <2>2, <2>3 DEF Numbered
<1>14. Visits
  <2>1. PICK f \in 1 .. total : \E e \in f .. total :
               /\ IsSpan(bbs, total, 1 - 1, f, e)
               /\ Len(blocks[1]) = e - f + 1
               /\ \A j \in 1 .. e - f + 1 : blocks[1][j] = codeLines[f + j - 1]
    BY <1>8, <1>9 DEF Split
  <2>2. PICK e \in f .. total :
               /\ IsSpan(bbs, total, 1 - 1, f, e)
               /\ Len(blocks[1]) = e - f + 1
               /\ \A j \in 1 .. e - f + 1 : blocks[1][j] = codeLines[f + j - 1]
    BY <2>1
  <2>3. f = 1
    BY <1>2, <1>5, <1>6, <2>2 DEF IsSpan
  <2>4. SourceSpan(blockNo, 1, e)
    <3>1. blockNo - 1 = 1 - 1 /\ 1 \in 1 .. size /\ e \in 1 .. size
      BY <1>2, <1>3, <1>5, <2>3
    <3>2. ASSUME NEW i \in 1 .. size
          PROVE  source[i].bb = blockNo - 1 <=> 1 <= i /\ i <= e
      <4>1. i \in 1 .. total /\ bbs[i] = source[i].bb
        BY <1>5, <1>6
      <4>2. bbs[i] = 1 - 1 <=> 1 <= i /\ i <= e
        BY <2>2, <2>3, <4>1 DEF IsSpan
      <4> QED
        BY <3>1, <4>1, <4>2
    <3> QED
      BY <3>1, <3>2 DEF SourceSpan
  <2>5. /\ 1 <= currentPos + 1 /\ currentPos + Len(todo) = e
        /\ \A k \in 1 .. Len(todo) : todo[k] = currentPos + k
    <3>1. Len(todo) = e /\ e \in 1 .. size
      BY <1>2, <1>3, <1>5, <2>2, <2>3
    <3>2. currentPos = 0
      BY <1>3
    <3>3. ASSUME NEW k \in 1 .. Len(todo) PROVE todo[k] = currentPos + k
      <4>0. k \in 1 .. e /\ e \in 1 .. total /\ total \in Nat
        BY <1>2, <1>5, <3>1
      <4>1. k \in 1 .. e - f + 1 /\ f + k - 1 = k /\ k \in 1 .. total
        BY <2>3, <4>0
      <4>2. todo[k] = codeLines[f + k - 1]
        BY <1>3, <2>2, <4>1
      <4> QED
        BY <1>5, <3>2, <4>1, <4>2
    <3>4. 1 <= currentPos + 1 /\ currentPos + Len(todo) = e
      BY <3>1, <3>2
    <3> QED
      BY <3>3, <3>4
  <2>6. Untouched(1)
    <3>1. \A j \in 1 .. size : j \in 1 .. total /\ total - size + j = j
      BY <1>2, <1>5
    <3> QED
      BY <1>5, <3>1 DEF Untouched
  <2>7. \A k \in 1 .. total - size + 1 - 1 : bbs[k] < blockNo - 1
    BY <1>2, <1>5
  <2>8. CopiesOf(1, currentPos)
    BY <1>3 DEF CopiesOf
  <2>9. 1 \in 1 .. size /\ e \in 1 .. size
    BY <1>2, <1>5, <2>3
  <2> QED
    BY <2>4, <2>5, <2>6, <2>7, <2>8, <2>9 DEF Visits
<1>15. Updates /\ Finished
  BY <1>3 DEF Updates, Finished
<1> QED
  BY <1>10, <1>11, <1>12, <1>13, <1>14, <1>15 DEF Inv

-----------------------------------------------------------------------------
(* Visiting a line.                                                        *)
LEMMA HeadFacts ==
  ASSUME Inv, Visiting
  PROVE  /\ Head(todo) = currentPos + 1 /\ Head(todo) \in 1 .. size
         /\ Head(todo) \in DOMAIN line /\ Len(todo) \in Nat \ {0}
<1>1. phase = "visit" /\ todo \in Seq(Int) /\ todo # <<>>
  BY DEF Inv, TypeOK, Visiting
<1>2. Len(todo) \in Nat \ {0} /\ Head(todo) = todo[1]
  BY <1>1
<1>3. PICK e \in 1 .. size :
        /\ currentPos + Len(todo) = e
        /\ \A k \in 1 .. Len(todo) : todo[k] = currentPos + k
  BY <1>1 DEF Inv, Visits
<1>4. currentPos \in Nat /\ 1 .. size \subseteq DOMAIN line
  BY DEF Inv, TypeOK
<1>5. 1 \in 1 .. Len(todo)
  BY <1>2
<1>6. Head(todo) = currentPos + 1
  BY <1>2, <1>3, <1>5
<1>7. size \in Nat
  BY SourceFacts DEF Inv, TypeOK
<1>8. currentPos + 1 \in 1 .. size
  BY <1>2, <1>3, <1>4, <1>7
<1> QED
  BY <1>2, <1>4, <1>6, <1>8

(* A visit changes neither blocks nor jumps, and plans at most a copy of   *)
(* the line visited.                                                       *)
SameShape ==
  /\ DOMAIN line' = DOMAIN line
  /\ \A i \in DOMAIN line :
       /\ Shaped(line'[i]) /\ line'[i].bb = line[i].bb
       /\ line'[i].op \in Jumps <=> line[i].op \in Jumps

PlansHere ==
  \A t \in DOMAIN tempVarAssign' :
    \/ t \in DOMAIN tempVarAssign
       /\ tempVarAssign'[t].position = tempVarAssign[t].position
    \/ /\ t = -Head(todo) /\ tempVarAssign'[t].position = currentPos + 1
       /\ This.op \notin Jumps

LEMMA VisitStep == Inv /\ Visiting /\ Step /\ SameShape /\ PlansHere => Inv'
<1> SUFFICES ASSUME Inv, Visiting, Step, SameShape, PlansHere PROVE Inv'
  OBVIOUS
<1>1. /\ todo' = Tail(todo) /\ currentPos' = currentPos + 1
      /\ source' = source /\ codeLines' = codeLines /\ blocks' = blocks
      /\ blockNo' = blockNo /\ numInserted' = numInserted /\ phase' = phase
      /\ size' = size /\ total' = total
  BY DEF Step, nextPos, size, total
<1>2. /\ Head(todo) = currentPos + 1 /\ Head(todo) \in 1 .. size
      /\ Head(todo) \in DOMAIN line /\ Len(todo) \in Nat \ {0}
  BY HeadFacts
<1>3. phase = "visit" /\ todo \in Seq(Int) /\ todo # <<>>
  BY DEF Inv, TypeOK, Visiting
<1>4. /\ todo' \in Seq(Int) /\ Len(todo') = Len(todo) - 1
      /\ \A k \in 1 .. Len(todo') : todo'[k] = todo[k + 1]
  BY <1>1, <1>3
<1>5. /\ size \in Nat \ {0} /\ total \in Nat \ {0} /\ total - size \in Nat
      /\ \A k \in 1 .. total : bbs[k] = line[codeLines[k]].bb
  BY CodeFacts DEF Inv
<1>6. \A k \in 1 .. total : codeLines[k] \in DOMAIN line
  BY DEF Inv, TypeOK
<1>7. bbs' = bbs
  BY <1>1, <1>6 DEF bbs, SameShape
<1>8. \A t \in DOMAIN tempVarAssign' : t \in Int
  BY <1>2 DEF PlansHere, Inv, TypeOK
<1>9. TypeOK'
  <2>1. currentPos' \in Nat
    BY <1>1 DEF Inv, TypeOK
  <2> QED
    BY <1>1, <1>4, <1>8, <2>1 DEF Inv, TypeOK, SameShape
<1>10. LinesKept'
  BY <1>1 DEF Inv, LinesKept, SameShape, TypeOK
<1>11. Ordered'
  BY <1>1 DEF Inv, Ordered
<1>12. Numbered'
  <2>1. \A k \in 1 .. total - 1 :
          \/ bbs[k + 1] = bbs[k] + 1
          \/ bbs[k + 1] = bbs[k] /\ line'[codeLines[k]].op \notin Jumps
    <3>1. \A k \in 1 .. total - 1 : k \in 1 .. total
      BY <1>5
    <3> QED
      BY <1>6, <3>1 DEF Inv, Numbered, SameShape
  <2> QED
    BY <1>1, <1>7, <2>1 DEF Inv, Numbered
<1>13. Visits'
  <2>1. PICK f \in 1 .. size : \E e \in 1 .. size :
          /\ SourceSpan(blockNo, f, e)
          /\ f <= currentPos + 1 /\ currentPos + Len(todo) = e
          /\ \A k \in 1 .. Len(todo) : todo[k] = currentPos + k
          /\ Untouched(f)
          /\ \A k \in 1 .. total - size + f - 1 : bbs[k] < blockNo - 1
          /\ CopiesOf(f, currentPos)
    BY <1>3 DEF Inv, Visits
  <2>2. PICK e \in 1 .. size :
          /\ SourceSpan(blockNo, f, e)
          /\ f <= currentPos + 1 /\ currentPos + Len(todo) = e
          /\ \A k \in 1 .. Len(todo) : todo[k] = currentPos + k
          /\ Untouched(f)
          /\ \A k \in 1 .. total - size + f - 1 : bbs[k] < blockNo - 1
          /\ CopiesOf(f, currentPos)
    BY <2>1
  <2>3. SourceSpan(blockNo, f, e)' /\ Untouched(f)'
    BY <1>1, <2>2 DEF SourceSpan, Untouched
  <2>4. currentPos \in Nat
    BY DEF Inv, TypeOK
  <2>5. f <= currentPos' + 1 /\ currentPos' + Len(todo') = e
    BY <1>1, <1>2, <1>4, <2>2, <2>4
  <2>6. ASSUME NEW k \in 1 .. Len(todo') PROVE todo'[k] = currentPos' + k
    <3>1. k + 1 \in 1 .. Len(todo)
      BY <1>2, <1>4
    <3> QED
      BY <1>1, <1>4, <2>2, <2>4, <3>1
  <2>7. CopiesOf(f, currentPos)'
    <3> SUFFICES ASSUME NEW t \in DOMAIN tempVarAssign'
                 PROVE  /\ tempVarAssign'[t].position = -t
                        /\ f <= -t /\ -t <= currentPos + 1 /\ source[-t].op \notin Jumps
      BY <1>1 DEF CopiesOf
    <3>1. CASE t \in DOMAIN tempVarAssign
               /\ tempVarAssign'[t].position = tempVarAssign[t].position
      <4>1. t \in Int
        BY <1>8
      <4> QED
        BY <2>2, <2>4, <3>1, <4>1 DEF CopiesOf
    <3>2. CASE /\ t = -Head(todo) /\ tempVarAssign'[t].position = currentPos + 1
               /\ This.op \notin Jumps
      <4>1. -t = currentPos + 1 /\ -t \in 1 .. size
        BY <1>2, <2>4, <3>2
      <4>2. source[-t].op \notin Jumps
        BY <1>2, <3>2, <4>1 DEF This, Inv, LinesKept
      <4> QED
        BY <2>2, <2>4, <3>2, <4>1, <4>2
    <3> QED
      BY <3>1, <3>2 DEF PlansHere
  <2>8. \A k \in 1 .. total' - size' + f - 1 : bbs'[k] < blockNo' - 1
    BY <1>1, <1>7, <2>2
  <2>9. f \in 1 .. size' /\ e \in 1 .. size'
    BY <1>1
  <2> QED
    BY <2>3, <2>5, <2>6, <2>7, <2>8, <2>9 DEF Visits
<1>14. Updates' /\ Finished'
  BY <1>1, <1>3 DEF Updates, Finished
<1> QED
  BY <1>9, <1>10, <1>11, <1>12, <1>13, <1>14 DEF Inv

LEMMA RewriteShape ==
  ASSUME Inv, Visiting, This.op \notin Jumps, NEW value, updateTriple(value)
  PROVE  SameShape
<1> DEFINE h == Head(todo)
           new == [line[h] EXCEPT !.op = "ASSIGN", !.arg1 = Variable(This.target),
                                  !.arg2 = value]
<1>1. h \in DOMAIN line
  BY HeadFacts
<1>2. line' = [line EXCEPT ![h] = new]
  BY DEF updateTriple
<1>3. \A i \in DOMAIN line : Shaped(line[i])
  BY DEF Inv, LinesKept
<1>4. /\ DOMAIN new = DOMAIN line[h] /\ new.bb = line[h].bb
      /\ new.op = "ASSIGN"
  BY <1>1, <1>3 DEF Shaped
<1>5. Shaped(new) /\ new.op \notin Jumps
  BY <1>1, <1>3, <1>4 DEF Shaped, Jumps
<1>6. line[h].op \notin Jumps
  BY DEF This
<1> HIDE DEF new, h
<1>7. DOMAIN line' = DOMAIN line
  BY <1>2
<1>8. \A i \in DOMAIN line : line'[i] = IF i = h THEN new ELSE line[i]
  BY <1>2
<1> QED
  BY <1>1, <1>3, <1>4, <1>5, <1>6, <1>7, <1>8 DEF SameShape

LEMMA KeepsShape ==
  ASSUME Inv, UNCHANGED line
  PROVE  SameShape
BY DEF SameShape, Inv, LinesKept

LEMMA KeepsPlans ==
  ASSUME UNCHANGED tempVarAssign
  PROVE  PlansHere
BY DEF PlansHere

LEMMA VisitingInv ==
  Inv /\ (reuseValue \/ foldConstants \/ addTempVar \/ passBy) => Inv'
<1> SUFFICES ASSUME Inv, reuseValue \/ foldConstants \/ addTempVar \/ passBy
             PROVE  Inv'
  OBVIOUS
<1>1. IsBinary(This) => This.op \notin Jumps
  BY DEF IsBinary, Jumps
<1>2. CASE reuseValue
  <2>1. Visiting /\ Step /\ IsBinary(This) /\ UNCHANGED tempVarAssign
        /\ updateTriple(valueMap[Key(This)])
    BY <1>2 DEF reuseValue, InTable
  <2>2. SameShape
    BY <1>1, <2>1, RewriteShape
  <2>3. PlansHere
    BY <2>1, KeepsPlans
  <2> QED
    BY <2>1, <2>2, <2>3, VisitStep
<1>3. CASE foldConstants
  <2>1. Visiting /\ Step /\ IsBinary(This) /\ UNCHANGED tempVarAssign
        /\ updateTriple(IntLiteral(This.arg1.literal + This.arg2.literal))
    BY <1>3 DEF foldConstants
  <2>2. SameShape
    BY <1>1, <2>1, RewriteShape
  <2>3. PlansHere
    BY <2>1, KeepsPlans
  <2> QED
    BY <2>1, <2>2, <2>3, VisitStep
<1>4. CASE addTempVar
  <2>1. /\ Visiting /\ Step /\ IsBinary(This) /\ UNCHANGED line
        /\ tempVarAssign' =
             Enter(tempVarAssign, -Head(todo),
                   [variable |-> This.target, position |-> insertBehind])
    BY <1>4 DEF addTempVar
  <2>2. SameShape
    BY <2>1, KeepsShape
  <2>3. PlansHere
    <3> DEFINE t == -Head(todo)
               r == [variable |-> This.target, position |-> insertBehind]
    <3>1. r.position = currentPos + 1
      BY DEF insertBehind
    <3> HIDE DEF r, t
    <3>2. tempVarAssign' = Enter(tempVarAssign, t, r)
      BY <2>1 DEF r, t
    <3>3. \A k \in DOMAIN tempVarAssign' :
             IF k \in DOMAIN tempVarAssign
             THEN tempVarAssign'[k] = tempVarAssign[k]
             ELSE k = t /\ tempVarAssign'[k] = r
      BY <3>2 DEF Enter
    <3> QED
      BY <1>1, <2>1, <3>1, <3>3 DEF PlansHere, t
  <2> QED
    BY <2>1, <2>2, <2>3, VisitStep
<1>5. CASE passBy
  <2>1. Visiting /\ Step /\ UNCHANGED line /\ UNCHANGED tempVarAssign
    BY <1>5 DEF passBy, tables
  <2> QED
    BY <2>1, KeepsShape, KeepsPlans, VisitStep
<1> QED
  BY <1>2, <1>3, <1>4, <1>5

(* Tac: the block is behind the iterator when its copies are inserted.     *)
LEMMA UpdateTacInv == Inv /\ updateTac => Inv'
<1> SUFFICES ASSUME Inv, updateTac PROVE Inv'
  OBVIOUS
<1>1. /\ phase = "visit" /\ todo = <<>> /\ phase' = "update" /\ numInserted' = 0
      /\ source' = source /\ line' = line /\ codeLines' = codeLines /\ blocks' = blocks
      /\ blockNo' = blockNo /\ todo' = todo /\ currentPos' = currentPos
      /\ tempVarAssign' = tempVarAssign
      /\ size' = size /\ total' = total /\ bbs' = bbs
  BY DEF updateTac, position, tables, size, total, bbs
<1>2. /\ size \in Nat \ {0} /\ total \in Nat \ {0} /\ total - size \in Nat
      /\ bbs \in [1 .. total -> Nat] /\ Rises(bbs, total)
      /\ \A k \in 1 .. total : bbs[k] = line[codeLines[k]].bb
  BY CodeFacts DEF Inv
<1>3. TypeOK' /\ LinesKept' /\ Ordered'
  BY <1>1 DEF Inv, TypeOK, LinesKept, Ordered
<1>4. Numbered'
  <2>1. total' >= size' + numInserted'
    BY <1>1, <1>2
  <2> QED
    BY <1>1, <2>1 DEF Inv, Numbered
<1>5. Updates'
  <2>1. PICK f \in 1 .. size : \E e \in 1 .. size :
          /\ SourceSpan(blockNo, f, e)
          /\ f <= currentPos + 1 /\ currentPos + Len(todo) = e
          /\ Untouched(f)
          /\ \A k \in 1 .. total - size + f - 1 : bbs[k] < blockNo - 1
          /\ CopiesOf(f, currentPos)
    BY <1>1 DEF Inv, Visits
  <2>2. PICK e \in 1 .. size :
          /\ SourceSpan(blockNo, f, e)
          /\ f <= currentPos + 1 /\ currentPos + Len(todo) = e
          /\ Untouched(f)
          /\ \A k \in 1 .. total - size + f - 1 : bbs[k] < blockNo - 1
          /\ CopiesOf(f, currentPos)
    BY <2>1
  <2>3. currentPos \in Nat /\ blockNo \in Nat
    BY DEF Inv, TypeOK
  <2>4. currentPos = e
    BY <1>1, <2>2, <2>3
  <2>5. SourceSpan(blockNo, f, e)' /\ CopiesOf(f, e)'
    BY <1>1, <2>2, <2>4 DEF SourceSpan, CopiesOf
  <2>6. f <= e /\ f \in 1 .. e
    BY <2>2 DEF SourceSpan
  <2>7. Untouched(e + 1)'
    <3>1. \A j \in e + 1 .. size : j \in f .. size
      BY <2>6, <1>2
    <3> QED
      BY <1>1, <2>2, <3>1 DEF Untouched
  <2>8. ASSUME NEW k \in 1 .. total - size + e PROVE bbs[k] <= blockNo - 1
    <3>1. CASE k \in 1 .. total - size + f - 1
      <4>1. k \in 1 .. total /\ bbs[k] < blockNo - 1
        BY <1>2, <2>2, <2>6, <3>1
      <4> QED
        BY <1>2, <2>3, <4>1
    <3>2. CASE k \notin 1 .. total - size + f - 1
      <4> DEFINE j == k - (total - size)
      <4>1. j \in f .. e /\ j \in 1 .. size /\ total - size + j = k /\ k \in 1 .. total
        BY <1>2, <2>6, <3>2
      <4>2. codeLines[k] = j
        BY <2>2, <4>1 DEF Untouched
      <4> HIDE DEF j
      <4>3. bbs[k] = source[j].bb
        BY <1>2, <4>1, <4>2 DEF Inv, LinesKept
      <4>4. source[j].bb = blockNo - 1
        BY <2>2, <4>1 DEF SourceSpan
      <4> QED
        BY <2>3, <4>3, <4>4
    <3> QED
      BY <3>1, <3>2
  <2>9. f \in 1 .. size' /\ e \in 1 .. size'
        /\ \A k \in 1 .. total' - size' + e : bbs'[k] <= blockNo' - 1
    BY <1>1, <2>8
  <2> QED
    BY <1>1, <2>4, <2>5, <2>7, <2>9 DEF Updates
<1>6. Visits' /\ Finished'
  BY <1>1 DEF Visits, Finished
<1> QED
  BY <1>3, <1>4, <1>5, <1>6 DEF Inv

-----------------------------------------------------------------------------
(* Inserting a copy.                                                       *)

(* Where the copy of t goes: into the code up to the end of the block that *)
(* was visited, which is followed by a jump only inside of it.             *)
LEMMA InsertionPlace ==
  ASSUME Inv, phase = "update", NEW t \in DOMAIN tempVarAssign,
         NEW f \in 1 .. size, NEW e \in 1 .. size,
         SourceSpan(blockNo, f, e), Untouched(e + 1),
         \A k \in 1 .. total - size + e : bbs[k] <= blockNo - 1,
         CopiesOf(f, e)
  PROVE  LET at == tempVarAssign[t].position + numInserted
             next == blockBehind(line[codeLines[at]])
         IN /\ at \in 1 .. total - size + e /\ at \in 1 .. total
            /\ next \in Nat /\ next <= blockNo - 1
            /\ \/ next = bbs[at] /\ line[codeLines[at]].op \notin Jumps
               \/ next = bbs[at] + 1
            /\ at < total => bbs[at + 1] \in {next, next + 1}
            /\ at = total => next = bbs[at]
            /\ t \in Int /\ t < 0
<1> DEFINE at == tempVarAssign[t].position + numInserted
           d == codeLines[at]
           next == blockBehind(line[d])
           last == total - size + e
<1>1. /\ size \in Nat \ {0} /\ total \in Nat \ {0} /\ total - size \in Nat
      /\ bbs \in [1 .. total -> Nat]
      /\ \A k \in 1 .. total : bbs[k] = line[codeLines[k]].bb
  BY CodeFacts DEF Inv
<1>2. /\ t \in Int /\ numInserted \in Nat /\ numInserted <= total - size /\ blockNo \in Nat
  <2>1. t \in Int /\ numInserted \in Nat /\ blockNo \in Nat
    BY DEF Inv, TypeOK
  <2>2. total >= size + numInserted
    BY DEF Inv, Numbered
  <2> QED
    BY <1>1, <2>1, <2>2
<1>3. at = -t + numInserted /\ f <= -t /\ -t <= e /\ source[-t].op \notin Jumps
  BY DEF CopiesOf
<1> HIDE DEF at
<1>4. at \in 1 .. last /\ at \in 1 .. total /\ last \in 1 .. total /\ t < 0
  <2>1. e \in 1 .. size /\ f \in 1 .. size
    BY DEF SourceSpan
  <2>2. /\ e \in Nat /\ f \in Nat /\ f >= 1 /\ e >= 1 /\ e <= size
        /\ size \in Nat /\ total \in Nat /\ t \in Int /\ numInserted \in Nat
    BY <1>1, <1>2, <2>1
  <2>3. -t >= 1 /\ -t <= e
    BY <1>3, <2>2
  <2>4. last \in Int /\ last <= total /\ numInserted + e <= last
    BY <1>2, <2>2
  <2>5. at \in Int /\ at >= 1 /\ at <= numInserted + e
    BY <1>3, <2>2, <2>3
  <2>6. t < 0
    BY <2>2, <2>3
  <2> QED
    BY <2>2, <2>4, <2>5, <2>6
<1>5. d \in DOMAIN line
  BY <1>4 DEF Inv, TypeOK
<1>6. bbs[at] = line[d].bb /\ bbs[at] \in Nat
  BY <1>1, <1>4
<1> HIDE DEF d, next
<1>7. CASE line[d].op \notin Jumps
  <2>1. next = bbs[at]
    BY <1>6, <1>7 DEF next, blockBehind
  <2>2. next <= blockNo - 1
    BY <1>4, <2>1
  <2>3. at < total => bbs[at + 1] \in {next, next + 1}
    <3> SUFFICES ASSUME at < total PROVE bbs[at + 1] \in {next, next + 1}
      OBVIOUS
    <3>1. at \in 1 .. total - 1
      BY <1>1, <1>4
    <3> QED
      BY <2>1, <3>1 DEF Inv, Numbered
  <2> QED
    BY <1>2, <1>4, <1>6, <1>7, <2>1, <2>2, <2>3 DEF d, next, at
<1>8. CASE line[d].op \in Jumps
  <2>1. next = bbs[at] + 1
    BY <1>6, <1>8 DEF next, blockBehind
  <2>2. d \in 1 .. size
    BY <1>5, <1>8 DEF Inv, TypeOK, LinesKept
  <2>3. source[d].op \in Jumps
    BY <1>8, <2>2 DEF Inv, LinesKept
  <2>4. at # last
    <3> SUFFICES ASSUME at = last PROVE FALSE
      OBVIOUS
    <3>0. -t = e
      <4>1. -t + numInserted = (total - size) + e
        BY <1>3
      <4>2. e \in 1 .. size /\ total - size \in Nat /\ size \in Nat
        BY <1>1
      <4> HIDE DEF last
      <4> QED
        BY <1>2, <1>3, <4>1, <4>2
    <3>1. -t = e /\ source[e].op \notin Jumps
      BY <1>3, <3>0
    <3>2. d # e
      BY <2>3, <3>1
    <3>3. PICK n \in 1 .. total : codeLines[n] = e
      BY DEF Inv, Ordered
    <3>4. \A j \in e + 1 .. size : codeLines[total - size + j] = j
      BY DEF Untouched
    <3>5. n <= last
      <4> SUFFICES ASSUME n > last PROVE FALSE
        BY <1>1
      <4>0. n \in 1 .. total /\ e \in 1 .. size /\ n > total - size + e
        OBVIOUS
      <4>1. n - (total - size) \in e + 1 .. size
            /\ total - size + (n - (total - size)) = n
        <5> HIDE DEF last
        <5> QED
          BY <1>1, <4>0
      <4>2. codeLines[n] = n - (total - size)
        BY <3>4, <4>1
      <4> QED
        BY <1>1, <3>3, <4>1, <4>2
    <3>6. n # last
      BY <3>2, <3>3 DEF d
    <3>7. codeLines[last] = d /\ d > 0 /\ n < last /\ codeLines[n] > 0
      BY <1>1, <2>2, <3>3, <3>5, <3>6 DEF d
    <3>8. e < d
      BY <1>4, <3>3, <3>7 DEF Inv, Ordered
    <3>9. d \in e + 1 .. size
      BY <1>1, <2>2, <3>8
    <3>10. codeLines[total - size + d] = d
      BY <3>4, <3>9
    <3>11. last < total - size + d /\ total - size + d \in 1 .. total
      BY <1>1, <2>2, <3>8
    <3>12. codeLines[last] < codeLines[total - size + d]
      BY <1>4, <3>7, <3>10, <3>11 DEF Inv, Ordered
    <3> QED
      BY <2>2, <3>7, <3>10, <3>12
  <2>5. at \in 1 .. total - 1 /\ at + 1 \in 1 .. last
    BY <1>1, <1>4, <2>4
  <2>6. bbs[at + 1] = bbs[at] + 1
    BY <1>8, <2>5 DEF Inv, Numbered, d
  <2>7. next <= blockNo - 1 /\ next \in Nat
    BY <1>6, <2>1, <2>5, <2>6
  <2> QED
    BY <1>2, <1>4, <2>1, <2>5, <2>6, <2>7 DEF d, next, at
<1> QED
  BY <1>7, <1>8

LEMMA CopyInv ==
  ASSUME Inv, NEW t \in Pending, addTempVarAssignment(t)
  PROVE  Inv'
<1> DEFINE at == tempVarAssign[t].position + numInserted
           next == blockBehind(line[codeLines[at]])
           copy == [op |-> "ASSIGN", target |-> t, arg1 |-> Variable(t),
                    arg2 |-> Variable(tempVarAssign[t].variable), bb |-> next]
           p == at + 1
<1>1. /\ phase = "update"
      /\ line' = Enter(line, t, copy)
      /\ codeLines' = InsertAt(codeLines, p, t)
      /\ numInserted' = numInserted + 1
      /\ source' = source /\ blocks' = blocks /\ phase' = phase /\ blockNo' = blockNo
      /\ todo' = todo /\ currentPos' = currentPos /\ tempVarAssign' = tempVarAssign
      /\ size' = size
  BY DEF addTempVarAssignment, position, tables, size
<1>2. t \in DOMAIN tempVarAssign /\ t \notin DOMAIN line
  BY DEF Pending
<1>3. PICK f \in 1 .. size : \E e \in 1 .. size :
        /\ SourceSpan(blockNo, f, e)
        /\ currentPos = e /\ todo = <<>>
        /\ Untouched(e + 1)
        /\ \A k \in 1 .. total - size + e : bbs[k] <= blockNo - 1
        /\ CopiesOf(f, e)
  BY <1>1 DEF Inv, Updates
<1>4. PICK e \in 1 .. size :
        /\ SourceSpan(blockNo, f, e)
        /\ currentPos = e /\ todo = <<>>
        /\ Untouched(e + 1)
        /\ \A k \in 1 .. total - size + e : bbs[k] <= blockNo - 1
        /\ CopiesOf(f, e)
  BY <1>3
<1> DEFINE last == total - size + e
<1>5. /\ at \in 1 .. last /\ at \in 1 .. total
      /\ next \in Nat /\ next <= blockNo - 1
      /\ \/ next = bbs[at] /\ line[codeLines[at]].op \notin Jumps
         \/ next = bbs[at] + 1
      /\ at < total => bbs[at + 1] \in {next, next + 1}
      /\ at = total => next = bbs[at]
      /\ t \in Int /\ t < 0
  BY <1>1, <1>2, <1>4, InsertionPlace
<1>6. /\ DOMAIN copy = {"op", "target", "arg1", "arg2", "bb"}
      /\ copy.bb = next /\ copy.op = "ASSIGN" /\ copy.op \notin Jumps
  BY DEF Jumps
<1> HIDE DEF copy, next, at
<1>7. /\ DOMAIN line' = DOMAIN line \cup {t} /\ line'[t] = copy
      /\ \A i \in DOMAIN line : line'[i] = line[i]
  BY <1>1, <1>2 DEF Enter
<1>8. /\ size \in Nat \ {0} /\ total \in Nat \ {0} /\ total - size \in Nat
      /\ bbs \in [1 .. total -> Nat]
      /\ \A k \in 1 .. total : bbs[k] = line[codeLines[k]].bb
  BY CodeFacts DEF Inv
<1>9. /\ codeLines \in Seq(Int) /\ Len(codeLines) = total
      /\ \A k \in 1 .. total : codeLines[k] \in DOMAIN line
  BY DEF Inv, TypeOK, total
<1>10. at \in 1 .. total /\ p = at + 1 /\ p \in 1 .. total + 1
  BY <1>5, <1>8
<1> HIDE DEF p
<1>11. /\ codeLines' \in Seq(Int) /\ total' = total + 1
       /\ \A k \in 1 .. total + 1 :
            codeLines'[k] = IF k < p THEN codeLines[k]
                            ELSE IF k = p THEN t ELSE codeLines[k - 1]
  <2>1. p \in 1 .. Len(codeLines) + 1 /\ t \in Int
    BY <1>5, <1>9, <1>10
  <2>3. codeLines \in Seq(Int)
    BY <1>9
  <2>2. LET r == InsertAt(codeLines, p, t)
        IN /\ r \in Seq(Int) /\ Len(r) = Len(codeLines) + 1
           /\ \A k \in 1 .. Len(codeLines) + 1 :
                r[k] = IF k < p THEN codeLines[k]
                       ELSE IF k = p THEN t ELSE codeLines[k - 1]
    BY <2>1, <2>3, Inserted
  <2> QED
    BY <1>1, <1>9, <2>2 DEF total
<1>12. \A k \in 1 .. total + 1 :
         /\ k < p => k \in 1 .. total
         /\ ~(k < p) /\ k # p => k - 1 \in 1 .. total
  BY <1>8, <1>10
<1>13. \A k \in 1 .. total + 1 : codeLines'[k] \in DOMAIN line'
  BY <1>7, <1>9, <1>11, <1>12
<1>14. ASSUME NEW k \in 1 .. total + 1
       PROVE  bbs'[k] = IF k < p THEN bbs[k] ELSE IF k = p THEN next ELSE bbs[k - 1]
  <2>1. bbs'[k] = line'[codeLines'[k]].bb
    BY <1>11 DEF bbs
  <2>2. CASE k < p
    BY <1>7, <1>8, <1>9, <1>11, <1>12, <2>1, <2>2
  <2>3. CASE k = p
    <3>1. codeLines'[k] = t
      BY <1>10, <1>11, <2>3
    <3>2. ~(k < p)
      BY <1>10, <2>3
    <3> QED
      BY <1>6, <1>7, <2>1, <2>3, <3>1, <3>2
  <2>4. CASE ~(k < p) /\ k # p
    <3>1. codeLines'[k] = codeLines[k - 1] /\ k - 1 \in 1 .. total
      BY <1>11, <1>12, <2>4
    <3> DEFINE j == k - 1
    <3>2. j \in 1 .. total /\ codeLines'[k] = codeLines[j]
      BY <3>1
    <3> HIDE DEF j
    <3>3. codeLines[j] \in DOMAIN line /\ bbs[j] = line[codeLines[j]].bb
      BY <1>9, <3>2 DEF bbs
    <3>4. bbs'[k] = bbs[j]
      BY <1>7, <2>1, <3>2, <3>3
    <3> QED
      BY <2>4, <3>4 DEF j
  <2> QED
    BY <2>2, <2>3, <2>4
<1>15. TypeOK'
  <2>1. numInserted' \in Nat
    BY <1>1 DEF Inv, TypeOK
  <2>2. \A i \in DOMAIN line' : i \in Int /\ (i \in 1 .. size \/ i < 0)
    BY <1>5, <1>7 DEF Inv, TypeOK
  <2> QED
    BY <1>1, <1>7, <1>11, <1>13, <2>1, <2>2 DEF Inv, TypeOK
<1>16. LinesKept'
  <2>1. Shaped(copy)
    BY <1>5, <1>6 DEF Shaped
  <2>2. \A i \in DOMAIN line' : Shaped(line'[i])
    BY <1>7, <2>1 DEF Inv, LinesKept
  <2>3. \A i \in 1 .. size : line'[i] = line[i]
    BY <1>7 DEF Inv, TypeOK
  <2>4. \A i \in DOMAIN line' : i < 0 => line'[i].op \notin Jumps
    BY <1>6, <1>7 DEF Inv, LinesKept
  <2> QED
    BY <1>1, <2>2, <2>3, <2>4 DEF Inv, LinesKept
<1>17. Ordered'
  <2>1. ASSUME NEW i \in 1 .. size PROVE \E n \in 1 .. total + 1 : codeLines'[n] = i
    <3>1. PICK n \in 1 .. total : codeLines[n] = i
      BY DEF Inv, Ordered
    <3>2. CASE n < p
      <4>1. n \in 1 .. total + 1
        BY <1>8
      <4> QED
        BY <1>11, <3>1, <3>2, <4>1
    <3>3. CASE ~(n < p)
      <4>1. n + 1 \in 1 .. total + 1 /\ ~(n + 1 < p) /\ n + 1 # p /\ n + 1 - 1 = n
        BY <1>8, <1>10, <3>3
      <4> QED
        BY <1>11, <3>1, <4>1
    <3> QED
      BY <3>2, <3>3
  <2>2. ASSUME NEW n \in 1 .. total + 1, NEW m \in 1 .. total + 1, n < m,
               codeLines'[n] > 0, codeLines'[m] > 0
        PROVE  codeLines'[n] < codeLines'[m]
    <3> DEFINE old(k) == IF k < p THEN k ELSE k - 1
    <3>1. n # p /\ m # p
      <4>1. codeLines'[p] = t /\ ~(t > 0)
        <5>1. p \in 1 .. total + 1 /\ ~(p < p)
          BY <1>8, <1>10
        <5> QED
          BY <1>5, <1>11, <5>1
      <4> QED
        BY <2>2, <4>1
    <3>2. old(n) \in 1 .. total /\ old(m) \in 1 .. total /\ old(n) < old(m)
      BY <1>8, <1>10, <2>2, <3>1
    <3>3. codeLines'[n] = codeLines[old(n)] /\ codeLines'[m] = codeLines[old(m)]
      BY <1>11, <3>1
    <3> HIDE DEF old
    <3> QED
      BY <2>2, <3>2, <3>3 DEF Inv, Ordered
  <2> QED
    BY <1>1, <1>11, <2>1, <2>2 DEF Ordered
<1>18. Numbered'
  <2>1. total + 1 >= size + (numInserted + 1)
    <3>1. numInserted \in Nat /\ total >= size + numInserted
      BY DEF Inv, TypeOK, Numbered
    <3> QED
      BY <1>8, <3>1
  <2>2. bbs'[1] = 0
    <3>1. 1 \in 1 .. total + 1 /\ 1 < p
      BY <1>8, <1>10
    <3> QED
      BY <1>14, <3>1 DEF Inv, Numbered
  <2>3. bbs'[total + 1] = source[size].bb
    <3>1. bbs[total] = source[size].bb
      BY DEF Inv, Numbered
    <3>2. total + 1 \in 1 .. total + 1 /\ ~(total + 1 < p) /\ total + 1 - 1 = total
      BY <1>8, <1>10
    <3>3. CASE p = total + 1
      <4>1. at = total
        BY <1>8, <1>10, <3>3
      <4> QED
        <5>1. total + 1 = p
          BY <3>3
        <5>2. bbs'[total + 1] = next
          BY <1>14, <3>2, <5>1
        <5>3. next = bbs[total]
          BY <1>5, <4>1
        <5> QED
          BY <3>1, <5>2, <5>3
    <3>4. CASE p # total + 1
      <4> DEFINE k == total + 1
      <4>1. k \in 1 .. total + 1 /\ ~(k < p) /\ k # p /\ k - 1 = total
        BY <1>8, <1>10, <3>2, <3>4
      <4> HIDE DEF k
      <4>2. bbs'[k] = bbs[k - 1]
        BY <1>14, <4>1
      <4>3. bbs'[k] = source[size].bb
        BY <3>1, <4>1, <4>2
      <4> QED
        BY <4>3 DEF k
    <3> QED
      BY <3>3, <3>4
  <2>4. ASSUME NEW k \in 1 .. total
        PROVE  \/ bbs'[k + 1] = bbs'[k] + 1
               \/ bbs'[k + 1] = bbs'[k] /\ line'[codeLines'[k]].op \notin Jumps
    <3>0. k \in 1 .. total + 1 /\ k + 1 \in 1 .. total + 1 /\ k + 1 - 1 = k
      BY <1>8
    <3>1. CASE k < at
      <4>1. k \in 1 .. total - 1 /\ k < p /\ k + 1 < p
        BY <1>8, <1>10, <3>1
      <4>2. bbs'[k] = bbs[k] /\ bbs'[k + 1] = bbs[k + 1] /\ codeLines'[k] = codeLines[k]
        BY <1>11, <1>14, <3>0, <4>1
      <4>3. line'[codeLines[k]] = line[codeLines[k]]
        BY <1>7, <1>9
      <4> QED
        BY <4>1, <4>2, <4>3 DEF Inv, Numbered
    <3>2. CASE k = at
      <4>1. k < p /\ k + 1 = p /\ ~(k + 1 < p)
        BY <1>8, <1>10, <3>2
      <4>2. bbs'[k] = bbs[at] /\ bbs'[k + 1] = next /\ codeLines'[k] = codeLines[at]
        BY <1>11, <1>14, <3>0, <3>2, <4>1
      <4>3. line'[codeLines[at]] = line[codeLines[at]]
        BY <1>5, <1>7, <1>9
      <4> QED
        BY <1>5, <4>2, <4>3
    <3>3. CASE k = p
      <4>1. ~(k < p) /\ ~(k + 1 < p) /\ k + 1 # p /\ k = at + 1 /\ at < total
        BY <1>8, <1>10, <3>3
      <4>2. bbs'[k] = next /\ bbs'[k + 1] = bbs[at + 1] /\ codeLines'[k] = t
        BY <1>11, <1>14, <3>0, <3>3, <4>1
      <4>3. line'[t].op \notin Jumps
        BY <1>6, <1>7
      <4> QED
        BY <1>5, <4>1, <4>2, <4>3
    <3>4. CASE k > p
      <4> DEFINE j == k - 1
      <4>1. j \in 1 .. total - 1 /\ j + 1 = k /\ ~(k < p) /\ ~(k + 1 < p) /\ k + 1 # p /\ k # p
        BY <1>8, <1>10, <3>4
      <4>2. bbs'[k] = bbs[j] /\ bbs'[k + 1] = bbs[k] /\ codeLines'[k] = codeLines[j]
        BY <1>11, <1>14, <3>0, <4>1
      <4> HIDE DEF j
      <4>3. line'[codeLines[j]] = line[codeLines[j]]
        <5>1. j \in 1 .. total
          BY <1>8, <4>1
        <5> QED
          BY <1>7, <1>9, <5>1
      <4>4. \/ bbs[j + 1] = bbs[j] + 1
            \/ bbs[j + 1] = bbs[j] /\ line[codeLines[j]].op \notin Jumps
        BY <4>1 DEF Inv, Numbered
      <4> QED
        BY <4>1, <4>2, <4>3, <4>4
    <3> QED
      BY <1>8, <1>10, <3>1, <3>2, <3>3, <3>4
  <2>5. total' - 1 = total
    BY <1>8, <1>11
  <2> QED
    BY <1>1, <1>11, <2>1, <2>2, <2>3, <2>4, <2>5 DEF Inv, Numbered
<1>19. Updates'
  <2>1. SourceSpan(blockNo, f, e)' /\ CopiesOf(f, e)'
    BY <1>1, <1>4 DEF SourceSpan, CopiesOf
  <2>2. Untouched(e + 1)'
    <3> SUFFICES ASSUME NEW j \in e + 1 .. size
                 PROVE  codeLines'[total + 1 - size + j] = j
      <4>1. total' = total + 1 /\ size' = size
        BY <1>1, <1>11
      <4> QED
        BY <1>8, <4>1 DEF Untouched
    <3> DEFINE k == total + 1 - size + j
    <3>1. k \in 1 .. total + 1 /\ ~(k < p) /\ k # p /\ k - 1 = total - size + j
      <4>1. e \in 1 .. size /\ at <= total - size + e
        BY <1>5
      <4> QED
        BY <1>8, <1>10, <4>1
    <3>2. codeLines[total - size + j] = j
      BY <1>4 DEF Untouched
    <3> HIDE DEF k
    <3>3. codeLines'[k] = j
      BY <1>11, <3>1, <3>2
    <3> QED
      BY <3>3 DEF k
  <2>3. ASSUME NEW k \in 1 .. total + 1 - size + e PROVE bbs'[k] <= blockNo - 1
    <3>0. at <= total - size + e /\ e \in 1 .. size
      BY <1>5
    <3>1. k \in 1 .. total + 1
      BY <1>8, <3>0
    <3>2. CASE k < p
      <4>1. k \in 1 .. total - size + e
        BY <1>8, <1>10, <3>0, <3>2
      <4> QED
        BY <1>4, <1>14, <3>1, <3>2, <4>1
    <3>3. CASE k = p
      <4>1. ~(k < p)
        BY <1>10, <3>3
      <4> QED
        BY <1>5, <1>14, <3>1, <3>3, <4>1
    <3>4. CASE ~(k < p) /\ k # p
      <4>1. k - 1 \in 1 .. total - size + e
        BY <1>8, <1>10, <3>0, <3>4
      <4> QED
        BY <1>4, <1>14, <3>1, <3>4, <4>1
    <3> QED
      BY <3>2, <3>3, <3>4
  <2>4. currentPos' = e /\ todo' = <<>> /\ f \in 1 .. size' /\ e \in 1 .. size'
        /\ \A k \in 1 .. total' - size' + e : bbs'[k] <= blockNo' - 1
    <3>1. total' = total + 1 /\ size' = size /\ blockNo' = blockNo
      BY <1>1, <1>11
    <3> QED
      BY <1>1, <1>4, <1>8, <2>3, <3>1
  <2> QED
    BY <2>1, <2>2, <2>4 DEF Updates
<1>20. Visits' /\ Finished'
  BY <1>1 DEF Visits, Finished
<1> QED
  BY <1>15, <1>16, <1>17, <1>18, <1>19, <1>20 DEF Inv

-----------------------------------------------------------------------------
(* The end of a block: as many blocks as before, and the next one is the   *)
(* rest of the source up to the next change of ids.                        *)
LEMMA RebuildInv == Inv /\ rebuild => Inv'
<1> SUFFICES ASSUME Inv, rebuild PROVE Inv'
  OBVIOUS
<1>1. /\ phase = "update"
      /\ blocks' = BlocksOf(codeLines, line)
      /\ phase' = IF Len(blocks') # Len(blocks) THEN "undefined"
                  ELSE IF blockNo = Len(blocks) THEN "done" ELSE "visit"
      /\ blockNo' = blockNo + 1
      /\ todo' = IF phase' = "visit" THEN blocks'[blockNo'] ELSE <<>>
      /\ tempVarAssign' = <<>>
      /\ source' = source /\ line' = line /\ codeLines' = codeLines
      /\ currentPos' = currentPos /\ numInserted' = numInserted
      /\ size' = size /\ total' = total /\ bbs' = bbs
  BY DEF rebuild, size, total, bbs
<1>2. Split(blocks', codeLines, bbs, total)
  BY <1>1, BlocksAre DEF Inv
<1>3. /\ size \in Nat \ {0} /\ total \in Nat \ {0} /\ total - size \in Nat
      /\ bbs \in [1 .. total -> Nat]
      /\ \A k \in 1 .. total : bbs[k] = line[codeLines[k]].bb
      /\ \A i \in 1 .. size : source[i].bb \in Nat
  BY CodeFacts DEF Inv
<1>4. /\ Len(blocks) = source[size].bb + 1 /\ bbs[total] = source[size].bb
      /\ Len(blocks') = Len(blocks) /\ blocks' \in Seq(Seq(Int))
      /\ \A k \in 1 .. total : bbs[k] <= bbs[total]
  BY <1>2 DEF Split, Inv, Numbered
<1>5. phase' = IF blockNo = Len(blocks) THEN "done" ELSE "visit"
  BY <1>1, <1>4
<1>6. PICK f \in 1 .. size : \E e \in 1 .. size :
        /\ SourceSpan(blockNo, f, e)
        /\ currentPos = e /\ Untouched(e + 1)
        /\ \A k \in 1 .. total - size + e : bbs[k] <= blockNo - 1
  BY <1>1 DEF Inv, Updates
<1>7. PICK e \in 1 .. size :
        /\ SourceSpan(blockNo, f, e)
        /\ currentPos = e /\ Untouched(e + 1)
        /\ \A k \in 1 .. total - size + e : bbs[k] <= blockNo - 1
  BY <1>6
<1> DEFINE D == total - size
<1>8. D \in Nat /\ D + size = total /\ blockNo \in Nat
  BY <1>3 DEF Inv, TypeOK
<1>9. \A k \in 1 .. D + e : bbs[k] <= blockNo - 1
  BY <1>7
<1>10. \A j \in e + 1 .. size : codeLines[D + j] = j
  BY <1>7 DEF Untouched
<1> HIDE DEF D
<1>11. source[e].bb = blockNo - 1 /\ (size <= e <=> source[size].bb = blockNo - 1)
  <2>1. f <= e /\ f <= size /\ size \in 1 .. size
    BY <1>3, <1>7 DEF SourceSpan
  <2>2. source[e].bb = blockNo - 1 <=> f <= e /\ e <= e
    BY <1>7 DEF SourceSpan
  <2>3. source[size].bb = blockNo - 1 <=> f <= size /\ size <= e
    BY <1>7, <2>1 DEF SourceSpan
  <2> QED
    BY <2>1, <2>2, <2>3
<1>12. ASSUME NEW i \in 1 .. size
       PROVE  \E n \in 1 .. total :
                /\ bbs[n] = source[i].bb
                /\ (IF i <= e THEN n <= D + e ELSE n = D + i)
  <2>1. CASE i <= e
    <3>1. PICK n \in 1 .. total : codeLines[n] = i
      BY DEF Inv, Ordered
    <3>2. n <= D + e
      <4> SUFFICES ASSUME n > D + e PROVE FALSE
        BY <1>8
      <4> DEFINE j == n - D
      <4>1. j \in e + 1 .. size /\ D + j = n
        BY <1>3, <1>8
      <4>2. codeLines[n] = j
        BY <1>10, <4>1
      <4> QED
        BY <2>1, <3>1, <4>1, <4>2
    <3>3. bbs[n] = source[i].bb
      BY <1>3, <3>1 DEF Inv, LinesKept
    <3> QED
      BY <2>1, <3>2, <3>3
  <2>2. CASE ~(i <= e)
    <3> DEFINE n == D + i
    <3>1. i \in e + 1 .. size /\ n \in 1 .. total
      BY <1>3, <1>8, <2>2
    <3>2. codeLines[n] = i
      BY <1>10, <3>1
    <3>3. n = D + i
      OBVIOUS
    <3> HIDE DEF n
    <3>4. bbs[n] = source[i].bb
      BY <1>3, <3>1, <3>2 DEF Inv, LinesKept
    <3> QED
      BY <2>2, <3>1, <3>3, <3>4
  <2> QED
    BY <2>1, <2>2
<1>13. blockNo - 1 <= source[size].bb
  <2>1. PICK n \in 1 .. total : bbs[n] = source[e].bb
    BY <1>12
  <2> QED
    BY <1>4, <1>11, <2>1
<1>14. LinesKept' /\ Ordered'
  BY <1>1 DEF Inv, LinesKept, Ordered
<1>15. Numbered'
  BY <1>1, <1>4 DEF Inv, Numbered
<1>16. ASSUME todo' \in Seq(Int) PROVE TypeOK'
  <2>1. DOMAIN tempVarAssign' = {}
    BY <1>1
  <2>2. blockNo' \in Nat
    BY <1>1, <1>8
  <2>3. phase' \in {"visit", "update", "done"}
    BY <1>5
  <2> QED
    BY <1>1, <1>16, <2>1, <2>2, <2>3 DEF Inv, TypeOK
<1>17. Updates'
  BY <1>5 DEF Updates
<1>18. CASE blockNo = Len(blocks)
  <2>1. phase' = "done" /\ todo' = <<>>
    BY <1>1, <1>5, <1>18
  <2>2. size <= e
    <3>1. source[size].bb = blockNo - 1
      <4>1. size \in 1 .. size
        BY <1>3
      <4> QED
        BY <1>3, <1>4, <1>18, <4>1
    <3> QED
      BY <1>11, <3>1
  <2>3. currentPos' = size'
    BY <1>1, <1>3, <1>7, <2>2
  <2>4. todo' \in Seq(Int)
    BY <2>1
  <2> QED
    BY <1>14, <1>15, <1>16, <1>17, <2>1, <2>3, <2>4 DEF Inv, Visits, Finished
<1>19. CASE blockNo # Len(blocks)
  <2>1. phase' = "visit" /\ todo' = blocks'[blockNo + 1]
    BY <1>1, <1>5, <1>19
  <2> DEFINE b == blockNo + 1
  <2>2. source[size].bb # blockNo - 1 /\ source[size].bb \in Nat
    <3>1. size \in 1 .. size
      BY <1>3
    <3> QED
      BY <1>3, <1>4, <1>8, <1>19, <3>1
  <2>3. e \in 1 .. size - 1 /\ e + 1 \in 1 .. size
    BY <1>3, <1>11, <2>2
  <2>0. PICK s \in 1 .. size : s = e + 1
    BY <2>3
  <2>4. b \in 1 .. Len(blocks') /\ b - 1 = blockNo
    <3>1. blockNo - 1 < source[size].bb
      BY <1>8, <1>13, <2>2
    <3>2. b \in Nat /\ b - 1 = blockNo /\ b >= 1
      BY <1>8
    <3>3. Len(blocks') = source[size].bb + 1
      BY <1>4
    <3> QED
      BY <1>8, <2>2, <3>1, <3>2, <3>3
  <2> HIDE DEF b
  <2>5. PICK F \in 1 .. total : \E E \in F .. total :
          /\ IsSpan(bbs, total, b - 1, F, E)
          /\ Len(blocks'[b]) = E - F + 1
          /\ \A j \in 1 .. E - F + 1 : blocks'[b][j] = codeLines[F + j - 1]
    BY <1>2, <2>4 DEF Split
  <2>6. PICK E \in F .. total :
          /\ IsSpan(bbs, total, b - 1, F, E)
          /\ Len(blocks'[b]) = E - F + 1
          /\ \A j \in 1 .. E - F + 1 : blocks'[b][j] = codeLines[F + j - 1]
    BY <2>5
  <2>7. \A k \in 1 .. total : bbs[k] = blockNo <=> F <= k /\ k <= E
    BY <2>4, <2>6 DEF IsSpan
  <2>8. source[s].bb = blockNo
    <3>1. source[s].bb # blockNo - 1
      <4>1. source[s].bb = blockNo - 1 <=> f <= s /\ s <= e
        BY <1>7, <2>0, <2>3 DEF SourceSpan
      <4> QED
        BY <2>0, <2>3, <4>1
    <3>2. \/ source[e + 1].bb = source[e].bb + 1
          \/ source[e + 1].bb = source[e].bb
      BY <2>0, <2>3, SourceFacts DEF Inv, TypeOK
    <3> QED
      BY <1>8, <1>11, <2>0, <3>1, <3>2
  <2>9. D + s \in 1 .. total /\ bbs[D + s] = blockNo
    <3>1. PICK n \in 1 .. total : bbs[n] = source[s].bb /\ n = D + s
      <4>1. ~(s <= e)
        BY <2>0, <2>3
      <4> QED
        BY <1>12, <2>0, <2>3, <4>1
    <3> QED
      BY <2>8, <3>1
  <2>10. F = D + s
    <3>1. F <= D + s
      BY <2>7, <2>9
    <3>2. F > D + e
      <4> SUFFICES ASSUME F <= D + e PROVE FALSE
        BY <1>8
      <4>1. bbs[F] <= blockNo - 1 /\ F \in 1 .. total
        BY <1>8, <1>9
      <4>2. bbs[F] = blockNo
        BY <2>7
      <4> QED
        BY <1>8, <4>1, <4>2
    <3> QED
      BY <1>8, <2>0, <2>3, <3>1, <3>2
  <2>18. E - D \in 1 .. size /\ E - D \in s .. size /\ D + (E - D) = E
    BY <1>3, <1>8, <2>0, <2>3, <2>10
  <2>11. PICK last \in 1 .. size : last \in s .. size /\ D + last = E
    BY <2>18
  <2>12. ASSUME NEW i \in 1 .. size
         PROVE  source[i].bb = blockNo <=> s <= i /\ i <= last
    <3>1. PICK n \in 1 .. total :
            /\ bbs[n] = source[i].bb
            /\ (IF i <= e THEN n <= D + e ELSE n = D + i)
      BY <1>12
    <3>2. CASE i <= e
      <4>1. bbs[n] <= blockNo - 1
        BY <1>8, <1>9, <3>1, <3>2
      <4>2. ~(s <= i)
        BY <2>0, <3>2
      <4> QED
        BY <1>3, <1>8, <3>1, <4>1, <4>2
    <3>3. CASE ~(i <= e)
      <4>1. n = D + i /\ s <= i
        BY <2>0, <3>1, <3>3
      <4>2. bbs[n] = blockNo <=> F <= n /\ n <= E
        BY <2>7
      <4>3. F <= n /\ (n <= E <=> i <= last)
        BY <1>8, <2>10, <2>11, <2>0, <2>3, <4>1
      <4> QED
        BY <3>1, <4>1, <4>2, <4>3
    <3> QED
      BY <3>2, <3>3
  <2>13. SourceSpan(blockNo + 1, s, last)
    <3>1. \A i \in 1 .. size : source[i].bb = b - 1 <=> s <= i /\ i <= last
      BY <2>4, <2>12
    <3>2. SourceSpan(b, s, last)
      BY <2>11, <3>1 DEF SourceSpan
    <3> QED
      BY <3>2 DEF b
  <2>14. todo' \in Seq(Int) /\ Len(todo') = last - e
    <3>1. todo' = blocks'[b]
      BY <2>1 DEF b
    <3>2. E - F + 1 = last - e
      BY <1>8, <2>0, <2>10, <2>11
    <3>3. blocks'[b] \in Seq(Int)
      BY <1>4, <2>4
    <3> QED
      BY <2>6, <3>1, <3>2, <3>3
  <2>15. ASSUME NEW k \in 1 .. last - e PROVE todo'[k] = e + k
    <3>1. todo' = blocks'[b]
      BY <2>1 DEF b
    <3>2. E - F + 1 = last - e /\ F + k - 1 = D + (e + k) /\ e + k \in e + 1 .. size
      BY <1>3, <1>8, <2>0, <2>10, <2>11
    <3>3. todo'[k] = codeLines[F + k - 1]
      BY <2>6, <3>1, <3>2
    <3> QED
      BY <1>10, <3>2, <3>3
  <2>16. ASSUME NEW k \in 1 .. total - size + s - 1 PROVE bbs[k] < blockNo + 1 - 1
    <3>1. k \in 1 .. D + e /\ k \in 1 .. total
      <4>1. total - size = D /\ s - 1 = e
        BY <2>0 DEF D
      <4>2. k \in 1 .. D + e
        <5>1. total - size + s - 1 = (total - size) + (s - 1)
          BY <1>3
        <5> QED
          BY <4>1, <5>1
      <4> QED
        BY <1>3, <1>8, <2>3, <4>2
    <3> QED
      BY <1>3, <1>8, <1>9, <3>1
  <2>17. Visits'
    <3>1. SourceSpan(blockNo, s, last)'
      BY <1>1, <2>13 DEF SourceSpan
    <3>2. s <= currentPos' + 1 /\ currentPos' + Len(todo') = last
          /\ \A k \in 1 .. Len(todo') : todo'[k] = currentPos' + k
      <4>1. currentPos' = e
        BY <1>1, <1>7
      <4> QED
        BY <2>0, <2>3, <2>11, <2>14, <2>15, <4>1
    <3>3. Untouched(s)'
      <4>1. total' - size' = D
        BY <1>1 DEF D
      <4>2. \A j \in s .. size' : codeLines'[total' - size' + j] = j
        BY <1>1, <1>10, <2>0, <4>1
      <4> QED
        BY <1>1, <1>3, <4>2 DEF Untouched
    <3>4. \A k \in 1 .. total' - size' + s - 1 : bbs'[k] < blockNo' - 1
      <4> SUFFICES ASSUME NEW k \in 1 .. total' - size' + s - 1
                   PROVE  bbs'[k] < blockNo' - 1
        OBVIOUS
      <4>1. k \in 1 .. total - size + s - 1
        BY <1>1, <1>3
      <4>2. bbs[k] < blockNo + 1 - 1
        BY <2>16, <4>1
      <4>3. bbs'[k] = bbs[k] /\ blockNo' = blockNo + 1
        BY <1>1
      <4>4. blockNo' - 1 = blockNo + 1 - 1
        BY <1>8, <4>3
      <4> QED
        BY <4>2, <4>3, <4>4
    <3>5. CopiesOf(s, currentPos)'
      <4>1. DOMAIN tempVarAssign' = {}
        BY <1>1
      <4> QED
        BY <4>1 DEF CopiesOf
    <3>6. s \in 1 .. size' /\ last \in 1 .. size'
      BY <1>1, <2>0, <2>3, <2>11
    <3>7. /\ SourceSpan(blockNo, s, last)'
          /\ s <= currentPos' + 1 /\ currentPos' + Len(todo') = last
          /\ \A k \in 1 .. Len(todo') : todo'[k] = currentPos' + k
          /\ Untouched(s)'
          /\ \A k \in 1 .. total' - size' + s - 1 : bbs'[k] < blockNo' - 1
          /\ CopiesOf(s, currentPos)'
      BY <3>1, <3>2, <3>3, <3>4, <3>5
    <3> QED
      BY <3>6, <3>7 DEF Visits
  <2> QED
    BY <1>14, <1>15, <1>16, <1>17, <2>1, <2>14, <2>17 DEF Inv, Finished
<1> QED
  BY <1>18, <1>19

LEMMA NextInv == Inv /\ [Next]_vars => Inv'
<1> SUFFICES ASSUME Inv, [Next]_vars PROVE Inv'
  OBVIOUS
<1>1. CASE reuseValue \/ foldConstants \/ addTempVar \/ passBy
  BY <1>1, VisitingInv
<1>2. CASE updateTac
  BY <1>2, UpdateTacInv
<1>3. ASSUME NEW t \in Pending, addTempVarAssignment(t) PROVE Inv'
  BY <1>3, CopyInv
<1>4. CASE rebuild
  BY <1>4, RebuildInv
<1>5. CASE UNCHANGED vars
  <2>1. /\ source' = source /\ line' = line /\ codeLines' = codeLines /\ blocks' = blocks
        /\ blockNo' = blockNo /\ todo' = todo /\ currentPos' = currentPos
        /\ tempVarAssign' = tempVarAssign /\ numInserted' = numInserted /\ phase' = phase
        /\ size' = size /\ total' = total /\ bbs' = bbs
    BY <1>5 DEF vars, position, tables, size, total, bbs
  <2>2. TypeOK' /\ LinesKept' /\ Ordered' /\ Numbered'
    BY <2>1 DEF Inv, TypeOK, LinesKept, Ordered, Numbered
  <2>3. Visits' /\ Updates' /\ Finished'
    BY <2>1 DEF Inv, Visits, Updates, Finished, SourceSpan, Untouched, CopiesOf
  <2> QED
    BY <2>2, <2>3 DEF Inv
<1> QED
  BY <1>1, <1>2, <1>3, <1>4, <1>5 DEF Next

(* The code stays sorted by blocks, the copies of a block stay in front of *)
(* its end, and the next block is the one of the source.                   *)
THEOREM InvariantHolds == Spec => []Inv
BY InitInv, NextInv, PTL DEF Spec

LEMMA InvImpliesHarmless == Inv => RebuildHarmless
<1> SUFFICES ASSUME Inv PROVE RebuildHarmless
  OBVIOUS
<1>1. /\ size \in Nat \ {0} /\ total \in Nat \ {0}
      /\ bbs \in [1 .. total -> Nat]
      /\ \A k \in 1 .. total : bbs[k] = line[codeLines[k]].bb
      /\ \A i \in 1 .. size : source[i].bb \in Nat
  BY CodeFacts DEF Inv
<1>2. phase \in {"visit", "update", "done"} /\ currentPos \in Nat
  BY DEF Inv, TypeOK
<1>3. ASSUME phase = "visit"
      PROVE  /\ \A k \in 1 .. Len(todo) : todo[k] = currentPos + k
             /\ todo = <<>> => \/ currentPos = size
                               \/ source[currentPos + 1].bb # source[currentPos].bb
  <2>1. PICK f \in 1 .. size : \E e \in 1 .. size :
          /\ SourceSpan(blockNo, f, e)
          /\ currentPos + Len(todo) = e
          /\ \A k \in 1 .. Len(todo) : todo[k] = currentPos + k
    BY <1>3 DEF Inv, Visits
  <2>2. PICK e \in 1 .. size :
          /\ SourceSpan(blockNo, f, e)
          /\ currentPos + Len(todo) = e
          /\ \A k \in 1 .. Len(todo) : todo[k] = currentPos + k
    BY <2>1
  <2>3. ASSUME todo = <<>>, currentPos # size
        PROVE  source[currentPos + 1].bb # source[currentPos].bb
    <3>1. currentPos = e /\ e + 1 \in 1 .. size
      BY <1>1, <1>2, <2>2, <2>3
    <3>2. source[e].bb = blockNo - 1 <=> f <= e /\ e <= e
      BY <2>2 DEF SourceSpan
    <3>3. source[e + 1].bb = blockNo - 1 <=> f <= e + 1 /\ e + 1 <= e
      BY <2>2, <3>1 DEF SourceSpan
    <3>4. f <= e
      BY <2>2 DEF SourceSpan
    <3> QED
      BY <3>1, <3>2, <3>3, <3>4
  <2> QED
    BY <2>2, <2>3
<1>4. VisitsInOrder
  <2>1. phase # "visit" => todo = <<>>
    BY <1>2 DEF Inv, Updates, Finished
  <2>2. \A k \in 1 .. Len(todo) : todo[k] = currentPos + k
    <3>1. CASE phase = "visit"
      BY <1>3, <3>1
    <3>2. CASE todo = <<>>
      BY <3>2
    <3> QED
      BY <2>1, <3>1, <3>2
  <2>3. phase = "done" => currentPos = size
    BY DEF Inv, Finished
  <2> QED
    BY <1>3, <2>2, <2>3 DEF VisitsInOrder, size
<1>5. BlocksKept
  <2>1. \A k \in 1 .. total - 1 : bbs[k] <= bbs[k + 1]
    <3> SUFFICES ASSUME NEW k \in 1 .. total - 1 PROVE bbs[k] <= bbs[k + 1]
      OBVIOUS
    <3>1. k \in 1 .. total /\ k + 1 \in 1 .. total
      BY <1>1
    <3>2. bbs[k] \in Nat /\ bbs[k + 1] \in {bbs[k], bbs[k] + 1}
      BY <1>1, <3>1 DEF Inv, Numbered
    <3> QED
      BY <3>2
  <2>2. \A k \in 1 .. total - 1 : line[codeLines[k]].bb <= line[codeLines[k + 1]].bb
    <3>1. \A k \in 1 .. total - 1 : k \in 1 .. total /\ k + 1 \in 1 .. total
      BY <1>1
    <3> QED
      BY <1>1, <2>1, <3>1
  <2> QED
    BY <2>2 DEF BlocksKept, Inv, Ordered, LinesKept, size, total
<1> QED
  BY <1>2, <1>4, <1>5 DEF RebuildHarmless

(* LVN::transform never finds its vector of blocks with another length,    *)
(* visits every line of the source once and in its turn, and leaves lines  *)
(* and blocks in their order.                                              *)
THEOREM RebuildCorrect == Spec => []RebuildHarmless
BY InvariantHolds, InvImpliesHarmless, PTL

-----------------------------------------------------------------------------
(* One copy: nothing has moved before it is inserted, and its line is      *)
(* where it was in the source.                                             *)
Single ==
  /\ Copies = {} => /\ numInserted = 0 /\ total = size
                    /\ \A k \in 1 .. total : codeLines[k] = k
  /\ SingleCopyInPlace

LEMMA InitSingle == Init => Single
<1> SUFFICES ASSUME Init PROVE Single
  OBVIOUS
<1>1. Inv
  BY InitInv
<1>2. size \in Nat \ {0}
  BY <1>1, CodeFacts DEF Inv
<1>3. /\ line = source /\ codeLines = [i \in 1 .. size |-> i] /\ numInserted = 0
  BY DEF Init, size
<1>4. total = size /\ \A k \in 1 .. total : codeLines[k] = k
  BY <1>2, <1>3 DEF total
<1>5. Copies = {}
  <2>1. source \in Seq(Line)
    BY <1>1 DEF Inv, TypeOK, InBlocks
  <2>2. \A t \in DOMAIN line : ~(t < 0)
    BY <1>3, <2>1
  <2> QED
    BY <2>2 DEF Copies
<1> QED
  BY <1>3, <1>4, <1>5 DEF Single, SingleCopyInPlace

LEMMA KeepsSingle ==
  Single /\ DOMAIN line' = DOMAIN line /\ codeLines' = codeLines /\ source' = source
    /\ numInserted' \in {numInserted, 0} => Single'
<1> SUFFICES ASSUME Single, DOMAIN line' = DOMAIN line, codeLines' = codeLines,
                    source' = source, numInserted' \in {numInserted, 0}
             PROVE  Single'
  OBVIOUS
<1>1. Copies' = Copies /\ total' = total /\ size' = size
  BY DEF Copies, total, size
<1>2. \A t : IsBehindDefinition(t) => IsBehindDefinition(t)'
  BY DEF IsBehindDefinition
<1> QED
  BY <1>1, <1>2 DEF Single, SingleCopyInPlace

LEMMA CopyPlaced ==
  ASSUME Inv, NEW t \in Pending, addTempVarAssignment(t)
  PROVE  /\ phase = "update" /\ t \in Int /\ t < 0
         /\ t \in DOMAIN tempVarAssign /\ t \notin DOMAIN line
         /\ total \in Nat /\ total' = total + 1
         /\ \E p \in 2 .. total + 1 :
              /\ p - 1 = -t + numInserted
              /\ \A k \in 1 .. total + 1 :
                   codeLines'[k] = IF k < p THEN codeLines[k]
                                   ELSE IF k = p THEN t ELSE codeLines[k - 1]
<1> DEFINE at == tempVarAssign[t].position + numInserted
<1>1. phase = "update" /\ codeLines' = InsertAt(codeLines, at + 1, t)
  BY DEF addTempVarAssignment
<1>2. t \in DOMAIN tempVarAssign /\ t \notin DOMAIN line
  BY DEF Pending
<1>3. PICK f \in 1 .. size : \E e \in 1 .. size :
        /\ SourceSpan(blockNo, f, e) /\ Untouched(e + 1)
        /\ \A k \in 1 .. total - size + e : bbs[k] <= blockNo - 1
        /\ CopiesOf(f, e)
  BY <1>1 DEF Inv, Updates
<1>4. PICK e \in 1 .. size :
        /\ SourceSpan(blockNo, f, e) /\ Untouched(e + 1)
        /\ \A k \in 1 .. total - size + e : bbs[k] <= blockNo - 1
        /\ CopiesOf(f, e)
  BY <1>3
<1>5. at \in 1 .. total /\ t \in Int /\ t < 0
  BY <1>1, <1>2, <1>4, InsertionPlace
<1>6. at = -t + numInserted
  BY <1>2, <1>4 DEF CopiesOf
<1> HIDE DEF at
<1>7. codeLines \in Seq(Int) /\ Len(codeLines) = total /\ total \in Nat
  BY DEF Inv, TypeOK, total
<1>8. PICK p \in 2 .. total + 1 : p = at + 1
  BY <1>5, <1>7
<1>9. p \in 1 .. Len(codeLines) + 1 /\ codeLines \in Seq(Int) /\ t \in Int
  BY <1>5, <1>7
<1>10. LET r == InsertAt(codeLines, p, t)
       IN /\ r \in Seq(Int) /\ Len(r) = Len(codeLines) + 1
          /\ \A k \in 1 .. Len(codeLines) + 1 :
               r[k] = IF k < p THEN codeLines[k]
                      ELSE IF k = p THEN t ELSE codeLines[k - 1]
  BY <1>9, Inserted
<1>11. codeLines' = InsertAt(codeLines, p, t)
  BY <1>1, <1>8
<1>12. /\ total' = total + 1
       /\ \A k \in 1 .. total + 1 :
            codeLines'[k] = IF k < p THEN codeLines[k]
                            ELSE IF k = p THEN t ELSE codeLines[k - 1]
  BY <1>7, <1>10, <1>11 DEF total
<1>13. p - 1 = -t + numInserted
  BY <1>5, <1>6, <1>8
<1> QED
  BY <1>1, <1>2, <1>5, <1>7, <1>12, <1>13

LEMMA CopySingle ==
  ASSUME Inv, Single, NEW t \in Pending, addTempVarAssignment(t)
  PROVE  Single'
<1>1. /\ t \in Int /\ t < 0 /\ t \in DOMAIN tempVarAssign /\ t \notin DOMAIN line
      /\ total \in Nat /\ total' = total + 1
  BY CopyPlaced
<1>2. PICK p \in 2 .. total + 1 :
        /\ p - 1 = -t + numInserted
        /\ \A k \in 1 .. total + 1 :
             codeLines'[k] = IF k < p THEN codeLines[k]
                             ELSE IF k = p THEN t ELSE codeLines[k - 1]
  BY CopyPlaced
<1>3. DOMAIN line' = DOMAIN line \cup {t}
  BY DEF addTempVarAssignment, Enter
<1>4. t \in Copies' /\ Copies' = Copies \cup {t}
  BY <1>1, <1>3 DEF Copies
<1>5. ASSUME NEW c \in Copies', Copies' = {c} PROVE IsBehindDefinition(c)'
  <2>1. c = t /\ Copies = {}
    BY <1>1, <1>4, <1>5 DEF Copies
  <2>2. numInserted = 0 /\ \A k \in 1 .. total : codeLines[k] = k
    BY <2>1 DEF Single
  <2> DEFINE n == p - 1
  <2>3. n \in 1 .. total /\ n \in 1 .. total + 1 /\ n < p /\ n = -t /\ n + 1 = p
    BY <1>1, <1>2, <2>2
  <2> HIDE DEF n
  <2>4. codeLines'[n] = -c
    BY <1>2, <2>1, <2>2, <2>3
  <2>5. codeLines'[n + 1] = c
    <3>1. p \in 1 .. total + 1 /\ ~(p < p)
      BY <1>1
    <3> QED
      BY <1>2, <2>1, <2>3, <3>1
  <2>6. Len(codeLines') - 1 = total
    BY <1>1 DEF total
  <2> QED
    BY <2>3, <2>4, <2>5, <2>6 DEF IsBehindDefinition
<1>6. Copies' # {}
  BY <1>4
<1> QED
  BY <1>5, <1>6 DEF Single, SingleCopyInPlace

LEMMA NextSingle == Inv /\ Single /\ [Next]_vars => Single'
<1> SUFFICES ASSUME Inv, Single, [Next]_vars PROVE Single'
  OBVIOUS
<1>1. CASE reuseValue \/ foldConstants
  <2>1. Visiting /\ Step /\ IsBinary(This) /\ \E value : updateTriple(value)
    BY <1>1 DEF reuseValue, InTable, foldConstants
  <2>2. This.op \notin Jumps
    BY <2>1 DEF IsBinary, Jumps
  <2>3. SameShape
    BY <2>1, <2>2, RewriteShape
  <2> QED
    BY <2>1, <2>3, KeepsSingle DEF SameShape, Step
<1>2. CASE addTempVar \/ passBy
  BY <1>2, KeepsSingle DEF addTempVar, passBy, tables, Step
<1>3. CASE updateTac
  BY <1>3, KeepsSingle DEF updateTac
<1>4. ASSUME NEW t \in Pending, addTempVarAssignment(t) PROVE Single'
  BY <1>4, CopySingle
<1>5. CASE rebuild
  BY <1>5, KeepsSingle DEF rebuild
<1>6. CASE UNCHANGED vars
  BY <1>6, KeepsSingle DEF vars
<1> QED
  BY <1>1, <1>2, <1>3, <1>4, <1>5, <1>6 DEF Next

(* LVN::updateTac: a copy that is the only one of the whole code is        *)
(* inserted right behind the line that computes its value.                 *)
THEOREM SingleCopyCorrect == Spec => []SingleCopyInPlace
<1>1. Spec => []Single
  BY InvariantHolds, InitSingle, NextSingle, PTL DEF Spec
<1>2. Single => SingleCopyInPlace
  BY DEF Single
<1> QED
  BY <1>1, <1>2, PTL

-----------------------------------------------------------------------------
(* What becomes of the lines.                                              *)
FoldsTo(l, o) ==
  IsLiteral(l.arg1) /\ IsLiteral(l.arg2) /\ o = IntLiteral(l.arg1.literal + l.arg2.literal)

(* The table knows sums of the block, by the temporary that will hold it   *)
(* or as a literal.                                                        *)
TableRight ==
  phase = "visit" =>
    \A k \in DOMAIN valueMap :
      \E j \in 1 .. currentPos :
        /\ Key(source[j]) = k /\ source[j].op = "ADD" /\ source[j].bb = blockNo - 1
        /\ \/ valueMap[k] = Variable(-j) /\ -j \in DOMAIN tempVarAssign
           \/ FoldsTo(source[j], valueMap[k])

(* A sum that was visited is as before, folded, or a copy of the temporary *)
(* of an earlier one that is in the code or will be inserted.              *)
Planned(t) == t \in DOMAIN line \/ t \in tempVarUsed \cap DOMAIN tempVarAssign

Replaced(i) ==
  /\ source[i].op = "ADD" /\ line[i].op = "ASSIGN" /\ line[i].target = source[i].target
  /\ \/ FoldsTo(source[i], line[i].arg2)
     \/ \E j \in 1 .. i - 1 :
          SameExpression(j, i) /\ line[i].arg2 = Variable(-j) /\ Planned(-j)

LinesRight ==
  \A i \in 1 .. size : line[i] = source[i] \/ (i <= currentPos /\ Replaced(i))

PlansRight ==
  \A t \in DOMAIN tempVarAssign :
    /\ -t \in 1 .. size /\ source[-t].op = "ADD"
    /\ tempVarAssign[t].variable = source[-t].target

CopiesRight ==
  \A t \in Copies :
    /\ -t \in 1 .. size /\ source[-t].op = "ADD"
    /\ line[t].op = "ASSIGN" /\ line[t].target = t
    /\ line[t].arg2 = Variable(source[-t].target)

(* No plan is left at the end.                                             *)
PlansDone == phase = "done" => tempVarAssign = <<>>

Distinct == \A n, m \in 1 .. total : codeLines[n] = codeLines[m] => n = m

Right ==
  /\ OwnVariables(source)
  /\ TableRight /\ LinesRight /\ PlansRight /\ PlansDone /\ CopiesRight /\ Distinct

LEMMA InitRight == Init => Right
<1> SUFFICES ASSUME Init PROVE Right
  OBVIOUS
<1>1. Inv
  BY InitInv
<1>2. size \in Nat \ {0}
  BY <1>1, CodeFacts DEF Inv
<1>3. /\ line = source /\ codeLines = [i \in 1 .. size |-> i]
      /\ valueMap = <<>> /\ tempVarAssign = <<>>
  BY DEF Init, size
<1>4. \A k \in 1 .. total : codeLines[k] = k
  BY <1>2, <1>3 DEF total
<1>5. OwnVariables(source)
  BY SourcesAssumption DEF Init
<1>6. Copies = {}
  <2>1. source \in Seq(Line)
    BY <1>1 DEF Inv, TypeOK, InBlocks
  <2>2. \A t \in DOMAIN line : ~(t < 0)
    BY <1>3, <2>1
  <2> QED
    BY <2>2 DEF Copies
<1>7. DOMAIN valueMap = {} /\ DOMAIN tempVarAssign = {}
  BY <1>3
<1> QED
  BY <1>3, <1>4, <1>5, <1>6, <1>7
     DEF Right, TableRight, LinesRight, PlansRight, PlansDone, CopiesRight, Distinct

(* The line that is visited is as in the source, and of the block.         *)
LEMMA VisitedLine ==
  ASSUME Inv, Right, Visiting
  PROVE  /\ Head(todo) = currentPos + 1 /\ Head(todo) \in 1 .. size
         /\ This = source[Head(todo)] /\ This.bb = blockNo - 1 /\ phase = "visit"
         /\ currentPos \in Nat /\ size \in Nat
<1>1. /\ Head(todo) = currentPos + 1 /\ Head(todo) \in 1 .. size
      /\ Head(todo) \in DOMAIN line /\ Len(todo) \in Nat \ {0}
  BY HeadFacts
<1>2. currentPos \in Nat /\ phase = "visit" /\ size \in Nat
  BY CodeFacts DEF Inv, TypeOK, Visiting
<1>3. This = source[Head(todo)]
  BY <1>1, <1>2 DEF This, Right, LinesRight
<1>4. source[Head(todo)].bb = blockNo - 1
  <2>1. PICK f \in 1 .. size : \E e \in 1 .. size :
          /\ SourceSpan(blockNo, f, e)
          /\ f <= currentPos + 1 /\ currentPos + Len(todo) = e
    BY <1>2 DEF Inv, Visits
  <2>2. PICK e \in 1 .. size :
          /\ SourceSpan(blockNo, f, e)
          /\ f <= currentPos + 1 /\ currentPos + Len(todo) = e
    BY <2>1
  <2>3. f <= Head(todo) /\ Head(todo) <= e
    BY <1>1, <1>2, <2>2
  <2> QED
    BY <1>1, <2>2, <2>3 DEF SourceSpan
<1> QED
  BY <1>1, <1>2, <1>3, <1>4

(* After a step that leaves plans as they are or adds to them, and changes *)
(* no line but the one visited.                                            *)
LEMMA StepRight ==
  ASSUME Inv, Right, Visiting, Step,
         DOMAIN line' = DOMAIN line,
         \A i \in DOMAIN line : i # Head(todo) => line'[i] = line[i],
         DOMAIN tempVarAssign \subseteq DOMAIN tempVarAssign',
         tempVarUsed \subseteq tempVarUsed',
         \A i \in 1 .. size : i = Head(todo) => line'[i] = source[i] \/ Replaced(i)',
         PlansRight',
         \A k \in DOMAIN valueMap' :
           \/ k \in DOMAIN valueMap /\ valueMap'[k] = valueMap[k]
           \/ /\ Key(This) = k /\ This.op = "ADD"
              /\ \/ valueMap'[k] = Variable(-Head(todo))
                    /\ -Head(todo) \in DOMAIN tempVarAssign'
                 \/ FoldsTo(This, valueMap'[k])
  PROVE  Right'
<1> DEFINE h == Head(todo)
<1>1. /\ h = currentPos + 1 /\ h \in 1 .. size
      /\ This = source[h] /\ This.bb = blockNo - 1 /\ phase = "visit"
      /\ currentPos \in Nat /\ size \in Nat
  BY VisitedLine
<1>2. /\ currentPos' = currentPos + 1 /\ source' = source /\ size' = size
      /\ codeLines' = codeLines /\ total' = total /\ blockNo' = blockNo
  BY DEF Step, nextPos, size, total
<1> HIDE DEF h
<1>3. TableRight'
  <2> SUFFICES ASSUME NEW k \in DOMAIN valueMap'
               PROVE  \E j \in 1 .. currentPos + 1 :
                        /\ Key(source[j]) = k /\ source[j].op = "ADD"
                        /\ source[j].bb = blockNo - 1
                        /\ \/ valueMap'[k] = Variable(-j) /\ -j \in DOMAIN tempVarAssign'
                           \/ FoldsTo(source[j], valueMap'[k])
    BY <1>2 DEF TableRight, Key, FoldsTo
  <2>1. CASE k \in DOMAIN valueMap /\ valueMap'[k] = valueMap[k]
    <3>1. PICK j \in 1 .. currentPos :
            /\ Key(source[j]) = k /\ source[j].op = "ADD" /\ source[j].bb = blockNo - 1
            /\ \/ valueMap[k] = Variable(-j) /\ -j \in DOMAIN tempVarAssign
               \/ FoldsTo(source[j], valueMap[k])
      BY <1>1, <2>1 DEF Right, TableRight
    <3>2. j \in 1 .. currentPos + 1
      BY <1>1
    <3> QED
      BY <2>1, <3>1, <3>2
  <2>2. CASE /\ Key(This) = k /\ This.op = "ADD"
             /\ \/ valueMap'[k] = Variable(-h) /\ -h \in DOMAIN tempVarAssign'
                \/ FoldsTo(This, valueMap'[k])
    <3>1. h \in 1 .. currentPos + 1
      BY <1>1
    <3> QED
      BY <1>1, <2>2, <3>1
  <2> QED
    BY <2>1, <2>2 DEF h
<1>4. LinesRight'
  <2> SUFFICES ASSUME NEW i \in 1 .. size
               PROVE  line'[i] = source[i] \/ (i <= currentPos + 1 /\ Replaced(i)')
    BY <1>2 DEF LinesRight
  <2>1. CASE i = h
    <3>1. i <= currentPos + 1
      BY <1>1, <2>1
    <3> QED
      BY <2>1, <3>1 DEF h
  <2>2. CASE i # h
    <3>1. line'[i] = line[i]
      BY <2>2 DEF h, Inv, TypeOK
    <3>2. Replaced(i) => Replaced(i)'
      BY <1>2, <3>1 DEF Replaced, Planned, SameExpression
    <3>3. i <= currentPos => i <= currentPos + 1
      BY <1>1
    <3> QED
      BY <3>1, <3>2, <3>3 DEF Right, LinesRight
  <2> QED
    BY <2>1, <2>2
<1>5. CopiesRight'
  <2>1. Copies' = Copies
    BY DEF Copies
  <2>2. \A t \in Copies : line'[t] = line[t]
    <3>1. \A t \in Copies : t \in DOMAIN line /\ t # h
      BY <1>1 DEF Copies
    <3> QED
      BY <3>1 DEF h
  <2> QED
    BY <1>2, <2>1, <2>2 DEF Right, CopiesRight
<1>6. OwnVariables(source)' /\ Distinct' /\ PlansDone'
  BY <1>1, <1>2 DEF Right, OwnVariables, Distinct, PlansDone, Step
<1> QED
  BY <1>3, <1>4, <1>5, <1>6 DEF Right

(* A line that is replaced by its value.                                   *)
LEMMA RewrittenLine ==
  ASSUME Inv, Right, Visiting, NEW value, updateTriple(value)
  PROVE  /\ DOMAIN line' = DOMAIN line
         /\ \A i \in DOMAIN line : i # Head(todo) => line'[i] = line[i]
         /\ \A i \in 1 .. size : i = Head(todo) =>
              /\ line'[i].op = "ASSIGN" /\ line'[i].target = source[i].target
              /\ line'[i].arg2 = value
<1> DEFINE h == Head(todo)
           new == [line[h] EXCEPT !.op = "ASSIGN", !.arg1 = Variable(This.target),
                                  !.arg2 = value]
<1>1. /\ h \in 1 .. size /\ This = source[h]
  BY VisitedLine
<1>2. line[h] = source[h] /\ h \in DOMAIN line
  BY <1>1, HeadFacts DEF This
<1>3. Shaped(line[h])
  BY <1>2 DEF Inv, LinesKept
<1>4. new.op = "ASSIGN" /\ new.target = line[h].target /\ new.arg2 = value
  BY <1>3 DEF Shaped
<1>5. line' = [line EXCEPT ![h] = new]
  BY DEF updateTriple
<1> HIDE DEF new, h
<1>6. DOMAIN line' = DOMAIN line /\ line'[h] = new
      /\ \A i \in DOMAIN line : i # h => line'[i] = line[i]
  BY <1>2, <1>5
<1> QED
  BY <1>2, <1>4, <1>6 DEF h

LEMMA VisitingRight ==
  Inv /\ Right /\ (reuseValue \/ foldConstants \/ addTempVar \/ passBy) => Right'
<1> SUFFICES ASSUME Inv, Right, reuseValue \/ foldConstants \/ addTempVar \/ passBy
             PROVE  Right'
  OBVIOUS
<1> DEFINE h == Head(todo)
<1>1. Visiting /\ Step
  BY DEF reuseValue, foldConstants, addTempVar, passBy
<1>2. /\ h = currentPos + 1 /\ h \in 1 .. size
      /\ This = source[h] /\ This.bb = blockNo - 1 /\ phase = "visit"
      /\ currentPos \in Nat /\ size \in Nat
  BY <1>1, VisitedLine
<1>3. source' = source /\ size' = size
  BY <1>1 DEF Step, size
<1>4. CASE reuseValue
  <2> DEFINE value == valueMap[Key(This)]
  <2>1. /\ Key(This) \in DOMAIN valueMap /\ updateTriple(value)
        /\ tempVarUsed' = IF IsVariable(value) THEN tempVarUsed \cup {value.variable}
                          ELSE tempVarUsed
        /\ UNCHANGED <<valueMap, tempVarAssign>>
    BY <1>4 DEF reuseValue, InTable
  <2>2. PICK j \in 1 .. currentPos :
          /\ Key(source[j]) = Key(This) /\ source[j].op = "ADD"
          /\ source[j].bb = blockNo - 1
          /\ \/ value = Variable(-j) /\ -j \in DOMAIN tempVarAssign
             \/ FoldsTo(source[j], value)
    BY <1>2, <2>1 DEF Right, TableRight
  <2> HIDE DEF value
  <2>3. /\ DOMAIN line' = DOMAIN line
        /\ \A i \in DOMAIN line : i # Head(todo) => line'[i] = line[i]
        /\ \A i \in 1 .. size : i = Head(todo) =>
             /\ line'[i].op = "ASSIGN" /\ line'[i].target = source[i].target
             /\ line'[i].arg2 = value
    BY <1>1, <2>1, RewrittenLine
  <2>4. This.op = "ADD" /\ This.arg1 = source[j].arg1 /\ This.arg2 = source[j].arg2
    BY <2>2 DEF Key
  <2>5. SameExpression(j, h) /\ j \in 1 .. h - 1
    <3>1. j \in 1 .. h - 1
      BY <1>2
    <3> QED
      BY <1>2, <2>2, <3>1 DEF SameExpression
  <2>6. ASSUME NEW i \in 1 .. size, i = h
        PROVE  Replaced(i)'
    <3>1. source[i].op = "ADD" /\ line'[i].op = "ASSIGN"
          /\ line'[i].target = source[i].target /\ line'[i].arg2 = value
      BY <1>2, <2>3, <2>4, <2>6
    <3>2. CASE FoldsTo(source[j], value)
      <4>1. FoldsTo(source[i], value)
        BY <1>2, <2>4, <2>6, <3>2 DEF FoldsTo
      <4> QED
        BY <1>3, <3>1, <4>1 DEF Replaced, FoldsTo
    <3>3. CASE value = Variable(-j) /\ -j \in DOMAIN tempVarAssign
      <4>1. IsVariable(value) /\ value.variable = -j
        BY <3>3 DEF IsVariable, Variable
      <4>2. Planned(-j)'
        BY <2>1, <3>3, <4>1 DEF Planned
      <4>3. SameExpression(j, i)' /\ j \in 1 .. i - 1
        BY <1>3, <2>5, <2>6 DEF SameExpression
      <4> QED
        BY <1>3, <3>1, <3>3, <4>2, <4>3 DEF Replaced
    <3> QED
      BY <2>2, <3>2, <3>3
  <2>7. PlansRight'
    BY <1>3, <2>1 DEF Right, PlansRight
  <2> QED
    BY <1>1, <2>1, <2>3, <2>6, <2>7, StepRight
<1>5. CASE foldConstants
  <2> DEFINE result == IntLiteral(This.arg1.literal + This.arg2.literal)
  <2>1. /\ This.op = "ADD" /\ Foldable
        /\ enterValue(result) /\ updateTriple(result)
        /\ UNCHANGED <<tempVarAssign, tempVarUsed>>
    BY <1>5 DEF foldConstants, isValidOperator
  <2>2. FoldsTo(This, result)
    BY <2>1 DEF FoldsTo, Foldable
  <2> HIDE DEF result
  <2>3. /\ DOMAIN line' = DOMAIN line
        /\ \A i \in DOMAIN line : i # Head(todo) => line'[i] = line[i]
        /\ \A i \in 1 .. size : i = Head(todo) =>
             /\ line'[i].op = "ASSIGN" /\ line'[i].target = source[i].target
             /\ line'[i].arg2 = result
    BY <1>1, <2>1, RewrittenLine
  <2>4. ASSUME NEW i \in 1 .. size, i = h
        PROVE  Replaced(i)'
    BY <1>2, <1>3, <2>1, <2>2, <2>3, <2>4 DEF Replaced, FoldsTo
  <2>5. PlansRight'
    BY <1>3, <2>1 DEF Right, PlansRight
  <2>6. \A k \in DOMAIN valueMap' :
          \/ k \in DOMAIN valueMap /\ valueMap'[k] = valueMap[k]
          \/ Key(This) = k /\ valueMap'[k] = result
    BY <2>1 DEF enterValue, Enter
  <2> QED
    BY <1>1, <2>1, <2>2, <2>3, <2>4, <2>5, <2>6, StepRight
<1>6. CASE addTempVar
  <2> DEFINE r == [variable |-> This.target, position |-> insertBehind]
  <2>1. /\ This.op = "ADD"
        /\ enterValue(Variable(-h))
        /\ tempVarAssign' = Enter(tempVarAssign, -h, r)
        /\ UNCHANGED <<line, tempVarUsed>>
    BY <1>6 DEF addTempVar, isValidOperator
  <2>2. r.variable = This.target
    OBVIOUS
  <2> HIDE DEF r, h
  <2>3. /\ DOMAIN tempVarAssign' = DOMAIN tempVarAssign \cup {-h}
        /\ \A t \in DOMAIN tempVarAssign : tempVarAssign'[t] = tempVarAssign[t]
    BY <2>1 DEF Enter
  <2>4. -h \notin DOMAIN tempVarAssign => tempVarAssign'[-h] = r
    BY <2>1 DEF Enter
  <2>5. PlansRight'
    <3> SUFFICES ASSUME NEW t \in DOMAIN tempVarAssign'
                 PROVE  /\ -t \in 1 .. size /\ source[-t].op = "ADD"
                        /\ tempVarAssign'[t].variable = source[-t].target
      BY <1>3 DEF PlansRight
    <3>1. CASE t \in DOMAIN tempVarAssign
      <4>1. /\ -t \in 1 .. size /\ source[-t].op = "ADD"
            /\ tempVarAssign[t].variable = source[-t].target
        BY <3>1 DEF Right, PlansRight
      <4>2. tempVarAssign'[t] = tempVarAssign[t]
        BY <2>3, <3>1
      <4> QED
        BY <4>1, <4>2
    <3>2. CASE t \notin DOMAIN tempVarAssign
      <4>1. t = -h
        BY <2>3, <3>2
      <4>2. tempVarAssign'[t] = r
        BY <2>4, <3>2, <4>1
      <4>3. -t = h
        BY <1>2, <4>1
      <4>4. -t \in 1 .. size /\ source[-t] = This
        BY <1>2, <4>3
      <4> QED
        BY <2>1, <2>2, <4>2, <4>4
    <3> QED
      BY <3>1, <3>2
  <2>6. \A k \in DOMAIN valueMap' :
          \/ k \in DOMAIN valueMap /\ valueMap'[k] = valueMap[k]
          \/ Key(This) = k /\ valueMap'[k] = Variable(-h)
    BY <2>1 DEF enterValue, Enter
  <2>7. \A i \in 1 .. size : i = Head(todo) => line'[i] = source[i]
    BY <1>2, <2>1 DEF h, This
  <2>8. -Head(todo) \in DOMAIN tempVarAssign'
    BY <2>3 DEF h
  <2>9. \A k \in DOMAIN valueMap' :
           \/ k \in DOMAIN valueMap /\ valueMap'[k] = valueMap[k]
           \/ Key(This) = k /\ valueMap'[k] = Variable(-Head(todo))
    BY <2>6 DEF h
  <2> QED
    BY <1>1, <2>1, <2>3, <2>5, <2>7, <2>8, <2>9, StepRight
<1>7. CASE passBy
  <2>1. UNCHANGED <<line, valueMap, tempVarAssign, tempVarUsed>>
    BY <1>7 DEF passBy, tables
  <2>2. \A i \in 1 .. size : i = Head(todo) => line'[i] = source[i]
    BY <1>2, <2>1 DEF This
  <2>3. PlansRight'
    BY <1>3, <2>1 DEF Right, PlansRight
  <2> QED
    BY <1>1, <2>1, <2>2, <2>3, StepRight
<1> QED
  BY <1>4, <1>5, <1>6, <1>7

LEMMA CopyRight ==
  ASSUME Inv, Right, NEW t \in Pending, addTempVarAssignment(t)
  PROVE  Right'
<1>1. /\ t \in Int /\ t < 0 /\ t \in DOMAIN tempVarAssign /\ t \notin DOMAIN line
      /\ total \in Nat /\ total' = total + 1 /\ phase = "update"
  BY CopyPlaced
<1>2. PICK p \in 2 .. total + 1 :
        \A k \in 1 .. total + 1 :
          codeLines'[k] = IF k < p THEN codeLines[k]
                          ELSE IF k = p THEN t ELSE codeLines[k - 1]
  BY CopyPlaced
<1> DEFINE copy == [op |-> "ASSIGN", target |-> t, arg1 |-> Variable(t),
                    arg2 |-> Variable(tempVarAssign[t].variable),
                    bb |-> blockBehind(line[codeLines[tempVarAssign[t].position
                                                        + numInserted]])]
<1>3. /\ line' = Enter(line, t, copy)
      /\ source' = source /\ phase' = phase /\ currentPos' = currentPos
      /\ tempVarAssign' = tempVarAssign /\ tempVarUsed' = tempVarUsed
      /\ size' = size
  BY DEF addTempVarAssignment, position, tables, size
<1>4. copy.op = "ASSIGN" /\ copy.target = t
      /\ copy.arg2 = Variable(tempVarAssign[t].variable)
  OBVIOUS
<1> HIDE DEF copy
<1>5. /\ DOMAIN line' = DOMAIN line \cup {t} /\ line'[t] = copy
      /\ \A i \in DOMAIN line : line'[i] = line[i]
  BY <1>1, <1>3 DEF Enter
<1>6. TableRight'
  BY <1>1, <1>3 DEF TableRight
<1>7. LinesRight'
  <2> SUFFICES ASSUME NEW i \in 1 .. size
               PROVE  line'[i] = source[i] \/ (i <= currentPos /\ Replaced(i)')
    BY <1>3 DEF LinesRight
  <2>1. line'[i] = line[i]
    BY <1>5 DEF Inv, TypeOK
  <2>2. Replaced(i) => Replaced(i)'
    BY <1>3, <1>5, <2>1 DEF Replaced, Planned, SameExpression
  <2> QED
    BY <2>1, <2>2 DEF Right, LinesRight
<1>8. PlansRight'
  BY <1>3 DEF Right, PlansRight
<1>9. CopiesRight'
  <2> SUFFICES ASSUME NEW c \in Copies'
               PROVE  /\ -c \in 1 .. size /\ source[-c].op = "ADD"
                      /\ line'[c].op = "ASSIGN" /\ line'[c].target = c
                      /\ line'[c].arg2 = Variable(source[-c].target)
    BY <1>3 DEF CopiesRight
  <2>1. CASE c = t
    <3>1. /\ -t \in 1 .. size /\ source[-t].op = "ADD"
          /\ tempVarAssign[t].variable = source[-t].target
      BY <1>1 DEF Right, PlansRight
    <3> QED
      BY <1>4, <1>5, <2>1, <3>1
  <2>2. CASE c # t
    <3>1. c \in Copies /\ line'[c] = line[c]
      BY <1>5, <2>2 DEF Copies
    <3> QED
      BY <3>1 DEF Right, CopiesRight
  <2> QED
    BY <2>1, <2>2
<1>10. Distinct'
  <2> DEFINE old(k) == IF k < p THEN k ELSE k - 1
  <2>1. \A k \in 1 .. total : codeLines[k] # t
    BY <1>1 DEF Inv, TypeOK
  <2>2. ASSUME NEW k \in 1 .. total + 1, k # p
        PROVE  old(k) \in 1 .. total /\ codeLines'[k] = codeLines[old(k)]
    BY <1>1, <1>2, <2>2
  <2>3. codeLines'[p] = t /\ p \in 1 .. total + 1
    <3>1. p \in 1 .. total + 1 /\ ~(p < p)
      BY <1>1
    <3> QED
      BY <1>2, <3>1
  <2>4. \A n, m \in 1 .. total + 1 : n # p /\ m # p /\ old(n) = old(m) => n = m
    BY <1>1
  <2> HIDE DEF old
  <2>5. ASSUME NEW n \in 1 .. total + 1, NEW m \in 1 .. total + 1,
               codeLines'[n] = codeLines'[m]
        PROVE  n = m
    <3>1. CASE n # p /\ m # p
      <4>1. codeLines[old(n)] = codeLines[old(m)]
        BY <2>2, <2>5, <3>1
      <4>2. old(n) = old(m)
        BY <2>2, <3>1, <4>1 DEF Right, Distinct
      <4> QED
        BY <2>4, <3>1, <4>2
    <3>2. CASE n = p \/ m = p
      BY <2>1, <2>2, <2>3, <2>5, <3>2
    <3> QED
      BY <3>1, <3>2
  <2> QED
    BY <1>1, <2>5 DEF Distinct
<1>11. OwnVariables(source)' /\ PlansDone'
  BY <1>1, <1>3 DEF Right, OwnVariables, PlansDone
<1> QED
  BY <1>6, <1>7, <1>8, <1>9, <1>10, <1>11 DEF Right

LEMMA NextRight == Inv /\ Right /\ [Next]_vars => Right'
<1> SUFFICES ASSUME Inv, Right, [Next]_vars PROVE Right'
  OBVIOUS
<1>1. CASE reuseValue \/ foldConstants \/ addTempVar \/ passBy
  BY <1>1, VisitingRight
<1>2. ASSUME UNCHANGED <<source, line, codeLines, currentPos, tables>>,
             phase' = phase \/ phase' = "update", blockNo' = blockNo
      PROVE  Right'
  <2>1. /\ source' = source /\ line' = line /\ codeLines' = codeLines
        /\ currentPos' = currentPos /\ valueMap' = valueMap
        /\ tempVarAssign' = tempVarAssign /\ tempVarUsed' = tempVarUsed
        /\ size' = size /\ total' = total
    BY <1>2 DEF tables, size, total
  <2>2. OwnVariables(source)' /\ Distinct' /\ PlansRight' /\ PlansDone'
    BY <1>2, <2>1 DEF Right, OwnVariables, Distinct, PlansRight, PlansDone
  <2>3. CopiesRight'
    BY <2>1 DEF Right, CopiesRight, Copies
  <2>4. LinesRight'
    BY <2>1 DEF Right, LinesRight, Replaced, Planned, SameExpression
  <2>5. TableRight'
    BY <1>2, <2>1 DEF Right, TableRight
  <2> QED
    BY <2>2, <2>3, <2>4, <2>5 DEF Right
<1>3. CASE updateTac
  BY <1>2, <1>3 DEF updateTac, position
<1>4. ASSUME NEW t \in Pending, addTempVarAssignment(t) PROVE Right'
  BY <1>4, CopyRight
<1>5. CASE rebuild
  <2>1. /\ source' = source /\ line' = line /\ codeLines' = codeLines
        /\ currentPos' = currentPos /\ valueMap' = <<>> /\ tempVarAssign' = <<>>
        /\ size' = size /\ total' = total /\ Pending = {}
    BY <1>5 DEF rebuild, size, total
  <2>2. DOMAIN valueMap' = {} /\ DOMAIN tempVarAssign' = {}
    BY <2>1
  <2>3. OwnVariables(source)' /\ Distinct' /\ PlansRight' /\ PlansDone' /\ TableRight'
    BY <2>1, <2>2 DEF Right, OwnVariables, Distinct, PlansRight, PlansDone, TableRight
  <2>4. CopiesRight'
    BY <2>1 DEF Right, CopiesRight, Copies
  <2>5. \A t : Planned(t) => t \in DOMAIN line
    BY <2>1 DEF Planned, Pending
  <2>6. LinesRight'
    BY <2>1, <2>5 DEF Right, LinesRight, Replaced, Planned, SameExpression
  <2> QED
    BY <2>3, <2>4, <2>6 DEF Right
<1>6. CASE UNCHANGED vars
  BY <1>2, <1>6 DEF vars, position
<1> QED
  BY <1>1, <1>3, <1>4, <1>5, <1>6 DEF Next

-----------------------------------------------------------------------------
(* Where lines and copies stand when each copy is behind its definition.   *)

(* The line of the source that has been passed at position n.              *)
Passed(n) == IF n = 0 THEN 0 ELSE IF codeLines[n] > 0 THEN codeLines[n] ELSE -codeLines[n]

LEMMA CodeIs ==
  ASSUME Inv
  PROVE  /\ size \in Nat \ {0} /\ total \in Nat \ {0}
         /\ \A k \in 1 .. total :
              /\ codeLines[k] \in DOMAIN line /\ codeLines[k] \in Int
              /\ codeLines[k] \in 1 .. size \/ codeLines[k] < 0
<1>1. size \in Nat \ {0} /\ total \in Nat \ {0}
  BY CodeFacts DEF Inv
<1>2. \A k \in 1 .. total : codeLines[k] \in DOMAIN line
  BY DEF Inv, TypeOK
<1> QED
  BY <1>1, <1>2 DEF Inv, TypeOK

LEMMA CopyBehind ==
  ASSUME Inv, Right, CopiesInPlace, NEW m \in 1 .. total, codeLines[m] < 0
  PROVE  m - 1 \in 1 .. total /\ codeLines[m - 1] = -codeLines[m]
<1> DEFINE c == codeLines[m]
<1>1. total \in Nat /\ Len(codeLines) = total
  BY CodeIs DEF total
<1>2. c \in Copies
  BY CodeIs DEF Copies
<1>3. PICK k \in 1 .. total - 1 : codeLines[k] = -c /\ codeLines[k + 1] = c
  BY <1>1, <1>2 DEF CopiesInPlace, IsBehindDefinition
<1>4. k \in 1 .. total /\ k + 1 \in 1 .. total
  BY <1>1
<1>5. k + 1 = m
  BY <1>3, <1>4 DEF Right, Distinct
<1>6. m - 1 = k
  BY <1>5
<1> QED
  BY <1>3, <1>4, <1>6

LEMMA LineAfter ==
  ASSUME Inv, Right, CopiesInPlace, NEW n \in 0 .. total - 1
  PROVE  /\ Passed(n) \in 0 .. size
         /\ \/ codeLines[n + 1] = Passed(n) + 1 /\ codeLines[n + 1] \in 1 .. size
            \/ /\ codeLines[n + 1] < 0 /\ n \in 1 .. total
               /\ codeLines[n] = -codeLines[n + 1] /\ codeLines[n] > 0
<1> DEFINE c == codeLines[n + 1]
<1>1. /\ size \in Nat \ {0} /\ total \in Nat \ {0} /\ n + 1 \in 1 .. total
      /\ \A k \in 1 .. total : codeLines[k] \in Int /\ (codeLines[k] \in 1 .. size \/ codeLines[k] < 0)
  BY CodeIs
<1>2. c \in Int /\ (c \in 1 .. size \/ c < 0)
  BY <1>1
<1>3. \A i \in 1 .. size : \E q \in 1 .. total : codeLines[q] = i
  BY DEF Inv, Ordered
<1>4. \A q, m \in 1 .. total :
        q < m /\ codeLines[q] > 0 /\ codeLines[m] > 0 => codeLines[q] < codeLines[m]
  BY DEF Inv, Ordered
<1>5. CASE n = 0
  <2>1. n + 1 = 1 /\ 1 \in 1 .. size
    BY <1>1, <1>5
  <2>2. c > 0
    <3> SUFFICES ASSUME c < 0 PROVE FALSE
      BY <1>2
    <3>1. n + 1 - 1 \in 1 .. total
      BY <1>1, CopyBehind
    <3> QED
      BY <1>5, <3>1
  <2>3. PICK q \in 1 .. total : codeLines[q] = 1
    BY <1>3, <2>1
  <2>4. q = 1
    <3> SUFFICES ASSUME q > 1 PROVE FALSE
      BY <1>1
    <3>1. c < 1
      BY <1>1, <1>4, <2>1, <2>2, <2>3
    <3> QED
      BY <1>2, <2>2, <3>1
  <2>5. c = 1
    BY <2>1, <2>3, <2>4
  <2> QED
    BY <1>1, <1>5, <2>1, <2>5 DEF Passed
<1>6. CASE n # 0
  <2>1. n \in 1 .. total /\ n + 1 - 1 = n
    BY <1>1, <1>6
  <2> DEFINE b == Passed(n)
             at == IF codeLines[n] > 0 THEN n ELSE n - 1
  <2>2. /\ at \in 1 .. total /\ codeLines[at] = b /\ b \in 1 .. size /\ at <= n
        /\ at = n \/ (at = n - 1 /\ codeLines[n] < 0)
    <3>1. CASE codeLines[n] > 0
      BY <1>1, <1>6, <2>1, <3>1 DEF Passed
    <3>2. CASE ~(codeLines[n] > 0)
      <4>1. codeLines[n] < 0
        BY <1>1, <2>1, <3>2
      <4>2. n - 1 \in 1 .. total /\ codeLines[n - 1] = -codeLines[n]
        BY <2>1, <4>1, CopyBehind
      <4>3. b = -codeLines[n] /\ at = n - 1
        BY <1>6, <3>2 DEF Passed
      <4>4. codeLines[n - 1] > 0 /\ codeLines[n - 1] \in 1 .. size
        BY <1>1, <2>1, <4>1, <4>2
      <4> QED
        BY <2>1, <4>1, <4>2, <4>3, <4>4
    <3> QED
      BY <3>1, <3>2
  <2> HIDE DEF at, b
  <2>3. CASE c < 0
    <3>1. codeLines[n] = -c
      BY <1>1, <2>1, <2>3, CopyBehind
    <3>2. codeLines[n] > 0
      BY <1>2, <2>3, <3>1
    <3> QED
      BY <1>1, <2>1, <2>2, <2>3, <3>1, <3>2 DEF b
  <2>4. CASE c \in 1 .. size
    <3>1. b < c
      BY <1>1, <1>4, <2>1, <2>2, <2>4
    <3>2. c = b + 1
      <4> SUFFICES ASSUME b + 1 < c PROVE FALSE
        BY <1>2, <2>2, <3>1
      <4>1. b + 1 \in 1 .. size
        BY <1>1, <2>2, <2>4
      <4>2. PICK q \in 1 .. total : codeLines[q] = b + 1
        BY <1>3, <4>1
      <4>3. q > at
        <5>1. ~(q < at)
          BY <1>4, <2>2, <4>1, <4>2
        <5>2. q # at
          BY <2>2, <4>2
        <5> QED
          BY <2>2, <5>1, <5>2
      <4>4. q < n + 1
        <5>1. ~(n + 1 < q)
          <6> SUFFICES ASSUME n + 1 < q PROVE FALSE
            OBVIOUS
          <6>1. n + 1 \in 1 .. total /\ c > 0 /\ codeLines[q] > 0
            BY <1>1, <2>4, <4>1, <4>2
          <6>2. c < codeLines[q]
            BY <1>4, <6>1
          <6> QED
            BY <1>1, <1>2, <2>2, <3>1, <4>2, <6>2
        <5>2. q # n + 1
          BY <1>1, <1>2, <2>2, <4>2
        <5> QED
          BY <2>1, <5>1, <5>2
      <4>5. q = n /\ codeLines[n] < 0
        BY <2>1, <2>2, <4>3, <4>4
      <4> QED
        BY <4>1, <4>2, <4>5
    <3> QED
      BY <1>1, <2>2, <2>4, <3>2 DEF b
  <2> QED
    BY <1>2, <2>3, <2>4
<1> QED
  BY <1>5, <1>6

LEMMA LastPassed ==
  ASSUME Inv, Right, CopiesInPlace
  PROVE  Passed(total) = size
<1>1. /\ size \in Nat \ {0} /\ total \in Nat \ {0}
      /\ \A k \in 1 .. total : codeLines[k] \in Int /\ (codeLines[k] \in 1 .. size \/ codeLines[k] < 0)
  BY CodeIs
<1>2. PICK q \in 1 .. total : codeLines[q] = size
  BY <1>1 DEF Inv, Ordered
<1>3. \A m \in 1 .. total : q < m /\ codeLines[m] > 0 => size < codeLines[m]
  BY <1>1, <1>2 DEF Inv, Ordered
<1>4. \A m \in 1 .. total : q < m => codeLines[m] < 0
  BY <1>1, <1>3
<1>5. total \in 1 .. total /\ total # 0
  BY <1>1
<1>6. CASE codeLines[total] > 0
  <2>1. q = total
    BY <1>1, <1>4, <1>5, <1>6
  <2> QED
    BY <1>1, <1>2, <1>5, <2>1 DEF Passed
<1>7. CASE ~(codeLines[total] > 0)
  <2>1. codeLines[total] < 0
    BY <1>1, <1>5, <1>7
  <2>2. total - 1 \in 1 .. total /\ codeLines[total - 1] = -codeLines[total]
    BY <1>5, <2>1, CopyBehind
  <2>3. codeLines[total - 1] > 0
    BY <1>1, <1>5, <2>1, <2>2
  <2>4. q = total - 1
    <3>1. q # total
      BY <1>1, <1>2, <2>1
    <3>2. ~(q < total - 1)
      BY <1>1, <1>4, <2>2, <2>3
    <3> QED
      BY <1>1, <3>1, <3>2
  <2> QED
    BY <1>2, <1>5, <1>7, <2>2, <2>4 DEF Passed
<1> QED
  BY <1>6, <1>7

(* A copy that was passed is of a line that was passed, and each copy of   *)
(* an earlier line than the next one was passed.                           *)
LEMMA CopyPassed ==
  ASSUME Inv, Right, CopiesInPlace, NEW n \in 0 .. total
  PROVE  /\ \A q \in 1 .. n : codeLines[q] < 0 => -codeLines[q] <= Passed(n)
         /\ \A t \in Copies : n < total /\ codeLines[n + 1] > -t =>
              \E q \in 1 .. n : codeLines[q] = t
<1>1. /\ size \in Nat \ {0} /\ total \in Nat \ {0} /\ Len(codeLines) = total
      /\ \A k \in 1 .. total : codeLines[k] \in Int /\ (codeLines[k] \in 1 .. size \/ codeLines[k] < 0)
  BY CodeIs DEF total
<1>2. \A q, m \in 1 .. total :
        q < m /\ codeLines[q] > 0 /\ codeLines[m] > 0 => codeLines[q] < codeLines[m]
  BY DEF Inv, Ordered
<1>3. ASSUME NEW q \in 1 .. n, codeLines[q] < 0
      PROVE  -codeLines[q] <= Passed(n)
  <2>1. q \in 1 .. total /\ n \in 1 .. total /\ n # 0
    BY <1>1
  <2>2. /\ q - 1 \in 1 .. total /\ codeLines[q - 1] = -codeLines[q]
        /\ codeLines[q - 1] > 0
    BY <1>1, <1>3, <2>1, CopyBehind
  <2>3. CASE codeLines[n] > 0
    <3>1. q - 1 < n
      BY <1>1, <2>1
    <3>2. codeLines[q - 1] < codeLines[n]
      BY <1>2, <2>1, <2>2, <2>3, <3>1
    <3> QED
      BY <1>1, <2>1, <2>2, <2>3, <3>2 DEF Passed
  <2>4. CASE codeLines[n] < 0
    <3>1. /\ n - 1 \in 1 .. total /\ codeLines[n - 1] = -codeLines[n]
          /\ codeLines[n - 1] > 0
      BY <1>1, <2>1, <2>4, CopyBehind
    <3>2. q - 1 < n - 1 \/ q - 1 = n - 1
      BY <1>1, <2>1
    <3>3. codeLines[q - 1] < codeLines[n - 1] \/ codeLines[q - 1] = codeLines[n - 1]
      BY <1>2, <2>2, <3>1, <3>2
    <3>4. Passed(n) = -codeLines[n]
      BY <1>1, <2>1, <2>4 DEF Passed
    <3> QED
      BY <1>1, <2>1, <2>2, <3>1, <3>3, <3>4
  <2> QED
    BY <1>1, <2>1, <2>3, <2>4
<1>4. ASSUME NEW t \in Copies, n < total, codeLines[n + 1] > -t
      PROVE  \E q \in 1 .. n : codeLines[q] = t
  <2>1. PICK k \in 1 .. total - 1 : codeLines[k] = -t /\ codeLines[k + 1] = t
    BY <1>1, <1>4 DEF CopiesInPlace, IsBehindDefinition
  <2>2. k \in 1 .. total /\ k + 1 \in 1 .. total /\ n + 1 \in 1 .. total
    BY <1>1, <1>4, <2>1
  <2>3. t < 0 /\ t \in Int /\ -t > 0 /\ codeLines[n + 1] \in Int
    <3>1. t < 0
      BY DEF Copies
    <3>2. t \in Int
      BY <1>1, <2>1, <2>2
    <3> QED
      BY <1>1, <2>2, <3>1, <3>2
  <2>4. k < n + 1
    <3>1. k # n + 1
      BY <1>4, <2>1, <2>3
    <3>2. ~(n + 1 < k)
      <4> SUFFICES ASSUME n + 1 < k PROVE FALSE
        OBVIOUS
      <4>1. codeLines[n + 1] > 0 /\ codeLines[k] > 0
        BY <1>4, <2>1, <2>3
      <4>2. codeLines[n + 1] < codeLines[k]
        BY <1>2, <2>2, <4>1
      <4> QED
        BY <1>4, <2>1, <2>3, <4>2
    <3> QED
      BY <2>2, <3>1, <3>2
  <2>5. k + 1 # n + 1
    BY <1>4, <2>1, <2>3
  <2>6. k + 1 \in 1 .. n
    BY <1>1, <2>2, <2>4, <2>5
  <2> QED
    BY <2>1, <2>6
<1> QED
  BY <1>3, <1>4

-----------------------------------------------------------------------------
(* What a code computes, line by line.                                     *)
Start(start) == [env |-> start, jumping |-> FALSE]

IsTrace(f, lines, content, start, n) ==
  f = [m \in 0 .. n |->
         IF m = 0 THEN Start(start) ELSE After(content[lines[m]], f[m - 1])]

LEMMA TraceExists ==
  ASSUME NEW lines, NEW content, NEW start, NEW n \in Nat
  PROVE  \E f : IsTrace(f, lines, content, start, n)
<1> DEFINE Good(k) == \E f : IsTrace(f, lines, content, start, k)
           T == {k \in Nat : ~Good(k)}
<1>1. Good(0)
  <2> DEFINE f == [m \in 0 .. 0 |-> Start(start)]
  <2>1. \A m \in 0 .. 0 : m = 0
    OBVIOUS
  <2>2. f = [m \in 0 .. 0 |->
               IF m = 0 THEN Start(start) ELSE After(content[lines[m]], f[m - 1])]
    BY <2>1
  <2>3. IsTrace(f, lines, content, start, 0)
    BY <2>2 DEF IsTrace
  <2> QED
    BY <2>3
<1>2. ASSUME NEW k \in Nat, k # 0, Good(k - 1) PROVE Good(k)
  <2>1. PICK g : IsTrace(g, lines, content, start, k - 1)
    BY <1>2
  <2> DEFINE f == [m \in 0 .. k |->
                     IF m = k THEN After(content[lines[k]], g[k - 1]) ELSE g[m]]
  <2>2. k - 1 \in 0 .. k - 1 /\ \A m \in 0 .. k : m # k => m \in 0 .. k - 1
    BY <1>2
  <2>3. ASSUME NEW m \in 0 .. k
        PROVE  f[m] = IF m = 0 THEN Start(start) ELSE After(content[lines[m]], f[m - 1])
    <3>1. CASE m = 0
      BY <1>2, <2>1, <2>2, <3>1 DEF IsTrace
    <3>2. CASE m # 0
      <4>1. m - 1 \in 0 .. k /\ m - 1 # k
        BY <1>2, <3>2
      <4>2. f[m - 1] = g[m - 1]
        BY <4>1
      <4>3. CASE m = k
        BY <3>2, <4>2, <4>3
      <4>4. CASE m # k
        <5>1. m \in 0 .. k - 1 /\ f[m] = g[m]
          BY <2>2, <4>4
        <5> QED
          BY <2>1, <3>2, <4>2, <5>1 DEF IsTrace
      <4> QED
        BY <4>3, <4>4
    <3> QED
      BY <3>1, <3>2
  <2>4. f = [m \in 0 .. k |->
               IF m = 0 THEN Start(start) ELSE After(content[lines[m]], f[m - 1])]
    BY <2>3
  <2> HIDE DEF f
  <2>5. IsTrace(f, lines, content, start, k)
    BY <2>4 DEF IsTrace
  <2> QED
    BY <2>5
<1>3. T = {}
  <2> SUFFICES ASSUME T # {} PROVE FALSE
    OBVIOUS
  <2>1. PICK k \in T : \A y \in T : k <= y
    <3>1. T \in SUBSET Nat
      OBVIOUS
    <3> HIDE DEF T
    <3> QED
      BY <3>1, Least
  <2>2. k \in Nat /\ ~Good(k) /\ k # 0
    <3> HIDE DEF Good
    <3> QED
      BY <1>1, <2>1
  <2>3. k - 1 \in Nat /\ ~(k <= k - 1)
    BY <2>2
  <2>4. Good(k - 1)
    <3> HIDE DEF Good
    <3> QED
      BY <2>1, <2>3
  <2> HIDE DEF Good
  <2> QED
    BY <1>2, <2>2, <2>4
<1>4. Good(n)
  <2> HIDE DEF Good
  <2> QED
    BY <1>3
<1> QED
  BY <1>4

LEMMA RunByLines ==
  ASSUME NEW lines, NEW content, NEW start, Len(lines) \in Nat
  PROVE  \E f : /\ IsTrace(f, lines, content, start, Len(lines))
                /\ Run(lines, content, start) = f[Len(lines)].env
<1> DEFINE n == Len(lines)
           F(h) == [m \in 0 .. n |->
                      IF m = 0 THEN [env |-> start, jumping |-> FALSE]
                      ELSE After(content[lines[m]], h[m - 1])]
           f == CHOOSE h : h = F(h)
<1>1. Run(lines, content, start) = f[n].env
  BY DEF Run
<1>2. \A h : IsTrace(h, lines, content, start, n) <=> h = F(h)
  BY DEF IsTrace, Start
<1> HIDE DEF F, n
<1>3. \E h : h = F(h)
  <2>1. PICK g : IsTrace(g, lines, content, start, n)
    BY TraceExists DEF n
  <2> QED
    BY <1>2, <2>1
<1>4. f = F(f)
  BY <1>3
<1> HIDE DEF f
<1>5. IsTrace(f, lines, content, start, n)
  BY <1>2, <1>4
<1> QED
  BY <1>1, <1>5 DEF n

IsState(s) ==
  /\ s = [env |-> s.env, jumping |-> s.jumping]
  /\ s.jumping \in BOOLEAN /\ DOMAIN s.env = Variables

IsAssignment(l) == l.op # "LABEL" /\ l.op \notin Jumps

(* What line l makes of state s.                                           *)
Follows(l, s, after) ==
  /\ IsState(after)
  /\ l.op = "LABEL" => after.env = s.env /\ after.jumping = FALSE
  /\ l.op # "LABEL" /\ s.jumping => after = s
  /\ l.op \in Jumps /\ ~s.jumping =>
       /\ after.env = s.env
       /\ after.jumping <=> (l.op = "JUMP" \/ ValueOf(l.arg1, s.env) = 0)
  /\ IsAssignment(l) => after.jumping = s.jumping
  /\ IsAssignment(l) /\ ~s.jumping /\ l.target \in Variables =>
       after.env[l.target] = Computed(l, s.env)
  /\ \A v \in Variables : v # l.target => after.env[v] = s.env[v]

LEMMA AfterIs ==
  ASSUME NEW l, NEW s, IsState(s)
  PROVE  Follows(l, s, After(l, s))
<1>1. CASE l.op = "LABEL"
  <2>1. After(l, s) = [s EXCEPT !.jumping = FALSE]
    BY <1>1 DEF After
  <2>2. After(l, s) = [env |-> s.env, jumping |-> FALSE]
    BY <2>1 DEF IsState
  <2>3. l.op \notin Jumps
    BY <1>1 DEF Jumps
  <2> QED
    BY <1>1, <2>2, <2>3 DEF Follows, IsState, IsAssignment
<1>2. CASE l.op # "LABEL" /\ s.jumping
  <2>1. After(l, s) = s
    BY <1>2 DEF After
  <2> QED
    BY <1>2, <2>1 DEF Follows, IsState, IsAssignment
<1>3. CASE l.op \in Jumps /\ ~s.jumping
  <2>1. l.op # "LABEL"
    BY <1>3 DEF Jumps
  <2> DEFINE b == l.op = "JUMP" \/ ValueOf(l.arg1, s.env) = 0
  <2>2. After(l, s) = [s EXCEPT !.jumping = b]
    BY <1>3, <2>1 DEF After
  <2>3. b \in BOOLEAN
    OBVIOUS
  <2> HIDE DEF b
  <2>4. After(l, s) = [env |-> s.env, jumping |-> b]
    BY <2>2 DEF IsState
  <2>5. After(l, s).env = s.env /\ After(l, s).jumping = b
    BY <2>4
  <2>6. IsState(After(l, s))
    BY <2>3, <2>4, <2>5 DEF IsState
  <2> QED
    BY <1>3, <2>1, <2>5, <2>6 DEF Follows, IsAssignment, b
<1>4. CASE IsAssignment(l) /\ ~s.jumping
  <2> DEFINE e == [s.env EXCEPT ![l.target] = Computed(l, s.env)]
  <2>1. After(l, s) = [s EXCEPT !.env = e]
    BY <1>4 DEF After, IsAssignment
  <2>2. DOMAIN e = Variables /\ (l.target \in Variables => e[l.target] = Computed(l, s.env))
        /\ \A v \in Variables : v # l.target => e[v] = s.env[v]
    BY DEF IsState
  <2> HIDE DEF e
  <2>3. After(l, s) = [env |-> e, jumping |-> s.jumping]
    BY <2>1 DEF IsState
  <2>4. IsState(After(l, s))
    BY <2>2, <2>3 DEF IsState
  <2> QED
    BY <1>4, <2>2, <2>3, <2>4 DEF Follows, IsAssignment
<1> QED
  BY <1>1, <1>2, <1>3, <1>4 DEF IsAssignment

LEMMA TraceStates ==
  ASSUME NEW f, NEW lines, NEW content, NEW start, NEW n \in Nat,
         IsTrace(f, lines, content, start, n), DOMAIN start = Variables
  PROVE  /\ f[0] = Start(start)
         /\ \A m \in 0 .. n : IsState(f[m])
         /\ \A m \in 0 .. n - 1 : f[m + 1] = After(content[lines[m + 1]], f[m])
<1>1. f[0] = Start(start) /\ 0 \in 0 .. n
  BY DEF IsTrace
<1>2. ASSUME NEW m \in 0 .. n - 1 PROVE f[m + 1] = After(content[lines[m + 1]], f[m])
  <2>1. m + 1 \in 0 .. n /\ m + 1 # 0 /\ m + 1 - 1 = m
    OBVIOUS
  <2> QED
    BY <2>1 DEF IsTrace
<1> DEFINE T == {m \in 0 .. n : ~IsState(f[m])}
<1>3. T = {}
  <2> SUFFICES ASSUME T # {} PROVE FALSE
    OBVIOUS
  <2>1. PICK k \in T : \A y \in T : k <= y
    <3>1. T \in SUBSET Nat
      OBVIOUS
    <3> HIDE DEF T
    <3> QED
      BY <3>1, Least
  <2>2. CASE k = 0
    <3>1. IsState(Start(start))
      BY DEF IsState, Start
    <3> QED
      BY <1>1, <2>2, <3>1
  <2>3. CASE k # 0
    <3>1. k \in 0 .. n
      OBVIOUS
    <3>2. PICK j \in 0 .. n - 1 : k = j + 1
      <4>1. k - 1 \in 0 .. n - 1 /\ k = k - 1 + 1
        BY <2>3, <3>1
      <4> QED
        BY <4>1
    <3>3. j \in 0 .. n /\ ~(k <= j)
      BY <3>2
    <3>4. IsState(f[j])
      BY <2>1, <3>3
    <3>5. IsState(f[k])
      <4> DEFINE l == content[lines[k]]
                 s == f[j]
      <4>1. f[k] = After(l, s) /\ IsState(s)
        BY <1>2, <3>2, <3>4
      <4> HIDE DEF l, s
      <4>2. IsState(After(l, s))
        BY <4>1, AfterIs DEF Follows
      <4> QED
        BY <4>1, <4>2
    <3> QED
      BY <3>5
  <2> QED
    BY <2>2, <2>3
<1> QED
  BY <1>1, <1>2, <1>3

-----------------------------------------------------------------------------
(* Values in the source and in the code.                                   *)
Own == UserVars \cup 0 .. size

Agree(d, e) == \A v \in Own : d[v] = e[v]

LEMMA OwnLines ==
  ASSUME Inv, Right, NEW i \in 1 .. size
  PROVE  /\ source[i].target \in Own /\ source[i].target \in Variables
         /\ \A o \in {source[i].arg1, source[i].arg2} :
              /\ IsVariable(o) => o.variable \in Own /\ o.variable \in Variables
              /\ IsVariable(o) => o = Variable(o.variable)
<1>1. source[i] \in Line /\ size \in Nat
  BY SourceFacts, CodeIs DEF Inv, TypeOK
<1>2. Own \subseteq Variables
  BY <1>1 DEF Own, Variables, size
<1>3. source[i].target \in Own
  BY DEF Right, OwnVariables, Own, size
<1>4. ASSUME NEW o \in {source[i].arg1, source[i].arg2}, IsVariable(o)
      PROVE  o.variable \in Own /\ o = Variable(o.variable)
  <2>1. o.variable \in Own
    BY <1>4 DEF Right, OwnVariables, Own, size
  <2>2. o \in Operand
    BY <1>1 DEF Line
  <2>3. o \in [variable : UserVars \cup Int]
    BY <1>4, <2>2 DEF Operand, IsVariable, NoOperand
  <2> QED
    BY <2>1, <2>3 DEF Variable
<1> QED
  BY <1>2, <1>3, <1>4

LEMMA ComputedAgree ==
  ASSUME Inv, Right, NEW i \in 1 .. size, NEW d, NEW e, Agree(d, e)
  PROVE  /\ Computed(source[i], d) = Computed(source[i], e)
         /\ ValueOf(source[i].arg1, d) = ValueOf(source[i].arg1, e)
<1>1. \A o \in {source[i].arg1, source[i].arg2} : ValueOf(o, d) = ValueOf(o, e)
  BY OwnLines DEF ValueOf, Agree
<1> QED
  BY <1>1 DEF Computed

(* An expression keeps its value when no operand of it is written.         *)
LEMMA ComputedKept ==
  ASSUME Inv, Right, NEW i \in 1 .. size, NEW d, NEW e, NEW x,
         \A v \in Variables : v # x => d[v] = e[v],
         Variable(x) \notin {source[i].arg1, source[i].arg2}
  PROVE  Computed(source[i], d) = Computed(source[i], e)
<1>1. \A o \in {source[i].arg1, source[i].arg2} : ValueOf(o, d) = ValueOf(o, e)
  BY OwnLines DEF ValueOf
<1> QED
  BY <1>1 DEF Computed

LEMMA SameComputed ==
  ASSUME NEW i, NEW j, SameExpression(i, j), source[j].op = "ADD", NEW e
  PROVE  Computed(source[i], e) = Computed(source[j], e)
<1>1. /\ source[i].op = source[j].op /\ source[i].arg1 = source[j].arg1
      /\ source[i].arg2 = source[j].arg2
  BY DEF SameExpression, Key
<1> QED
  BY <1>1 DEF Computed

(* Between two lines of a block there are only assignments.                *)
LEMMA SourceRises ==
  ASSUME Inv, NEW i \in 1 .. size, NEW j \in i .. size
  PROVE  source[i].bb <= source[j].bb
<1>1. /\ size \in Nat \ {0}
      /\ \A k \in 1 .. size : source[k] \in Line /\ source[k].bb \in Nat
      /\ \A k \in 1 .. size - 1 :
           source[k + 1].bb = source[k].bb + 1 \/ source[k + 1].bb = source[k].bb
  BY SourceFacts DEF Inv, TypeOK
<1> DEFINE T == {k \in i .. size : ~(source[i].bb <= source[k].bb)}
<1>2. T = {}
  <2> SUFFICES ASSUME T # {} PROVE FALSE
    OBVIOUS
  <2>1. PICK k \in T : \A y \in T : k <= y
    <3>1. T \in SUBSET Nat
      BY <1>1
    <3> HIDE DEF T
    <3> QED
      BY <3>1, Least
  <2>2. k \in i .. size /\ k # i
    BY <1>1
  <2>3. PICK m \in i .. size : k = m + 1
    <3>1. k - 1 \in i .. size /\ k = k - 1 + 1
      BY <1>1, <2>2
    <3> QED
      BY <3>1
  <2>4. ~(k <= m) /\ m \in 1 .. size - 1
    BY <1>1, <2>2, <2>3
  <2>5. source[i].bb <= source[m].bb
    BY <2>1, <2>4
  <2>6. source[k].bb >= source[m].bb
    BY <1>1, <2>3, <2>4
  <2> QED
    BY <1>1, <2>2, <2>4, <2>5, <2>6
<1> QED
  BY <1>2

LEMMA OnlyAssignments ==
  ASSUME Inv, NEW i \in 1 .. size, NEW j \in 1 .. size, source[i].bb = source[j].bb,
         NEW c \in 1 .. size, i < c, c < j
  PROVE  IsAssignment(source[c])
<1>1. /\ size \in Nat \ {0}
      /\ \A k \in 1 .. size : source[k].bb \in Nat
  BY SourceFacts DEF Inv, TypeOK
<1>2. PICK m \in 1 .. size - 1 : m + 1 = c
  <2>1. c - 1 \in 1 .. size - 1 /\ c - 1 + 1 = c
    BY <1>1
  <2> QED
    BY <2>1
<1>3. /\ m \in i .. size /\ c \in m .. size /\ c + 1 \in c .. size /\ j \in c + 1 .. size
      /\ m \in 1 .. size /\ c + 1 \in 1 .. size /\ c \in 1 .. size - 1
  BY <1>1, <1>2
<1>4. /\ source[i].bb <= source[m].bb /\ source[m].bb <= source[c].bb
      /\ source[c].bb <= source[c + 1].bb /\ source[c + 1].bb <= source[j].bb
  BY <1>3, SourceRises
<1>5. source[m].bb = source[c].bb /\ source[c + 1].bb = source[c].bb
  BY <1>1, <1>3, <1>4
<1>6. \A k \in 1 .. size - 1 :
        \/ source[k + 1].bb = source[k].bb + 1
        \/ /\ source[k + 1].bb = source[k].bb
           /\ source[k].op \notin Jumps /\ source[k + 1].op # "LABEL"
  BY DEF Inv, TypeOK, InBlocks, size
<1>7. source[c].op # "LABEL"
  <2>1. source[m + 1].bb # source[m].bb + 1
    BY <1>1, <1>2, <1>3, <1>5
  <2> QED
    BY <1>2, <1>6, <2>1
<1>8. source[c].op \notin Jumps
  <2>1. source[c + 1].bb # source[c].bb + 1
    BY <1>1, <1>3, <1>5
  <2> QED
    BY <1>3, <1>6, <2>1
<1> QED
  BY <1>7, <1>8 DEF IsAssignment

-----------------------------------------------------------------------------
(* The code and its source, side by side.  d is the state behind n lines   *)
(* of the code, e the one behind p lines of the source.                    *)

(* The copy of a value that is needed again is still its value.            *)
Knows(d, e, n, p) ==
  \A i, k \in 1 .. size :
    -i \in Copies /\ (\E q \in 1 .. n : codeLines[q] = -i)
      /\ SameExpression(i, k) /\ i <= p /\ p < k
    => e.jumping \/ d.env[-i] = Computed(source[i], e.env)

Sim(d, e, n, p) ==
  /\ IsState(d) /\ IsState(e)
  /\ d.jumping = e.jumping /\ Agree(d.env, e.env) /\ Knows(d, e, n, p)

(* The value that is used instead of a sum is the sum.                     *)
LEMMA ReplacedValue ==
  ASSUME Inv, Right, CopiesInPlace, phase = "done", NEW n \in 0 .. total - 1,
         NEW p \in Nat, codeLines[n + 1] = p + 1, p + 1 \in 1 .. size,
         NEW d, NEW e, Sim(d, e, n, p), ~e.jumping, Replaced(p + 1)
  PROVE  Computed(line[p + 1], d.env) = Computed(source[p + 1], e.env)
<1> DEFINE c == p + 1
<1>1. c \in 1 .. size /\ c \in Nat /\ p = c - 1 /\ codeLines[n + 1] = c /\ Replaced(c)
  OBVIOUS
<1> HIDE DEF c
<1>2. /\ size \in Nat /\ total \in Nat
  BY CodeIs
<1>3. Computed(line[c], d.env) = ValueOf(line[c].arg2, d.env)
  BY <1>1 DEF Computed, Replaced
<1>4. CASE FoldsTo(source[c], line[c].arg2)
  <2>1. /\ ValueOf(source[c].arg1, e.env) = source[c].arg1.literal
        /\ ValueOf(source[c].arg2, e.env) = source[c].arg2.literal
    <3>1. \A o : IsLiteral(o) /\ o \in Operand => ~IsVariable(o)
      BY DEF IsLiteral, IsVariable, Operand, NoOperand
    <3>2. source[c].arg1 \in Operand /\ source[c].arg2 \in Operand
      <4>1. source[c] \in Line
        BY <1>1, SourceFacts DEF Inv, TypeOK
      <4> QED
        BY <4>1 DEF Line
    <3> QED
      BY <1>4, <3>1, <3>2 DEF FoldsTo, ValueOf
  <2>2. ValueOf(line[c].arg2, d.env) = source[c].arg1.literal + source[c].arg2.literal
    BY <1>4 DEF FoldsTo, ValueOf, IsVariable, IntLiteral
  <2>3. Computed(source[c], e.env) = source[c].arg1.literal + source[c].arg2.literal
    BY <1>1, <2>1 DEF Computed, Replaced
  <2> QED
    BY <1>3, <2>2, <2>3 DEF c
<1>5. ASSUME NEW j \in 1 .. c - 1, SameExpression(j, c),
             line[c].arg2 = Variable(-j), Planned(-j)
      PROVE  Computed(line[c], d.env) = Computed(source[c], e.env)
  <2>1. tempVarAssign = <<>>
    BY DEF Right, PlansDone
  <2>2. -j \in Copies
    <3>1. -j \in DOMAIN line
      BY <1>5, <2>1 DEF Planned
    <3>2. -j < 0
      BY <1>1
    <3> QED
      BY <3>1, <3>2 DEF Copies
  <2> DEFINE t == -j
  <2>3. t \in Copies /\ -t = j /\ n < total /\ n \in 0 .. total /\ codeLines[n + 1] > -t
    BY <1>1, <1>2, <2>2
  <2> HIDE DEF t
  <2>4. \E q \in 1 .. n : codeLines[q] = t
    BY <2>3, CopyPassed
  <2>5. j \in 1 .. size /\ j <= p /\ p < c
    BY <1>1, <1>2
  <2>6. d.env[-j] = Computed(source[j], e.env)
    BY <1>1, <1>5, <2>2, <2>4, <2>5 DEF Sim, Knows, t
  <2>7. ValueOf(Variable(-j), d.env) = d.env[-j]
    BY DEF ValueOf, IsVariable, Variable
  <2>8. Computed(source[j], e.env) = Computed(source[c], e.env)
    BY <1>1, <1>5, SameComputed DEF Replaced
  <2> QED
    BY <1>3, <1>5, <2>6, <2>7, <2>8
<1> QED
  BY <1>1, <1>4, <1>5 DEF Replaced, c

LEMMA SourceStep ==
  ASSUME Inv, Right, CopiesInPlace, Undisturbed, phase = "done",
         NEW n \in 0 .. total - 1,
         NEW p \in Nat, p = Passed(n), codeLines[n + 1] = p + 1, p + 1 \in 1 .. size,
         NEW d, NEW e, Sim(d, e, n, p)
  PROVE  Sim(After(line[p + 1], d), After(source[p + 1], e), n + 1, p + 1)
<1> DEFINE c == p + 1
           l == line[c]
           s == source[c]
           d2 == After(l, d)
           e2 == After(s, e)
<1>1. /\ c \in 1 .. size /\ c \in Nat /\ p < c /\ \A k \in Int : k <= p => k < c
      /\ codeLines[n + 1] = c
  OBVIOUS
<1>2. size \in Nat /\ total \in Nat
  BY CodeIs
<1>3. /\ IsState(d) /\ IsState(e) /\ d.jumping = e.jumping /\ Agree(d.env, e.env)
      /\ d.jumping \in BOOLEAN
  BY DEF Sim, IsState
<1>4. s.target \in Own /\ s.target \in Variables /\ Own \subseteq Variables
  <2>1. Own \subseteq Variables
    BY <1>2 DEF Own, Variables, size
  <2> QED
    BY <1>1, <2>1, OwnLines
<1>5. l = s \/ (Replaced(c) /\ l.target = s.target /\ l.op = "ASSIGN" /\ s.op = "ADD")
  BY <1>1 DEF Right, LinesRight, Replaced
<1>6. l.target = s.target /\ (IsAssignment(l) <=> IsAssignment(s))
  BY <1>5 DEF IsAssignment, Jumps
<1>7. ~e.jumping => Computed(l, d.env) = Computed(s, e.env)
  <2>1. CASE l = s
    BY <1>1, <1>3, <2>1, ComputedAgree
  <2>2. CASE Replaced(c)
    BY <1>1, <2>2, ReplacedValue
  <2> QED
    BY <1>5, <2>1, <2>2
<1>8. l = s => ValueOf(l.arg1, d.env) = ValueOf(s.arg1, e.env)
  BY <1>1, <1>3, ComputedAgree
<1> HIDE DEF c
<1> HIDE DEF l, s, d2, e2
<1>9. Follows(l, d, d2) /\ Follows(s, e, e2)
  BY <1>3, AfterIs DEF d2, e2
<1> HIDE DEF d2, e2
<1>10. /\ IsState(d2) /\ IsState(e2)
       /\ \A v \in Variables : v # l.target => d2.env[v] = d.env[v]
       /\ \A v \in Variables : v # s.target => e2.env[v] = e.env[v]
  BY <1>9 DEF Follows
<1>11. d2.jumping = e2.jumping
  <2>1. CASE l.op = "LABEL" /\ s.op = "LABEL"
    BY <1>9, <2>1 DEF Follows
  <2>2. CASE IsAssignment(l) /\ IsAssignment(s)
    BY <1>3, <1>9, <2>2 DEF Follows
  <2>3. CASE l = s /\ l.op \in Jumps /\ l.op # "LABEL"
    <3>1. CASE e.jumping
      BY <1>3, <1>9, <2>3, <3>1 DEF Follows
    <3>2. CASE ~e.jumping
      <4>1. d2.jumping <=> (l.op = "JUMP" \/ ValueOf(l.arg1, d.env) = 0)
        BY <1>3, <1>9, <2>3, <3>2 DEF Follows
      <4>2. e2.jumping <=> (s.op = "JUMP" \/ ValueOf(s.arg1, e.env) = 0)
        BY <1>3, <1>9, <2>3, <3>2 DEF Follows
      <4>3. d2.jumping \in BOOLEAN /\ e2.jumping \in BOOLEAN
        BY <1>10 DEF IsState
      <4> QED
        BY <1>8, <2>3, <4>1, <4>2, <4>3
    <3> QED
      BY <3>1, <3>2
  <2> QED
    BY <1>5, <1>6, <2>1, <2>2, <2>3 DEF IsAssignment, Jumps
<1>12. Agree(d2.env, e2.env)
  <2> SUFFICES ASSUME NEW v \in Own PROVE d2.env[v] = e2.env[v]
    BY DEF Agree
  <2>1. d.env[v] = e.env[v] /\ v \in Variables
    BY <1>3, <1>4 DEF Agree
  <2>2. CASE v # s.target
    BY <1>6, <1>10, <2>1, <2>2
  <2>3. CASE v = s.target
    <3>1. CASE IsAssignment(s) /\ ~e.jumping
      <4>1. d2.env[v] = Computed(l, d.env)
        BY <1>3, <1>4, <1>6, <1>9, <2>3, <3>1 DEF Follows
      <4>2. e2.env[v] = Computed(s, e.env)
        BY <1>4, <1>9, <2>3, <3>1 DEF Follows
      <4> QED
        BY <1>7, <3>1, <4>1, <4>2
    <3>2. CASE ~(IsAssignment(s) /\ ~e.jumping)
      <4>1. e2.env = e.env
        BY <1>9, <3>2 DEF Follows, IsAssignment
      <4>2. d2.env = d.env
        BY <1>3, <1>6, <1>9, <3>2 DEF Follows, IsAssignment
      <4> QED
        BY <2>1, <4>1, <4>2
    <3> QED
      BY <3>1, <3>2
  <2> QED
    BY <2>2, <2>3
<1>13. Knows(d2, e2, n + 1, c)
  <2> SUFFICES ASSUME NEW i \in 1 .. size, NEW k \in 1 .. size,
                      -i \in Copies, NEW q \in 1 .. n + 1, codeLines[q] = -i,
                      SameExpression(i, k), i <= c, c < k, ~e2.jumping
               PROVE  d2.env[-i] = Computed(source[i], e2.env)
    BY DEF Knows
  <2>1. q \in 1 .. n
    <3>1. q # n + 1
      BY <1>1
    <3> QED
      BY <1>2, <3>1
  <2>2. i <= p
    <3>1. codeLines[q] < 0 /\ -codeLines[q] = i /\ n \in 0 .. total
      BY <1>2
    <3> QED
      BY <2>1, <3>1, CopyPassed
  <2>3. i < c /\ p < k
    BY <1>1, <2>2
  <2>4. IsAssignment(s)
    BY <1>1, <2>3, OnlyAssignments DEF s, SameExpression
  <2>5. ~e.jumping
    BY <1>9, <2>4 DEF Follows
  <2>6. d.env[-i] = Computed(source[i], e.env)
    BY <2>1, <2>2, <2>3, <2>5 DEF Sim, Knows
  <2>7. Variable(s.target) \notin {source[i].arg1, source[i].arg2}
    <3>1. c \in i .. k /\ i < k
      BY <1>1, <2>3
    <3>2. i \in 1 .. Len(source) /\ k \in 1 .. Len(source)
      BY DEF size
    <3> QED
      BY <3>1, <3>2 DEF Undisturbed, s
  <2>8. Computed(source[i], e2.env) = Computed(source[i], e.env)
    BY <1>10, <2>7, ComputedKept
  <2>9. -i # l.target /\ -i \in Variables
    <3>1. -i \in Variables /\ -i \in Int /\ -i \notin 0 .. size
      BY <1>2 DEF Variables, size
    <3>2. -i \notin UserVars
      BY <3>1, UserVarsAssumption
    <3> QED
      BY <1>4, <1>6, <3>1, <3>2 DEF Own
  <2> QED
    BY <1>10, <2>6, <2>8, <2>9
<1> QED
  BY <1>10, <1>11, <1>12, <1>13 DEF Sim, c, l, s, d2, e2

(* A copy behind its line takes the value of that line.  a is the state    *)
(* before the line.                                                        *)
LEMMA CopyStep ==
  ASSUME Inv, Right, CopiesInPlace, Undisturbed,
         NEW n \in 1 .. total - 1, NEW p \in 1 .. size,
         codeLines[n] = p, codeLines[n + 1] = -p,
         NEW d, NEW e, NEW a, Sim(d, e, n, p), IsState(a), e = After(source[p], a)
  PROVE  Sim(After(line[-p], d), e, n + 1, p)
<1> DEFINE t == -p
           l == line[t]
           s == source[p]
           d2 == After(l, d)
<1>1. size \in Nat /\ total \in Nat
  BY CodeIs
<1>2. t \in Copies /\ t < 0 /\ t \in Int /\ -t = p
  <2>1. n + 1 \in 1 .. total
    BY <1>1
  <2>2. codeLines[n + 1] \in DOMAIN line
    BY <2>1, CodeIs
  <2> QED
    BY <2>2 DEF Copies
<1> HIDE DEF t
<1>3. /\ s.op = "ADD" /\ l.op = "ASSIGN" /\ l.target = t /\ l.arg2 = Variable(s.target)
  BY <1>2 DEF Right, CopiesRight
<1>4. /\ IsState(d) /\ IsState(e) /\ d.jumping = e.jumping /\ Agree(d.env, e.env)
  BY DEF Sim
<1>5. s.target \in Own /\ s.target \in Variables /\ Own \subseteq Variables
  <2>1. Own \subseteq Variables
    BY <1>1 DEF Own, Variables, size
  <2> QED
    BY <2>1, OwnLines
<1>6. t \in Variables /\ t \notin Own
  <2>1. t \notin UserVars /\ t \notin 0 .. size
    BY <1>1, <1>2, UserVarsAssumption
  <2> QED
    BY <1>1, <1>2, <2>1 DEF Own, Variables, size
<1> HIDE DEF l, d2
<1>7. /\ IsState(d2) /\ d2.jumping = d.jumping
      /\ ~d.jumping => d2.env[t] = Computed(l, d.env)
      /\ \A v \in Variables : v # t => d2.env[v] = d.env[v]
  <2>1. IsAssignment(l)
    BY <1>3 DEF IsAssignment, Jumps
  <2>2. Follows(l, d, d2)
    BY <1>4, AfterIs DEF d2
  <2> QED
    BY <1>3, <1>6, <2>1, <2>2 DEF Follows
<1>8. Agree(d2.env, e.env)
  BY <1>4, <1>5, <1>6, <1>7 DEF Agree
<1>9. Knows(d2, e, n + 1, p)
  <2> SUFFICES ASSUME NEW i \in 1 .. size, NEW k \in 1 .. size,
                      -i \in Copies, NEW q \in 1 .. n + 1, codeLines[q] = -i,
                      SameExpression(i, k), i <= p, p < k, ~e.jumping
               PROVE  d2.env[-i] = Computed(source[i], e.env)
    BY DEF Knows
  <2>1. CASE i = p
    <3>1. -i = t
      BY <2>1 DEF t
    <3>2. d2.env[t] = d.env[s.target]
      <4>1. d2.env[t] = Computed(l, d.env)
        BY <1>4, <1>7
      <4>2. Computed(l, d.env) = ValueOf(Variable(s.target), d.env)
        BY <1>3 DEF Computed
      <4> QED
        BY <4>1, <4>2 DEF ValueOf, IsVariable, Variable
    <3>3. d.env[s.target] = e.env[s.target]
      BY <1>4, <1>5 DEF Agree
    <3> HIDE DEF s
    <3>4. IsAssignment(s)
      BY <1>3 DEF IsAssignment, Jumps
    <3>5. /\ e.env[s.target] = Computed(s, a.env)
          /\ \A v \in Variables : v # s.target => e.env[v] = a.env[v]
      <4>1. e = After(s, a)
        BY DEF s
      <4> DEFINE b == After(s, a)
      <4>2. Follows(s, a, b)
        BY AfterIs
      <4>3. e = b
        BY <4>1
      <4> HIDE DEF b
      <4> QED
        BY <1>5, <3>4, <4>2, <4>3 DEF Follows
    <3>6. Computed(s, e.env) = Computed(s, a.env)
      <4>1. Variable(s.target) \notin {source[p].arg1, source[p].arg2}
        <5>1. p \in i .. k /\ i < k
          BY <2>1
        <5>2. i \in 1 .. Len(source) /\ k \in 1 .. Len(source)
          BY DEF size
        <5> QED
          BY <2>1, <5>1, <5>2 DEF Undisturbed, s
      <4> QED
        BY <3>5, <4>1, ComputedKept DEF s
    <3> QED
      BY <2>1, <3>1, <3>2, <3>3, <3>5, <3>6 DEF s
  <2>2. CASE i # p
    <3>1. q \in 1 .. n
      <4>1. q # n + 1
        BY <2>2
      <4> QED
        BY <1>1, <4>1
    <3>2. d.env[-i] = Computed(source[i], e.env)
      BY <3>1 DEF Sim, Knows
    <3>3. -i # t /\ -i \in Variables
      BY <1>1, <2>2 DEF t, Variables, size
    <3> QED
      BY <1>7, <3>2, <3>3
  <2> QED
    BY <2>1, <2>2
<1> QED
  BY <1>4, <1>7, <1>8, <1>9 DEF Sim, t, l, d2

LEMMA RunsAgree ==
  ASSUME Inv, Right, CopiesInPlace, Undisturbed, phase = "done",
         NEW start, DOMAIN start = Variables
  PROVE  Agree(Run(codeLines, line, start),
               Run([i \in 1 .. Len(source) |-> i], source, start))
<1> DEFINE all == [i \in 1 .. size |-> i]
<1>1. /\ size \in Nat \ {0} /\ total \in Nat \ {0}
      /\ Len(codeLines) = total /\ Len(all) = size
      /\ all = [i \in 1 .. Len(source) |-> i] /\ \A i \in 1 .. size : all[i] = i
  BY CodeIs DEF total, size
<1> HIDE DEF all
<1>2. PICK f : /\ IsTrace(f, codeLines, line, start, total)
               /\ Run(codeLines, line, start) = f[total].env
  BY <1>1, RunByLines
<1>3. PICK g : /\ IsTrace(g, all, source, start, size)
               /\ Run(all, source, start) = g[size].env
  BY <1>1, RunByLines
<1>4. /\ f[0] = Start(start)
      /\ \A m \in 0 .. total : IsState(f[m])
      /\ \A m \in 0 .. total - 1 : f[m + 1] = After(line[codeLines[m + 1]], f[m])
  BY <1>1, <1>2, TraceStates
<1>5. /\ g[0] = Start(start)
      /\ \A m \in 0 .. size : IsState(g[m])
      /\ \A m \in 0 .. size - 1 : g[m + 1] = After(source[m + 1], g[m])
  <2>1. /\ g[0] = Start(start)
        /\ \A m \in 0 .. size : IsState(g[m])
        /\ \A m \in 0 .. size - 1 : g[m + 1] = After(source[all[m + 1]], g[m])
    BY <1>1, <1>3, TraceStates
  <2>2. \A m \in 0 .. size - 1 : all[m + 1] = m + 1
    BY <1>1
  <2> QED
    BY <2>1, <2>2
<1> DEFINE Good(n) == Sim(f[n], g[Passed(n)], n, Passed(n))
           T == {n \in 0 .. total : ~Good(n)}
<1>6. Good(0)
  <2>1. Passed(0) = 0 /\ IsState(f[0]) /\ IsState(g[0]) /\ f[0] = g[0]
    BY <1>1, <1>4, <1>5 DEF Passed
  <2>2. Knows(f[0], g[0], 0, 0)
    BY DEF Knows
  <2> QED
    BY <2>1, <2>2 DEF Sim, Agree
<1>7. ASSUME NEW n \in 0 .. total - 1, Good(n) PROVE Good(n + 1)
  <2> DEFINE p == Passed(n)
             d == f[n]
             e == g[p]
             n1 == n + 1
  <2>1. /\ p \in 0 .. size /\ n1 = n + 1 /\ n1 \in 1 .. total
        /\ Sim(d, e, n, p) /\ f[n1] = After(line[codeLines[n1]], d)
        /\ \/ codeLines[n1] = p + 1 /\ p + 1 \in 1 .. size
           \/ /\ codeLines[n1] < 0 /\ n \in 1 .. total
              /\ codeLines[n] = -codeLines[n1] /\ codeLines[n] > 0
    <3>1. /\ p \in 0 .. size
          /\ \/ codeLines[n1] = p + 1 /\ codeLines[n1] \in 1 .. size
             \/ /\ codeLines[n1] < 0 /\ n \in 1 .. total
                /\ codeLines[n] = -codeLines[n1] /\ codeLines[n] > 0
      BY LineAfter
    <3>2. n1 \in 1 .. total
      BY <1>1
    <3> QED
      BY <1>4, <1>7, <3>1, <3>2
  <2>2. n1 # 0 /\ codeLines[n1] \in Int
    BY <1>1, <2>1, CodeIs
  <2>3. p = Passed(n) /\ d = f[n] /\ e = g[p]
    OBVIOUS
  <2> HIDE DEF p, d, e
  <2>4. CASE codeLines[n1] = p + 1 /\ p + 1 \in 1 .. size
    <3>1. Passed(n1) = p + 1
      BY <2>1, <2>2, <2>4 DEF Passed
    <3>2. g[p + 1] = After(source[p + 1], e)
      BY <1>1, <1>5, <2>1, <2>3, <2>4
    <3>3. Sim(After(line[p + 1], d), After(source[p + 1], e), n1, p + 1)
      BY <2>1, <2>3, <2>4, SourceStep
    <3> QED
      BY <2>1, <2>4, <3>1, <3>2, <3>3
  <2>5. CASE /\ codeLines[n1] < 0 /\ n \in 1 .. total
             /\ codeLines[n] = -codeLines[n1] /\ codeLines[n] > 0
    <3>1. n # 0 /\ n \in 1 .. total - 1 /\ p = codeLines[n] /\ codeLines[n1] = -p
      BY <1>1, <2>1, <2>2, <2>3, <2>5 DEF Passed
    <3>2. Passed(n1) = p /\ p \in 1 .. size
      BY <1>1, <2>1, <2>2, <2>5, <3>1 DEF Passed
    <3>3. PICK m \in 0 .. size - 1 : p = m + 1
      <4>1. p - 1 \in 0 .. size - 1 /\ p = p - 1 + 1
        BY <1>1, <3>2
      <4> QED
        BY <4>1
    <3>4. e = After(source[p], g[m]) /\ IsState(g[m])
      BY <1>1, <1>5, <2>3, <3>3
    <3> DEFINE a == g[m]
    <3>5. e = After(source[p], a) /\ IsState(a)
      BY <3>4
    <3> HIDE DEF a
    <3>6. Sim(After(line[-p], d), e, n1, p)
      BY <2>1, <3>1, <3>2, <3>5, CopyStep
    <3> QED
      BY <2>1, <2>3, <3>1, <3>2, <3>6
  <2> QED
    BY <2>1, <2>4, <2>5
<1>8. T = {}
  <2> SUFFICES ASSUME T # {} PROVE FALSE
    OBVIOUS
  <2>1. PICK k \in T : \A y \in T : k <= y
    <3>1. T \in SUBSET Nat
      BY <1>1
    <3> HIDE DEF T
    <3> QED
      BY <3>1, Least
  <2>2. k \in 0 .. total /\ ~Good(k) /\ k # 0
    <3> HIDE DEF Good
    <3> QED
      BY <1>6, <2>1
  <2> HIDE DEF Good
  <2>3. PICK j \in 0 .. total - 1 : k = j + 1
    <3>1. k - 1 \in 0 .. total - 1 /\ k = k - 1 + 1
      BY <1>1, <2>2
    <3> QED
      BY <3>1
  <2>4. j \in 0 .. total /\ ~(k <= j)
    BY <1>1, <2>3
  <2>5. Good(j)
    BY <2>1, <2>4
  <2> QED
    BY <1>7, <2>2, <2>3, <2>5
<1>9. Good(total)
  <2>1. total \in 0 .. total
    BY <1>1
  <2> HIDE DEF Good
  <2> QED
    BY <1>8, <2>1
<1>10. Agree(f[total].env, g[size].env)
  BY <1>9, LastPassed DEF Sim
<1> QED
  BY <1>1, <1>2, <1>3, <1>10

(* LVN::transform keeps the meaning of code in which no operand of a       *)
(* reused expression is assigned, if each copy is behind the line of its   *)
(* value: the variables of the source end with the same values.            *)
THEOREM MeaningKeptCorrect == Spec => []MeaningKept
<1>1. Inv /\ Right => MeaningKept
  <2> SUFFICES ASSUME Inv, Right, phase = "done", Undisturbed, CopiesInPlace
               PROVE  Equivalent
    BY DEF MeaningKept
  <2> SUFFICES ASSUME NEW start \in Starts, NEW v \in UserVars \cup 1 .. Len(source)
               PROVE  Run([i \in 1 .. Len(source) |-> i], source, start)[v]
                        = Run(codeLines, line, start)[v]
    BY DEF Equivalent
  <2>1. DOMAIN start = Variables
    BY DEF Starts
  <2>2. Agree(Run(codeLines, line, start),
              Run([i \in 1 .. Len(source) |-> i], source, start))
    BY <2>1, RunsAgree
  <2>3. v \in Own
    BY DEF Own, size
  <2> QED
    BY <2>2, <2>3 DEF Agree
<1>2. Spec => []Right
  <2>1. Init => Right
    BY InitRight
  <2>2. Inv /\ Right /\ [Next]_vars => Right'
    BY NextRight
  <2> QED
    BY <2>1, <2>2, InvariantHolds, PTL DEF Spec
<1> QED
  BY <1>1, <1>2, InvariantHolds, PTL
=============================================================================
