----------------------------- MODULE NamesProofs -----------------------------
(***************************************************************************)
(* Proofs that parser and converters agree on the scope they are in, that  *)
(* the set, the table and the map of the VariableStore agree, and that a   *)
(* name may only resolve to another variable than the parser's in the way  *)
(* that MisresolvedOnlyByCollision describes, for programs of any size.    *)
(***************************************************************************)
EXTENDS Names, SequenceTheorems, WellFoundedInduction, TLAPS

Scope == [depth : Nat, index : Nat, parent : Nat, nextIndex : Nat]
Variable == [name : Names \cup {Temp}, type : Types, scope : Nat, place : Nat \X Nat]

(* The tree: every scope but the root hangs below an earlier one.          *)
TreeOK ==
  /\ scopes \in Seq(Scope) /\ scopes # <<>>
  /\ currentScope \in DOMAIN scopes /\ checkPoint \in DOMAIN scopes
  /\ \A s \in DOMAIN scopes :
       IF s = 1 THEN scopes[s].parent = 0 /\ scopes[s].depth = 0
       ELSE /\ scopes[s].parent \in 1 .. s - 1
            /\ scopes[s].depth = scopes[scopes[s].parent].depth + 1

(* Functions that PathTo may be.  There is exactly one, because the tree   *)
(* grew scope by scope.                                                    *)
IsPathsIn(tree, f) ==
  f = [s \in DOMAIN tree |->
         IF tree[s].parent = 0 THEN <<s>> ELSE Append(f[tree[s].parent], s)]

IsPaths(f) == IsPathsIn(scopes, f)

PathsExist ==
  /\ \E f : IsPaths(f)
  /\ \A f, g : IsPaths(f) /\ IsPaths(g) => f = g

PathsOK ==
  \A s \in DOMAIN scopes :
    LET path == PathTo[s]
    IN /\ path \in Seq(DOMAIN scopes)
       /\ Len(path) = scopes[s].depth + 1 /\ path[Len(path)] = s
       /\ \A i \in 1 .. Len(path) : scopes[path[i]].depth = i - 1

PlaceIn(tree, s) == Place(tree[s].depth, tree[s].index)

VariablesOK ==
  /\ variables \in Seq(Variable)
  /\ \A v \in DOMAIN variables :
       /\ variables[v].scope \in DOMAIN scopes
       /\ variables[v].place = PlaceIn(scopes, variables[v].scope)

Row == [Names -> Nat]

(* The scopes ps of the parser hold variables of vs under their names.     *)
ParserKnows(ps, vs) ==
  /\ ps \in Seq(Row) /\ ps # <<>>
  /\ \A d \in DOMAIN ps, n \in Names :
       ps[d][n] # 0 => ps[d][n] \in DOMAIN vs /\ vs[ps[d][n]].name = n

ParserOK == ParserKnows(parserScopes, variables)

Live == task \in {"convert", "lookup", "found"}

(* Where statements are being converted: lookups climb from there.         *)
Base == IF task = "lookup" THEN checkPoint ELSE currentScope

(* The variables of the scopes on a path are those that the parser knows   *)
(* in its scopes.                                                          *)
ScopesAgree(path, ps, vs) ==
  /\ Len(path) = Len(ps)
  /\ \A d \in DOMAIN ps, n \in Names :
       ps[d][n] # 0 => vs[ps[d][n]].scope = path[d]
  /\ \A d \in DOMAIN ps, r \in DOMAIN vs :
       vs[r].name \in Names /\ vs[r].scope = path[d] => ps[d][vs[r].name] = r

InScope == Live => ScopesAgree(PathTo[Base], parserScopes, variables)

Pending == IF task = "convert" THEN 0 ELSE statement.var

StatementOK ==
  task \in {"lookup", "found"} =>
    /\ statement.name \in Names
    /\ statement.kind \in {"assign"} \cup AllInitializers
    /\ statement.parsed \in DOMAIN variables
    /\ IF statement.kind = "assign" THEN statement.var = 0
       ELSE /\ statement.var = Len(variables)
            /\ statement.var # statement.parsed
            /\ statement.var \in DOMAIN variables
            /\ variables[statement.var].name \in Names

(* The parser resolved the name in its scope d: in those within it the     *)
(* name is unknown, or the variable that the statement declares.           *)
ParsedAt(d) ==
  /\ d \in DOMAIN parserScopes
  /\ parserScopes[d][statement.name] = statement.parsed
  /\ \A e \in DOMAIN parserScopes :
       e > d => parserScopes[e][statement.name] \in {0, statement.var}

LookupOK ==
  task = "lookup" =>
    LET here == PathTo[currentScope]
    IN /\ checkPointValid
       /\ Len(here) <= Len(parserScopes)
       /\ \A i \in 1 .. Len(here) : PathTo[checkPoint][i] = here[i]
       /\ \E d \in DOMAIN parserScopes : ParsedAt(d) /\ (~lost => d <= Len(here))

(* What the store holds, c being its Contents: variables at their keys.    *)
KeysOK(c, vs) ==
  /\ \A k \in DOMAIN c.store : c.store[k] \in DOMAIN vs /\ Key(vs, c.store[k]) = k
  /\ \A k \in DOMAIN c.map : c.map[k] \in DOMAIN vs /\ Key(vs, c.map[k]) = k

Agree(c, vs) ==
  /\ c.table \in Seq(DOMAIN vs)
  /\ c.store = c.map /\ Range(c.table) = Range(c.store)

(* The variables that the parser knows are in the map, but for the one     *)
(* that waits for its initialiser.                                         *)
Entered(map, ps, vs, pending) ==
  /\ \A k \in DOMAIN map : map[k] # pending
  /\ \A d \in DOMAIN ps, n \in Names :
       ps[d][n] \notin {0, pending} => Key(vs, ps[d][n]) \in DOMAIN map

StoresOK ==
  /\ KeysOK(Contents, variables)
  /\ Live /\ ~lost => /\ Agree(Contents, variables)
                      /\ Entered(renameMap, parserScopes, variables, Pending)

FoundOK == task = "found" => result \in DOMAIN variables

Inv ==
  /\ TreeOK /\ PathsExist /\ PathsOK /\ VariablesOK /\ ParserOK /\ InScope
  /\ StatementOK /\ LookupOK /\ StoresOK /\ FoundOK
  /\ CrashesOnlyAfterLoss /\ MisresolvedOnlyByCollision

-----------------------------------------------------------------------------
(* Paths.                                                                  *)

LEMMA PathToIs ==
  ASSUME PathsExist
  PROVE  IsPaths(PathTo)
BY DEF PathsExist, IsPaths, IsPathsIn, PathTo

LEMMA PathToUnfolds ==
  ASSUME PathsExist, NEW s \in DOMAIN scopes
  PROVE  PathTo[s] = IF scopes[s].parent = 0 THEN <<s>>
                     ELSE Append(PathTo[scopes[s].parent], s)
<1>1. IsPaths(PathTo)
  BY PathToIs
<1> HIDE DEF PathTo
<1> QED
  BY <1>1 DEF IsPaths, IsPathsIn

LEMMA PathsStay ==
  ASSUME scopes' = scopes
  PROVE  /\ PathTo' = PathTo
         /\ PathsExist => PathsExist'
         /\ PathsOK => PathsOK'
<1>1. PathTo' = PathTo
  BY DEF PathTo
<1>2. \A f : IsPaths(f)' <=> IsPaths(f)
  BY DEF IsPaths
<1>3. PathsExist => PathsExist'
  BY <1>2 DEF PathsExist
<1> HIDE DEF PathTo
<1> QED
  BY <1>1, <1>3 DEF PathsOK

(* What openScope does to the tree.                                        *)
Opens ==
  LET n == Len(scopes)
  IN /\ scopes' \in Seq(Scope) /\ Len(scopes') = n + 1 /\ currentScope' = n + 1
     /\ \A s \in 1 .. n : /\ scopes'[s].depth = scopes[s].depth
                          /\ scopes'[s].index = scopes[s].index
                          /\ scopes'[s].parent = scopes[s].parent
     /\ scopes'[n + 1].depth = scopes[currentScope].depth + 1
     /\ scopes'[n + 1].index = scopes[currentScope].nextIndex
     /\ scopes'[n + 1].parent = currentScope

LEMMA Opened ==
  ASSUME TreeOK, NEW declared, openScope(declared)
  PROVE  Opens /\ parserScopes' = Append(parserScopes, declared)
<1> DEFINE n == Len(scopes)
           counted == [scopes EXCEPT ![currentScope].nextIndex = @ + 1]
           new == [depth |-> scopes[currentScope].depth + 1,
                   index |-> scopes[currentScope].nextIndex,
                   parent |-> currentScope, nextIndex |-> 0]
<1>1. /\ scopes' = Append(counted, new) /\ currentScope' = n + 1
      /\ parserScopes' = Append(parserScopes, declared)
  BY DEF openScope
<1>2. /\ scopes \in Seq(Scope) /\ n \in Nat /\ currentScope \in 1 .. n
      /\ scopes[currentScope] \in Scope
  <2>1. scopes \in Seq(Scope) /\ currentScope \in DOMAIN scopes
    BY DEF TreeOK
  <2> QED
    BY <2>1
<1>3. new \in Scope
  <2>1. /\ scopes[currentScope].depth + 1 \in Nat
        /\ scopes[currentScope].nextIndex \in Nat /\ currentScope \in Nat
    BY <1>2 DEF Scope
  <2> HIDE DEF n
  <2> QED
    BY <2>1 DEF Scope
<1>4. /\ counted = [scopes EXCEPT ![currentScope] =
                      [scopes[currentScope] EXCEPT !.nextIndex = @ + 1]]
      /\ [scopes[currentScope] EXCEPT !.nextIndex = @ + 1] \in Scope
  <2>1. \A place \in Scope : [place EXCEPT !.nextIndex = @ + 1] \in Scope
    BY DEF Scope
  <2> QED
    BY <1>2, <2>1
<1>5. /\ counted \in Seq(Scope) /\ Len(counted) = n
      /\ \A s \in 1 .. n : /\ counted[s].depth = scopes[s].depth
                           /\ counted[s].index = scopes[s].index
                           /\ counted[s].parent = scopes[s].parent
  <2> DEFINE place == [scopes[currentScope] EXCEPT !.nextIndex = @ + 1]
  <2>1. /\ place \in Scope /\ place.depth = scopes[currentScope].depth
        /\ place.index = scopes[currentScope].index
        /\ place.parent = scopes[currentScope].parent
    BY <1>2, <1>4 DEF Scope
  <2>2. counted = [scopes EXCEPT ![currentScope] = place]
    BY <1>4
  <2> HIDE DEF counted, place
  <2>3. /\ counted \in Seq(Scope) /\ Len(counted) = n
        /\ \A s \in 1 .. n : counted[s] = IF s = currentScope THEN place ELSE scopes[s]
    BY <1>2, <2>1, <2>2
  <2> QED
    BY <2>1, <2>3
<1> HIDE DEF counted, new
<1>6. /\ scopes' \in Seq(Scope) /\ Len(scopes') = n + 1 /\ scopes'[n + 1] = new
      /\ \A s \in 1 .. n : scopes'[s] = counted[s]
  <2> HIDE DEF n
  <2>1. Len(counted) + 1 = n + 1
    BY <1>5
  <2> QED
    BY <1>1, <1>2, <1>3, <1>5, <2>1
<1> QED
  BY <1>1, <1>5, <1>6 DEF Opens, new

LEMMA PathsGrow ==
  ASSUME TreeOK, PathsExist, Opens
  PROVE  /\ PathsExist'
         /\ \A s \in DOMAIN scopes : PathTo'[s] = PathTo[s]
         /\ PathTo'[Len(scopes) + 1] = Append(PathTo[currentScope], Len(scopes) + 1)
<1> DEFINE n == Len(scopes)
           longer == [s \in 1 .. n + 1 |->
                        IF s = n + 1 THEN Append(PathTo[currentScope], n + 1)
                        ELSE PathTo[s]]
<1>1. /\ n \in Nat /\ DOMAIN scopes = 1 .. n /\ DOMAIN scopes' = 1 .. n + 1
      /\ currentScope \in 1 .. n /\ n + 1 \in 1 .. n + 1
      /\ scopes'[n + 1].parent = currentScope /\ currentScope # 0
      /\ \A s \in 1 .. n : /\ scopes'[s].parent = scopes[s].parent /\ s \in 1 .. n + 1
                           /\ s # n + 1
                           /\ scopes[s].parent # 0 => scopes[s].parent \in 1 .. n
      /\ \A s \in 1 .. n + 1 : s \in 1 .. n \/ s = n + 1
  BY DEF TreeOK, Opens
<1>2. \A s \in 1 .. n : PathTo[s] = IF scopes[s].parent = 0 THEN <<s>>
                                    ELSE Append(PathTo[scopes[s].parent], s)
  BY <1>1, PathToUnfolds
<1> HIDE DEF PathTo, n
<1>3. IsPathsIn(scopes', longer)
  <2>1. ASSUME NEW s \in 1 .. n + 1
        PROVE  longer[s] = IF scopes'[s].parent = 0 THEN <<s>>
                           ELSE Append(longer[scopes'[s].parent], s)
    <3>1. CASE s = n + 1
      BY <1>1, <3>1
    <3>2. CASE s \in 1 .. n
      <4>1. longer[s] = PathTo[s] /\ scopes'[s].parent = scopes[s].parent
        BY <1>1, <3>2
      <4>2. scopes[s].parent # 0 => longer[scopes[s].parent] = PathTo[scopes[s].parent]
        BY <1>1, <3>2
      <4> HIDE DEF longer
      <4> QED
        BY <1>2, <3>2, <4>1, <4>2
    <3> QED
      BY <1>1, <3>1, <3>2
  <2>2. longer = [s \in 1 .. n + 1 |-> longer[s]]
    OBVIOUS
  <2> HIDE DEF longer
  <2>3. longer = [s \in 1 .. n + 1 |-> IF scopes'[s].parent = 0 THEN <<s>>
                                       ELSE Append(longer[scopes'[s].parent], s)]
    BY <2>1, <2>2
  <2> QED
    BY <1>1, <2>3 DEF IsPathsIn
<1>4. ASSUME NEW f, IsPathsIn(scopes', f)
      PROVE  /\ f = [s \in 1 .. n + 1 |-> f[s]]
             /\ \A s \in 1 .. n : f[s] = PathTo[s]
             /\ f[n + 1] = Append(f[currentScope], n + 1)
  <2> DEFINE shorter == [s \in 1 .. n |-> f[s]]
  <2>1. /\ f = [s \in 1 .. n + 1 |-> f[s]]
        /\ \A s \in 1 .. n + 1 : f[s] = IF scopes'[s].parent = 0 THEN <<s>>
                                        ELSE Append(f[scopes'[s].parent], s)
    BY <1>1, <1>4 DEF IsPathsIn
  <2>2. ASSUME NEW s \in 1 .. n
        PROVE  shorter[s] = IF scopes[s].parent = 0 THEN <<s>>
                            ELSE Append(shorter[scopes[s].parent], s)
    <3>1. shorter[s] = f[s] /\ scopes'[s].parent = scopes[s].parent /\ s \in 1 .. n + 1
      BY <1>1
    <3>2. scopes[s].parent # 0 => shorter[scopes[s].parent] = f[scopes[s].parent]
      BY <1>1
    <3> HIDE DEF shorter
    <3> QED
      BY <2>1, <3>1, <3>2
  <2>3. shorter = [s \in 1 .. n |-> shorter[s]]
    OBVIOUS
  <2> HIDE DEF shorter
  <2>4. shorter = [s \in 1 .. n |-> IF scopes[s].parent = 0 THEN <<s>>
                                    ELSE Append(shorter[scopes[s].parent], s)]
    BY <2>2, <2>3
  <2>5. IsPaths(shorter)
    BY <1>1, <2>4 DEF IsPaths, IsPathsIn
  <2>6. shorter = PathTo
    BY <2>5, PathToIs DEF PathsExist
  <2>7. f[n + 1] = Append(f[currentScope], n + 1)
    BY <1>1, <2>1
  <2> QED
    BY <2>1, <2>6, <2>7 DEF shorter
<1>5. PathsExist'
  <2>1. ASSUME NEW f, NEW g, IsPathsIn(scopes', f), IsPathsIn(scopes', g)
        PROVE  f = g
    <3>1. /\ f = [s \in 1 .. n + 1 |-> f[s]] /\ g = [s \in 1 .. n + 1 |-> g[s]]
          /\ \A s \in 1 .. n : f[s] = PathTo[s] /\ g[s] = PathTo[s]
          /\ f[n + 1] = Append(f[currentScope], n + 1)
          /\ g[n + 1] = Append(g[currentScope], n + 1)
      BY <1>4, <2>1
    <3>2. \A s \in 1 .. n + 1 : f[s] = g[s]
      BY <1>1, <3>1
    <3> QED
      BY <3>1, <3>2
  <2>2. \E f : IsPathsIn(scopes', f)
    BY <1>3
  <2> QED
    BY <2>1, <2>2 DEF PathsExist, IsPaths
<1>6. IsPathsIn(scopes', PathTo')
  BY <1>5 DEF PathsExist, IsPaths, IsPathsIn, PathTo
<1>7. /\ \A s \in 1 .. n : PathTo'[s] = PathTo[s]
      /\ PathTo'[n + 1] = Append(PathTo'[currentScope], n + 1)
  BY <1>4, <1>6
<1> QED
  BY <1>1, <1>5, <1>7 DEF n

LEMMA TreeGrows ==
  ASSUME TreeOK, PathsExist, PathsOK, Opens, checkPoint' = checkPoint
  PROVE  TreeOK' /\ PathsOK'
<1> DEFINE n == Len(scopes)
<1>1. /\ n \in Nat /\ DOMAIN scopes = 1 .. n /\ DOMAIN scopes' = 1 .. n + 1
      /\ currentScope \in 1 .. n
      /\ scopes' # <<>> /\ n + 1 # 1
      /\ \A s \in 1 .. n + 1 : s \in 1 .. n \/ s = n + 1
      /\ \A s \in 1 .. n : s \in 1 .. n + 1
      /\ \A s \in 1 .. n : s # 1 => scopes[s].parent \in 1 .. n
  BY DEF TreeOK, Opens
<1>2. TreeOK'
  <2>1. ASSUME NEW s \in 1 .. n + 1
        PROVE  IF s = 1 THEN scopes'[s].parent = 0 /\ scopes'[s].depth = 0
               ELSE /\ scopes'[s].parent \in 1 .. s - 1
                    /\ scopes'[s].depth = scopes'[scopes'[s].parent].depth + 1
    <3>1. CASE s = n + 1
      <4>1. s # 1 /\ scopes'[s].parent = currentScope /\ currentScope \in 1 .. s - 1
            /\ scopes'[currentScope].depth = scopes[currentScope].depth
            /\ scopes'[s].depth = scopes[currentScope].depth + 1
        BY <1>1, <3>1 DEF Opens
      <4> QED
        BY <4>1
    <3>2. CASE s \in 1 .. n
      <4>1. /\ scopes'[s].parent = scopes[s].parent /\ scopes'[s].depth = scopes[s].depth
            /\ s # 1 => scopes'[scopes[s].parent].depth = scopes[scopes[s].parent].depth
        BY <1>1, <3>2 DEF Opens
      <4> QED
        BY <1>1, <3>2, <4>1 DEF TreeOK
    <3> QED
      BY <1>1, <3>1, <3>2
  <2>2. currentScope' \in 1 .. n + 1 /\ checkPoint' \in 1 .. n + 1
        /\ scopes' \in Seq(Scope)
    BY <1>1 DEF TreeOK, Opens
  <2> QED
    BY <1>1, <2>1, <2>2 DEF TreeOK
<1>3. /\ \A s \in 1 .. n : PathTo'[s] = PathTo[s]
      /\ PathTo'[n + 1] = Append(PathTo[currentScope], n + 1)
  BY <1>1, PathsGrow
<1>4. \A s \in 1 .. n : scopes'[s].depth = scopes[s].depth
  BY DEF Opens
<1>5. scopes'[n + 1].depth = scopes[currentScope].depth + 1
  BY DEF Opens
<1> HIDE DEF PathTo, n
<1>6. ASSUME NEW s \in 1 .. n
      PROVE  LET path == PathTo[s]
             IN /\ path \in Seq(1 .. n) /\ path \in Seq(1 .. n + 1)
                /\ Len(path) = scopes[s].depth + 1 /\ path[Len(path)] = s
                /\ \A i \in 1 .. Len(path) : path[i] \in 1 .. n
                                             /\ scopes[path[i]].depth = i - 1
  <2>1. LET path == PathTo[s]
        IN /\ path \in Seq(1 .. n)
           /\ Len(path) = scopes[s].depth + 1 /\ path[Len(path)] = s
           /\ \A i \in 1 .. Len(path) : scopes[path[i]].depth = i - 1
    BY <1>1 DEF PathsOK
  <2>2. ASSUME NEW path \in Seq(1 .. n)
        PROVE  path \in Seq(1 .. n + 1) /\ \A i \in 1 .. Len(path) : path[i] \in 1 .. n
    BY <1>1
  <2> QED
    BY <2>1, <2>2
<1>7. ASSUME NEW s \in 1 .. n + 1
      PROVE  LET path == PathTo'[s]
             IN /\ path \in Seq(1 .. n + 1)
                /\ Len(path) = scopes'[s].depth + 1 /\ path[Len(path)] = s
                /\ \A i \in 1 .. Len(path) : scopes'[path[i]].depth = i - 1
  <2>1. CASE s \in 1 .. n
    <3>1. PathTo'[s] = PathTo[s] /\ scopes'[s].depth = scopes[s].depth
      BY <1>3, <1>4, <2>1
    <3>2. \A i \in 1 .. Len(PathTo[s]) : scopes'[PathTo[s][i]].depth = i - 1
      BY <1>4, <1>6, <2>1
    <3> QED
      BY <1>6, <2>1, <3>1, <3>2
  <2>2. CASE s = n + 1
    <3> DEFINE path == PathTo[currentScope]
               m == Len(path)
               longer == Append(path, n + 1)
    <3>1. /\ path \in Seq(1 .. n + 1) /\ m = scopes[currentScope].depth + 1
          /\ \A i \in 1 .. m : path[i] \in 1 .. n /\ scopes[path[i]].depth = i - 1
      BY <1>1, <1>6
    <3>2. m \in Nat /\ n + 1 \in 1 .. n + 1
      BY <1>1, <3>1
    <3> HIDE DEF path
    <3>3. /\ longer \in Seq(1 .. n + 1) /\ Len(longer) = m + 1 /\ longer[m + 1] = n + 1
          /\ \A i \in 1 .. m : longer[i] = path[i]
      BY <3>1, <3>2
    <3> HIDE DEF m, longer
    <3>4. ASSUME NEW i \in 1 .. m + 1
          PROVE  scopes'[longer[i]].depth = i - 1
      <4>1. CASE i \in 1 .. m
        BY <1>4, <3>1, <3>3, <4>1
      <4>2. CASE i = m + 1
        BY <1>5, <3>1, <3>2, <3>3, <4>2
      <4> QED
        BY <3>2, <4>1, <4>2
    <3>5. PathTo'[s] = longer
      BY <1>3, <2>2 DEF longer, path
    <3> QED
      BY <1>5, <2>2, <3>1, <3>3, <3>4, <3>5
  <2> QED
    BY <1>1, <2>1, <2>2
<1> QED
  BY <1>1, <1>2, <1>7 DEF PathsOK

-----------------------------------------------------------------------------
(* The VariableStore.                                                      *)

IsContents(c) ==
  c = [store |-> c.store, table |-> c.table, map |-> c.map, ok |-> c.ok]

LEMMA KeyKept ==
  ASSUME NEW vs \in Seq(Variable), NEW x \in Variable, NEW v \in DOMAIN vs
  PROVE  v \in DOMAIN Append(vs, x) /\ Key(Append(vs, x), v) = Key(vs, v)
<1>1. v \in DOMAIN Append(vs, x) /\ Append(vs, x)[v] = vs[v]
  OBVIOUS
<1> QED
  BY <1>1 DEF Key

LEMMA KeysLater ==
  ASSUME NEW c, NEW vs \in Seq(Variable), NEW x \in Variable, KeysOK(c, vs)
  PROVE  KeysOK(c, Append(vs, x))
BY KeyKept DEF KeysOK

LEMMA AgreeLater ==
  ASSUME NEW c, NEW vs \in Seq(Variable), NEW x \in Variable, Agree(c, vs)
  PROVE  Agree(c, Append(vs, x))
<1>1. DOMAIN vs \subseteq DOMAIN Append(vs, x)
  OBVIOUS
<1>2. c.table \in Seq(DOMAIN vs)
  BY DEF Agree
<1> DEFINE old == DOMAIN vs
           new == DOMAIN Append(vs, x)
<1> HIDE DEF old, new
<1>3. c.table \in Seq(new)
  <2>1. old \subseteq new /\ c.table \in Seq(old)
    BY <1>1, <1>2 DEF old, new
  <2> QED
    BY <2>1
<1> QED
  BY <1>3 DEF Agree, new

LEMMA AddIs ==
  ASSUME NEW c, IsContents(c), NEW vs, NEW v
  PROVE  LET u == addVariable(c, vs, v)
             k == Key(vs, v)
             set == PutIfAbsent(c.store, k, v)
         IN /\ IsContents(u) /\ u.ok = c.ok /\ u.store = set
            /\ u.table = Append(c.table, set[k])
            /\ u.map = PutIfAbsent(c.map, k, set[k])
<1> DEFINE u == addVariable(c, vs, v)
           k == Key(vs, v)
           set == PutIfAbsent(c.store, k, v)
           table == Append(c.table, set[k])
           map == PutIfAbsent(c.map, k, set[k])
<1>1. u = [c EXCEPT !.store = set, !.table = table, !.map = map]
  BY DEF addVariable
<1> HIDE DEF u, k, set, table, map
<1>2. u = [store |-> set, table |-> table, map |-> map, ok |-> c.ok]
  BY <1>1 DEF IsContents
<1>3. IsContents(u) /\ u.ok = c.ok /\ u.store = set /\ u.table = table /\ u.map = map
  BY <1>2 DEF IsContents
<1> QED
  BY <1>3 DEF u, k, set, table, map

LEMMA AddKeys ==
  ASSUME NEW c, IsContents(c), NEW vs, NEW v \in DOMAIN vs, KeysOK(c, vs)
  PROVE  LET u == addVariable(c, vs, v)
         IN /\ IsContents(u) /\ u.ok = c.ok /\ KeysOK(u, vs)
            /\ DOMAIN u.map = DOMAIN c.map \cup {Key(vs, v)}
            /\ \A k \in DOMAIN c.map : u.map[k] = c.map[k]
            /\ Agree(c, vs) => Agree(u, vs)
<1> DEFINE u == addVariable(c, vs, v)
           k == Key(vs, v)
           set == PutIfAbsent(c.store, k, v)
<1>1. /\ IsContents(u) /\ u.ok = c.ok /\ u.store = set
      /\ u.table = Append(c.table, set[k])
      /\ u.map = PutIfAbsent(c.map, k, set[k])
  BY AddIs
<1>2. /\ DOMAIN set = DOMAIN c.store \cup {k}
      /\ \A j \in DOMAIN c.store : set[j] = c.store[j]
      /\ k \notin DOMAIN c.store => set[k] = v
      /\ \A j \in DOMAIN set : set[j] \in DOMAIN vs /\ Key(vs, set[j]) = j
  BY DEF PutIfAbsent, KeysOK
<1>3. /\ DOMAIN u.map = DOMAIN c.map \cup {k}
      /\ \A j \in DOMAIN c.map : u.map[j] = c.map[j]
      /\ k \notin DOMAIN c.map => u.map[k] = set[k]
  BY <1>1 DEF PutIfAbsent
<1> HIDE DEF set, u
<1>4. KeysOK(u, vs)
  BY <1>1, <1>2, <1>3 DEF KeysOK
<1>5. ASSUME Agree(c, vs) PROVE Agree(u, vs)
  <2>1. c.table \in Seq(DOMAIN vs) /\ c.store = c.map /\ Range(c.table) = Range(c.store)
    BY <1>5 DEF Agree
  <2>2. u.map = u.store
    <3>1. u.map = [j \in DOMAIN c.store \cup {k} |->
                     IF j \in DOMAIN c.store THEN c.store[j] ELSE set[k]]
      BY <1>1, <2>1 DEF PutIfAbsent
    <3>2. set = [j \in DOMAIN c.store \cup {k} |->
                   IF j \in DOMAIN c.store THEN c.store[j] ELSE v]
      BY DEF set, PutIfAbsent
    <3>3. \A j \in DOMAIN c.store \cup {k} :
            (IF j \in DOMAIN c.store THEN c.store[j] ELSE set[k])
              = (IF j \in DOMAIN c.store THEN c.store[j] ELSE v)
      BY <1>2
    <3> QED
      BY <1>1, <3>1, <3>2, <3>3
  <2>3. set[k] \in DOMAIN vs
    BY <1>2
  <2>4. /\ u.table \in Seq(DOMAIN vs) /\ Len(u.table) = Len(c.table) + 1
        /\ u.table[Len(c.table) + 1] = set[k]
        /\ \A i \in 1 .. Len(c.table) : u.table[i] = c.table[i]
        /\ DOMAIN u.table = 1 .. Len(c.table) + 1 /\ DOMAIN c.table = 1 .. Len(c.table)
    BY <1>1, <2>1, <2>3
  <2>5. Range(u.table) = Range(c.table) \cup {set[k]}
    <3>1. \A i \in DOMAIN u.table : i \in DOMAIN c.table \/ i = Len(c.table) + 1
      BY <2>1, <2>4
    <3>2. \A i \in DOMAIN c.table : i \in DOMAIN u.table
      BY <2>1, <2>4
    <3>3. Len(c.table) + 1 \in DOMAIN u.table
      BY <2>1, <2>4
    <3> QED
      BY <2>4, <3>1, <3>2, <3>3 DEF Range
  <2>6. Range(set) = Range(c.store) \cup {set[k]}
    BY <1>2 DEF Range
  <2> QED
    BY <1>1, <2>1, <2>2, <2>4, <2>5, <2>6 DEF Agree
<1> QED
  BY <1>1, <1>3, <1>4, <1>5 DEF u

LEMMA RemoveKeys ==
  ASSUME NEW c, IsContents(c), NEW vs, NEW v, KeysOK(c, vs)
  PROVE  KeysOK(removeVariable(c, vs, v), vs)
<1> DEFINE u == removeVariable(c, vs, v)
           k == Key(vs, v)
<1>1. /\ u.store = c.store \/ u.store = Without(c.store, k)
      /\ u.map = c.map \/ u.map = Without(c.map, k)
  <2> DEFINE map == Without(c.map, k)
  <2>1. [c EXCEPT !.map = map].store = c.store /\ [c EXCEPT !.map = map].map = map
    <3> HIDE DEF map
    <3> QED
      BY DEF IsContents
  <2> QED
    BY <2>1 DEF removeVariable
<1> HIDE DEF u
<1>2. KeysOK(u, vs)
  BY <1>1 DEF KeysOK, Without
<1> QED
  BY <1>2 DEF u

(* What finishComputed makes of the store c, with the temporary t and the  *)
(* declared variable n.                                                    *)
Computed(c, vs, t, n) ==
  removeVariable(addVariable(addVariable(c, vs, t), vs, n), vs, t)

(* The temporary is removed without a trace.                               *)
LEMMA RemoveTemporary ==
  ASSUME NEW c, IsContents(c), NEW old \in Seq(Variable), NEW temp \in Variable,
         temp.name = Temp, KeysOK(c, old), Agree(c, old), c.ok = TRUE,
         NEW n \in DOMAIN old, old[n].name \in Names
  PROVE  LET vs == Append(old, temp)
             u == Computed(c, vs, Len(vs), n)
         IN /\ u.ok = TRUE /\ Agree(u, vs)
            /\ Key(old, n) \in DOMAIN u.map
            /\ \A k \in DOMAIN c.map : k \in DOMAIN u.map /\ u.map[k] = c.map[k]
<1> DEFINE vs == Append(old, temp)
           t == Len(old) + 1
           a == addVariable(c, vs, t)
           b == addVariable(a, vs, n)
           u == removeVariable(b, vs, t)
           kt == Key(vs, t)
           kn == Key(vs, n)
           m == Len(c.table)
<1>1. /\ t \in Nat /\ DOMAIN old = 1 .. Len(old) /\ t \notin DOMAIN old
      /\ t \in DOMAIN vs /\ n \in DOMAIN vs /\ vs[t] = temp /\ vs[n] = old[n]
  OBVIOUS
<1>2. kt[1] = Temp /\ kt[2] = t /\ kn[1] \in Names /\ kn = Key(old, n) /\ Temp \notin Names
  BY <1>1, NamesAssumption DEF Key
<1>3. kn # kt
  BY <1>2
<1>4. kt \notin DOMAIN c.store
  <2>1. ASSUME kt \in DOMAIN c.store PROVE FALSE
    <3>1. c.store[kt] \in DOMAIN old /\ Key(old, c.store[kt]) = kt
      BY <2>1 DEF KeysOK
    <3> DEFINE w == c.store[kt]
    <3>2. old[w].name = Temp /\ w = t
      BY <1>2, <3>1 DEF Key
    <3> QED
      BY <1>1, <3>1, <3>2
  <2> QED
    BY <2>1
<1>5. c.map = c.store /\ c.table \in Seq(DOMAIN old) /\ Range(c.table) = Range(c.store)
  BY DEF Agree
<1> HIDE DEF vs, t, kt, kn
<1>6. /\ IsContents(a) /\ a.ok = c.ok
      /\ a.store = PutIfAbsent(c.store, kt, t)
      /\ a.table = Append(c.table, t)
      /\ a.map = PutIfAbsent(c.store, kt, t)
  <2> DEFINE set == PutIfAbsent(c.store, kt, t)
  <2>1. set[kt] = t
    BY <1>4 DEF PutIfAbsent
  <2>2. /\ IsContents(a) /\ a.ok = c.ok /\ a.store = set
        /\ a.table = Append(c.table, set[kt])
        /\ a.map = PutIfAbsent(c.map, kt, set[kt])
    BY AddIs DEF kt
  <2> HIDE DEF set, a
  <2>3. a.table = Append(c.table, t) /\ a.map = PutIfAbsent(c.store, kt, t)
    BY <1>5, <2>1, <2>2
  <2> QED
    BY <2>2, <2>3 DEF set
<1> HIDE DEF a
<1> DEFINE x == IF kn \in DOMAIN c.store THEN c.store[kn] ELSE n
           kept == PutIfAbsent(c.store, kn, n)
<1>7. x \in DOMAIN old /\ x # t /\ kept[kn] = x
  BY <1>1, <1>2 DEF KeysOK, PutIfAbsent
<1>8. /\ DOMAIN a.store = DOMAIN c.store \cup {kt} /\ a.store[kt] = t
      /\ \A k \in DOMAIN c.store : a.store[k] = c.store[k]
  BY <1>4, <1>6 DEF PutIfAbsent
<1>9. /\ IsContents(b) /\ b.ok = c.ok /\ b.table = Append(a.table, x)
      /\ b.store = PutIfAbsent(a.store, kn, n) /\ b.map = PutIfAbsent(a.store, kn, x)
  <2> DEFINE set == PutIfAbsent(a.store, kn, n)
  <2>1. set[kn] = x
    BY <1>3, <1>8 DEF PutIfAbsent
  <2>2. /\ IsContents(b) /\ b.ok = a.ok /\ b.store = set
        /\ b.table = Append(a.table, set[kn])
        /\ b.map = PutIfAbsent(a.map, kn, set[kn])
    <3>1. IsContents(a)
      BY <1>6
    <3> QED
      BY <3>1, AddIs DEF kn
  <2> HIDE DEF set, b, x
  <2>3. b.table = Append(a.table, x) /\ b.map = PutIfAbsent(a.store, kn, x)
    BY <1>6, <2>1, <2>2
  <2> QED
    BY <1>6, <2>2, <2>3 DEF set
<1> HIDE DEF b, x
<1>10. /\ Without(b.store, kt) = kept /\ Without(b.map, kt) = kept
       /\ kt \in DOMAIN b.map /\ b.map[kt] = t
  <2>1. /\ DOMAIN b.store = (DOMAIN c.store \cup {kt}) \cup {kn}
        /\ DOMAIN b.map = (DOMAIN c.store \cup {kt}) \cup {kn}
        /\ \A k \in DOMAIN c.store : b.store[k] = c.store[k] /\ b.map[k] = c.store[k]
        /\ kn \notin DOMAIN c.store => b.store[kn] = n /\ b.map[kn] = n
        /\ b.map[kt] = t
    BY <1>3, <1>8, <1>9 DEF PutIfAbsent, x
  <2>2. /\ (DOMAIN b.store) \ {kt} = DOMAIN c.store \cup {kn}
        /\ (DOMAIN b.map) \ {kt} = DOMAIN c.store \cup {kn}
    BY <1>3, <1>4, <2>1
  <2>3. \A k \in DOMAIN c.store \cup {kn} :
          /\ b.store[k] = IF k \in DOMAIN c.store THEN c.store[k] ELSE n
          /\ b.map[k] = IF k \in DOMAIN c.store THEN c.store[k] ELSE n
    BY <2>1
  <2> QED
    BY <2>1, <2>2, <2>3 DEF Without, PutIfAbsent
<1> HIDE DEF kept
<1>11. /\ m \in Nat /\ Len(b.table) = m + 2 /\ b.table \in Seq(DOMAIN old \cup {t})
       /\ \A i \in 1 .. m : b.table[i] = c.table[i] /\ c.table[i] \in DOMAIN old
       /\ b.table[m + 1] = t /\ b.table[m + 2] = x /\ DOMAIN b.table = 1 .. m + 2
  <2>1. /\ a.table \in Seq(DOMAIN old \cup {t}) /\ Len(a.table) = m + 1 /\ m \in Nat
        /\ a.table[m + 1] = t
        /\ \A i \in 1 .. m : a.table[i] = c.table[i] /\ c.table[i] \in DOMAIN old
    BY <1>5, <1>6
  <2> HIDE DEF m
  <2> QED
    BY <1>7, <1>9, <2>1
<1>12. {i \in DOMAIN b.table : b.table[i] = t} = {m + 1}
  <2>1. \A i \in 1 .. m + 2 : i \in 1 .. m \/ i = m + 1 \/ i = m + 2
    BY <1>11
  <2>2. m + 1 \in 1 .. m + 2
    BY <1>11
  <2>3. \A i \in 1 .. m + 2 : b.table[i] = t <=> i = m + 1
    <3> HIDE DEF m
    <3> QED
      BY <1>1, <1>7, <1>11, <2>1
  <2> QED
    BY <1>11, <2>2, <2>3
<1>13. RemoveAt(b.table, m + 1) = Append(c.table, x)
  <2> HIDE DEF m
  <2> DEFINE s == b.table
             front == SubSeq(s, 1, m)
             back == SubSeq(s, m + 2, m + 2)
  <2>1. /\ front \in Seq(DOMAIN old \cup {t}) /\ Len(front) = m
        /\ \A i \in 1 .. m : front[i] = c.table[i]
    BY <1>11
  <2>2. /\ back \in Seq(DOMAIN old \cup {t}) /\ Len(back) = 1 /\ back[1] = x
    BY <1>11
  <2>3. RemoveAt(s, m + 1) = front \o back
    <3>1. (m + 1) - 1 = m /\ (m + 1) + 1 = m + 2
      BY <1>11
    <3> HIDE DEF s
    <3> QED
      BY <1>11, <3>1 DEF RemoveAt, s
  <2> HIDE DEF front, back, s
  <2>4. /\ front \o back \in Seq(DOMAIN old \cup {t}) /\ Len(front \o back) = m + 1
        /\ \A i \in 1 .. m : (front \o back)[i] = c.table[i]
        /\ (front \o back)[m + 1] = x
    <3> DEFINE S == DOMAIN old \cup {t}
    <3> HIDE DEF S
    <3>1. /\ front \in Seq(S) /\ back \in Seq(S)
          /\ Len(front) + Len(back) = m + 1 /\ m \in Nat
      BY <1>11, <2>1, <2>2 DEF S
    <3>2. front \o back \in Seq(S) /\ Len(front \o back) = m + 1
      BY <3>1, ConcatProperties
    <3>3. \A i \in 1 .. m : (front \o back)[i] = front[i]
      BY <2>1, <3>1
    <3>4. (front \o back)[m + 1] = back[1]
      <4>1. \A i \in 1 .. Len(front) + Len(back) :
              (front \o back)[i] = IF i <= Len(front) THEN front[i]
                                   ELSE back[i - Len(front)]
        BY <3>1, ConcatProperties
      <4>2. m + 1 \in 1 .. Len(front) + Len(back) /\ ~(m + 1 <= m) /\ (m + 1) - m = 1
        BY <3>1
      <4> QED
        BY <2>1, <4>1, <4>2
    <3> QED
      BY <2>1, <2>2, <3>2, <3>3, <3>4 DEF S
  <2>5. /\ Append(c.table, x) \in Seq(DOMAIN old \cup {t})
        /\ Len(Append(c.table, x)) = m + 1
        /\ \A i \in 1 .. m : Append(c.table, x)[i] = c.table[i]
        /\ Append(c.table, x)[m + 1] = x
    BY <1>5, <1>7, <1>11 DEF m
  <2> DEFINE p == front \o back
             q == Append(c.table, x)
  <2>6. \A i \in 1 .. m + 1 : p[i] = q[i]
    <3>1. \A i \in 1 .. m + 1 : i \in 1 .. m \/ i = m + 1
      BY <1>11
    <3> QED
      BY <2>4, <2>5, <3>1
  <2> HIDE DEF p, q
  <2>7. p = q
    <3>1. p \in Seq(DOMAIN old \cup {t}) /\ q \in Seq(DOMAIN old \cup {t})
          /\ Len(p) = m + 1 /\ Len(q) = m + 1
      BY <2>4, <2>5 DEF p, q
    <3> QED
      BY <2>6, <3>1, SeqEqual
  <2> QED
    BY <2>3, <2>7 DEF p, q, s
<1>14. u = [store |-> kept, table |-> Append(c.table, x), map |-> kept, ok |-> TRUE]
  <2> DEFINE places == {i \in DOMAIN b.table : b.table[i] = b.map[kt]}
             first == CHOOSE i \in places : \A j \in places : i <= j
             ok == b.ok /\ first # Len(b.table) /\ \A j \in places : j <= first + 1
  <2>1. places = {m + 1}
    BY <1>10, <1>12
  <2>2. u = [store |-> Without(b.store, kt), table |-> RemoveAt(b.table, first),
             map |-> Without(b.map, kt), ok |-> ok]
    BY <1>10, <2>1 DEF removeVariable, kt
  <2> HIDE DEF places, m
  <2>3. first = m + 1
    BY <1>11, <2>1
  <2> HIDE DEF first
  <2>4. ok = TRUE
    BY <1>6, <1>9, <1>11, <2>1, <2>3
  <2> HIDE DEF ok, u
  <2> QED
    BY <1>9, <1>10, <1>13, <2>2, <2>3, <2>4
<1> HIDE DEF u
<1>15. Agree(u, vs)
  <2>1. Append(c.table, x) \in Seq(DOMAIN vs)
    <3>1. DOMAIN old \subseteq DOMAIN vs
      BY DEF vs
    <3> DEFINE A == DOMAIN old
               B == DOMAIN vs
    <3> HIDE DEF A, B
    <3>2. A \subseteq B /\ c.table \in Seq(A) /\ x \in A
      BY <1>5, <1>7, <3>1 DEF A, B
    <3>3. Append(c.table, x) \in Seq(B)
      BY <3>2
    <3> QED
      BY <3>3 DEF B
  <2>2. Range(Append(c.table, x)) = Range(c.table) \cup {x}
    <3> DEFINE q == Append(c.table, x)
    <3>1. /\ DOMAIN q = 1 .. m + 1 /\ DOMAIN c.table = 1 .. m /\ q[m + 1] = x
          /\ \A i \in 1 .. m : q[i] = c.table[i]
      BY <1>5, <1>7
    <3>2. \A i : i \in 1 .. m + 1 <=> i \in 1 .. m \/ i = m + 1
      BY <1>11
    <3> HIDE DEF q, m
    <3>3. Range(q) = Range(c.table) \cup {x}
      BY <3>1, <3>2 DEF Range
    <3> QED
      BY <3>3 DEF q
  <2>3. Range(kept) = Range(c.store) \cup {x}
    <3>1. /\ DOMAIN kept = DOMAIN c.store \cup {kn} /\ kept[kn] = x
          /\ \A k \in DOMAIN c.store : kept[k] = c.store[k]
      BY <1>7 DEF kept, PutIfAbsent
    <3> QED
      BY <3>1 DEF Range
  <2>4. u.table = Append(c.table, x) /\ u.store = kept /\ u.map = kept
    BY <1>14
  <2> QED
    BY <1>5, <2>1, <2>2, <2>3, <2>4 DEF Agree
<1>16. /\ DOMAIN u.map = DOMAIN c.map \cup {kn}
       /\ \A k \in DOMAIN c.map : u.map[k] = c.map[k]
  <2>1. u.map = kept
    BY <1>14
  <2> QED
    BY <1>5, <2>1 DEF kept, PutIfAbsent
<1>17. u.ok = TRUE
  BY <1>14
<1>18. Len(vs) = t
  BY DEF vs, t
<1> QED
  BY <1>2, <1>15, <1>16, <1>17, <1>18 DEF Computed, u, b, a, vs

-----------------------------------------------------------------------------
(* What the parser finds.                                                  *)

Descending == {p \in Nat \X Nat : p[1] < p[2]}

LEMMA Least ==
  ASSUME NEW T \in SUBSET Nat, T # {}
  PROVE  \E x \in T : \A y \in T : x <= y
<1>1. Descending = OpToRel(<, Nat)
  BY Zenon DEF Descending, OpToRel
<1>2. IsWellFoundedOn(Descending, Nat)
  BY <1>1, NatLessThanWellFounded, Zenon
<1>3. PICK x \in T : \A y \in T : ~(<<y, x>> \in Descending)
  BY <1>2, WFMin, Zenon
<1>4. ASSUME NEW y \in T PROVE x <= y
  <2>1. ~(y < x)
    BY <1>3 DEF Descending
  <2> QED
    BY <2>1
<1> QED
  BY <1>4

LEMMA Greatest ==
  ASSUME NEW n \in Nat, NEW T \in SUBSET (1 .. n), T # {}
  PROVE  \E x \in T : \A y \in T : y <= x
<1> DEFINE U == {n - x : x \in T}
<1>1. U \in SUBSET Nat /\ U # {}
  <2>1. \A x \in T : x \in 1 .. n
    OBVIOUS
  <2>2. \A x \in 1 .. n : n - x \in Nat
    OBVIOUS
  <2> QED
    BY <2>1, <2>2
<1>2. PICK u \in U : \A w \in U : u <= w
  <2> HIDE DEF U
  <2> QED
    BY <1>1, Least
<1>3. PICK x \in T : u = n - x
  BY <1>2
<1>4. ASSUME NEW y \in T PROVE y <= x
  <2>1. n - y \in U /\ x \in 1 .. n /\ y \in 1 .. n
    OBVIOUS
  <2>2. n - x <= n - y
    BY <1>2, <1>3, <2>1
  <2> QED
    BY <2>1, <2>2
<1> QED
  BY <1>4

(* The innermost scope that has the name.                                  *)
LEMMA ParserResolves ==
  ASSUME ParserOK, NEW m \in Names, ParserFinds(m) # 0
  PROVE  \E d \in DOMAIN parserScopes :
           /\ parserScopes[d][m] = ParserFinds(m)
           /\ \A e \in DOMAIN parserScopes : e > d => parserScopes[e][m] = 0
<1> DEFINE having == {d \in DOMAIN parserScopes : parserScopes[d][m] # 0}
           inner == CHOOSE d \in having : \A e \in having : e <= d
           n == Len(parserScopes)
<1>1. n \in Nat /\ DOMAIN parserScopes = 1 .. n
  BY DEF ParserOK, ParserKnows
<1>2. having # {} /\ ParserFinds(m) = parserScopes[inner][m]
  BY DEF ParserFinds
<1>3. having \in SUBSET (1 .. n)
  BY <1>1
<1>4. \E d \in having : \A e \in having : e <= d
  <2> HIDE DEF having, n
  <2> QED
    BY <1>1, <1>2, <1>3, Greatest
<1>5. inner \in having /\ \A e \in having : e <= inner
  <2> HIDE DEF having
  <2> QED
    BY <1>4
<1> HIDE DEF inner
<1>6. inner \in 1 .. n /\ \A e \in 1 .. n : e > inner => parserScopes[e][m] = 0
  <2>1. \A e \in 1 .. n : parserScopes[e][m] # 0 => e <= inner
    BY <1>1, <1>5
  <2> HIDE DEF n
  <2> QED
    BY <1>1, <1>3, <1>5, <2>1
<1> QED
  BY <1>1, <1>2, <1>6

LEMMA Found ==
  ASSUME ParserOK, NEW m \in Names, ParserFinds(m) # 0
  PROVE  ParserFinds(m) \in DOMAIN variables /\ variables[ParserFinds(m)].name = m
BY ParserResolves DEF ParserOK, ParserKnows

-----------------------------------------------------------------------------
(* Variables keep their keys, and their places, as the tree grows.         *)

LEMMA PlacesKept ==
  ASSUME TreeOK, Opens, NEW s \in DOMAIN scopes
  PROVE  s \in DOMAIN scopes' /\ PlaceIn(scopes', s) = PlaceIn(scopes, s)
<1>1. Len(scopes) \in Nat /\ DOMAIN scopes = 1 .. Len(scopes) /\ DOMAIN scopes' = 1 .. Len(scopes) + 1
  BY DEF TreeOK, Opens
<1>2. scopes'[s].depth = scopes[s].depth /\ scopes'[s].index = scopes[s].index
  BY <1>1 DEF Opens
<1> QED
  BY <1>1, <1>2 DEF PlaceIn

LEMMA PlaceIsPlace ==
  ASSUME TreeOK, NEW s \in DOMAIN scopes
  PROVE  PlaceOf(s) \in Nat \X Nat /\ s \in Nat
<1>1. scopes[s] \in Scope /\ s \in Nat
  BY DEF TreeOK
<1>2. scopes[s].depth \in Nat /\ scopes[s].index \in Nat
  BY <1>1 DEF Scope
<1> QED
  BY <1>1, <1>2 DEF PlaceOf, Place

-----------------------------------------------------------------------------
(* Scopes that the parser opens, fills and closes.                         *)

LEMMA RowsOpen ==
  ASSUME NEW ps, NEW vs, ParserKnows(ps, vs),
         NEW path \in Seq(Nat), ScopesAgree(path, ps, vs),
         NEW s \in Nat, \A r \in DOMAIN vs : vs[r].scope # s
  PROVE  LET qs == Append(ps, NoneDeclared)
         IN /\ ParserKnows(qs, vs) /\ ScopesAgree(Append(path, s), qs, vs)
            /\ Len(qs) = Len(ps) + 1
            /\ \A n \in Names : qs[Len(qs)][n] = 0
            /\ \A d \in DOMAIN ps : d \in DOMAIN qs /\ qs[d] = ps[d]
            /\ \A d \in DOMAIN qs : d \in DOMAIN ps \/ d = Len(qs)
<1> DEFINE qs == Append(ps, NoneDeclared)
           longer == Append(path, s)
           l == Len(ps)
<1>1. /\ ps \in Seq(Row) /\ l \in Nat /\ Len(path) = l /\ DOMAIN ps = 1 .. l
  BY DEF ParserKnows, ScopesAgree
<1>2. NoneDeclared \in Row /\ \A n \in Names : NoneDeclared[n] = 0
  BY DEF NoneDeclared, Row
<1>3. /\ qs \in Seq(Row) /\ Len(qs) = l + 1 /\ qs[l + 1] = NoneDeclared
      /\ DOMAIN qs = 1 .. l + 1 /\ qs # <<>>
      /\ \A d \in 1 .. l : qs[d] = ps[d]
  <2> HIDE DEF NoneDeclared
  <2> QED
    BY <1>1, <1>2
<1>4. /\ Len(longer) = l + 1 /\ longer[l + 1] = s
      /\ \A d \in 1 .. l : longer[d] = path[d]
  BY <1>1
<1>5. \A d \in 1 .. l + 1 : d \in 1 .. l \/ d = l + 1
  BY <1>1
<1>6. \A d \in 1 .. l : d \in 1 .. l + 1
  BY <1>1
<1> HIDE DEF qs, longer, l, NoneDeclared
<1>7. ParserKnows(qs, vs)
  BY <1>1, <1>2, <1>3, <1>5 DEF ParserKnows
<1>8. ScopesAgree(longer, qs, vs)
  BY <1>1, <1>2, <1>3, <1>4, <1>5 DEF ScopesAgree
<1> QED
  BY <1>1, <1>2, <1>3, <1>5, <1>6, <1>7, <1>8 DEF qs, longer, l

LEMMA RowsClose ==
  ASSUME NEW ps, NEW vs, ParserKnows(ps, vs),
         NEW path \in Seq(Nat), path # <<>>, NEW s \in Nat,
         ScopesAgree(Append(path, s), ps, vs)
  PROVE  LET qs == Front(ps)
         IN /\ ParserKnows(qs, vs) /\ ScopesAgree(path, qs, vs)
            /\ \A d \in DOMAIN qs : d \in DOMAIN ps /\ qs[d] = ps[d]
<1> DEFINE qs == Front(ps)
           longer == Append(path, s)
           l == Len(path)
<1>1. /\ l \in Nat \ {0} /\ Len(longer) = l + 1
      /\ \A d \in 1 .. l : longer[d] = path[d] /\ d \in 1 .. l + 1
  BY DEF ScopesAgree
<1> HIDE DEF longer, l
<1>2. ps \in Seq(Row) /\ Len(ps) = l + 1 /\ DOMAIN ps = 1 .. l + 1
  <2>1. ps \in Seq(Row) /\ Len(ps) = Len(longer)
    BY DEF ParserKnows, ScopesAgree, longer
  <2> QED
    BY <1>1, <2>1
<1>3. qs = SubSeq(ps, 1, l)
  BY <1>1, <1>2 DEF Front
<1>4. /\ qs \in Seq(Row) /\ Len(qs) = l /\ DOMAIN qs = 1 .. l /\ qs # <<>>
      /\ \A d \in 1 .. l : qs[d] = ps[d]
  BY <1>1, <1>2, <1>3
<1> HIDE DEF qs
<1>5. ParserKnows(qs, vs)
  <2>1. ASSUME NEW d \in 1 .. l, NEW n \in Names, qs[d][n] # 0
        PROVE  qs[d][n] \in DOMAIN vs /\ vs[qs[d][n]].name = n
    <3>1. d \in DOMAIN ps /\ qs[d] = ps[d]
      BY <1>1, <1>2, <1>4
    <3> QED
      BY <2>1, <3>1 DEF ParserKnows
  <2> QED
    BY <1>4, <2>1 DEF ParserKnows
<1>6. ScopesAgree(path, qs, vs)
  BY <1>1, <1>2, <1>4 DEF ScopesAgree, longer, l
<1> QED
  BY <1>1, <1>2, <1>4, <1>5, <1>6 DEF qs

WithName(ps, n, v) == [ps EXCEPT ![Len(ps)][n] = v]

LEMMA RowsDeclare ==
  ASSUME NEW ps, NEW vs \in Seq(Variable), ParserKnows(ps, vs),
         NEW path \in Seq(Nat), ScopesAgree(path, ps, vs),
         \A d \in DOMAIN path : path[d] = path[Len(path)] => d = Len(path),
         NEW n \in Names, ps[Len(ps)][n] = 0,
         NEW x \in Variable, x.name = n, x.scope = path[Len(path)]
  PROVE  LET v == Len(vs) + 1
             us == Append(vs, x)
             qs == WithName(ps, n, v)
         IN /\ ParserKnows(qs, us) /\ ScopesAgree(path, qs, us)
            /\ DOMAIN qs = DOMAIN ps /\ Len(qs) = Len(ps)
            /\ \A d \in DOMAIN qs, m \in Names :
                 qs[d][m] = IF d = Len(ps) /\ m = n THEN v ELSE ps[d][m]
<1> DEFINE l == Len(ps)
           v == Len(vs) + 1
           us == Append(vs, x)
           qs == WithName(ps, n, v)
           row == [ps[l] EXCEPT ![n] = v]
<1>0. qs = [ps EXCEPT ![l] = row]
  BY DEF WithName
<1>1. /\ ps \in Seq(Row) /\ l \in Nat \ {0} /\ DOMAIN ps = 1 .. l
      /\ Len(path) = l /\ DOMAIN path = 1 .. l /\ ps[l] \in Row /\ l \in 1 .. l
  BY DEF ParserKnows, ScopesAgree
<1>2. /\ v \in Nat \ {0} /\ DOMAIN vs = 1 .. v - 1 /\ DOMAIN us = 1 .. v /\ us[v] = x
      /\ \A r \in DOMAIN vs : us[r] = vs[r] /\ r \in DOMAIN us
      /\ \A r \in DOMAIN us : r \in DOMAIN vs \/ r = v
  OBVIOUS
<1> HIDE DEF v, us, qs
<1>3. row \in Row /\ \A m \in Names : row[m] = IF m = n THEN v ELSE ps[l][m]
  BY <1>1, <1>2 DEF Row
<1> HIDE DEF l, row
<1>4. /\ qs \in Seq(Row) /\ Len(qs) = l /\ DOMAIN qs = 1 .. l /\ qs # <<>>
      /\ \A d \in 1 .. l : qs[d] = IF d = l THEN row ELSE ps[d]
  BY <1>0, <1>1, <1>3
<1>5. \A d \in 1 .. l, m \in Names :
        qs[d][m] = IF d = l /\ m = n THEN v ELSE ps[d][m]
  BY <1>3, <1>4
<1>6. ParserKnows(qs, us)
  BY <1>1, <1>2, <1>4, <1>5 DEF ParserKnows
<1>7. ScopesAgree(path, qs, us)
  <2>1. ASSUME NEW d \in 1 .. l, NEW m \in Names, qs[d][m] # 0
        PROVE  us[qs[d][m]].scope = path[d]
    <3>1. CASE d = l /\ m = n
      BY <1>1, <1>2, <1>5, <3>1
    <3>2. CASE ~(d = l /\ m = n)
      <4>1. qs[d][m] = ps[d][m]
        BY <1>5, <3>2
      <4>2. ps[d][m] \in DOMAIN vs /\ vs[ps[d][m]].scope = path[d]
        BY <1>1, <2>1, <4>1 DEF ParserKnows, ScopesAgree
      <4> QED
        BY <1>2, <4>1, <4>2
    <3> QED
      BY <3>1, <3>2
  <2>2. ASSUME NEW d \in 1 .. l, NEW r \in DOMAIN us, us[r].name \in Names,
               us[r].scope = path[d]
        PROVE  qs[d][us[r].name] = r
    <3>1. CASE r = v
      <4>1. us[r].name = n /\ path[d] = path[l]
        BY <1>1, <1>2, <2>2, <3>1
      <4>2. d = l
        BY <1>1, <4>1
      <4> QED
        BY <1>5, <3>1, <4>1, <4>2
    <3>2. CASE r \in DOMAIN vs
      <4>1. us[r] = vs[r] /\ r # 0
        BY <1>2, <3>2
      <4>2. ps[d][us[r].name] = r
        BY <1>1, <2>2, <3>2, <4>1 DEF ScopesAgree
      <4>3. ~(d = l /\ us[r].name = n)
        BY <4>1, <4>2 DEF l
      <4> QED
        BY <1>5, <2>2, <4>2, <4>3
    <3> QED
      BY <1>2, <3>1, <3>2
  <2> QED
    BY <1>1, <1>4, <2>1, <2>2 DEF ScopesAgree
<1> QED
  BY <1>1, <1>4, <1>5, <1>6, <1>7 DEF l, v, us, qs

-----------------------------------------------------------------------------
(* Facts that several actions need.                                        *)

LEMMA ContentsAre ==
  /\ IsContents(Contents) /\ Contents.map = renameMap /\ Contents.ok = TRUE
BY DEF IsContents, Contents

LEMMA Committed ==
  ASSUME NEW c, NEW vs, Commit(c)
  PROVE  /\ KeysOK(c, vs) => KeysOK(Contents', vs)
         /\ Agree(c, vs) => Agree(Contents', vs)
         /\ renameMap' = c.map
BY DEF Commit, Contents, KeysOK, Agree

LEMMA BetweenStatements ==
  ASSUME task' = "convert"
  PROVE  /\ StatementOK' /\ LookupOK' /\ FoundOK'
         /\ CrashesOnlyAfterLoss' /\ MisresolvedOnlyByCollision'
BY DEF StatementOK, LookupOK, FoundOK, CrashesOnlyAfterLoss, Crashes,
       MisresolvedOnlyByCollision

LEMMA SequencesOfMore ==
  ASSUME NEW A, NEW B, A \subseteq B, NEW q \in Seq(A)
  PROVE  q \in Seq(B)
OBVIOUS

LEMMA PathEndsIn ==
  ASSUME NEW tree \in Seq(Scope), NEW s \in DOMAIN tree, NEW path \in Seq(DOMAIN tree),
         Len(path) = tree[s].depth + 1, path[Len(path)] = s,
         \A i \in 1 .. Len(path) : tree[path[i]].depth = i - 1
  PROVE  /\ path \in Seq(Nat) /\ Len(path) \in Nat \ {0}
         /\ \A d \in DOMAIN path : path[d] = path[Len(path)] => d = Len(path)
<1> DEFINE S == DOMAIN tree
<1>1. tree[s].depth \in Nat /\ S = 1 .. Len(tree) /\ Len(tree) \in Nat
  <2>1. tree[s] \in Scope
    OBVIOUS
  <2> QED
    BY <2>1 DEF Scope
<1>2. S \subseteq Nat
  BY <1>1
<1> HIDE DEF S
<1>3. path \in Seq(Nat)
  BY <1>2, SequencesOfMore DEF S
<1>4. Len(path) \in Nat \ {0} /\ Len(path) \in 1 .. Len(path) /\ DOMAIN path = 1 .. Len(path)
  BY <1>1
<1>5. ASSUME NEW d \in 1 .. Len(path), path[d] = path[Len(path)]
      PROVE  d = Len(path)
  <2>1. tree[path[d]].depth = d - 1 /\ tree[path[Len(path)]].depth = Len(path) - 1
    BY <1>4
  <2>2. tree[path[d]].depth = tree[path[Len(path)]].depth
    BY <1>5
  <2>3. d - 1 = Len(path) - 1 /\ d \in Nat
    BY <2>1, <2>2
  <2> QED
    BY <1>4, <2>3
<1> QED
  BY <1>3, <1>4, <1>5

LEMMA PathEnds ==
  ASSUME TreeOK, PathsOK, NEW s \in DOMAIN scopes
  PROVE  LET path == PathTo[s]
         IN /\ path \in Seq(Nat) /\ Len(path) \in Nat \ {0} /\ path[Len(path)] = s
            /\ \A d \in DOMAIN path : path[d] = path[Len(path)] => d = Len(path)
<1> DEFINE path == PathTo[s]
<1>1. /\ path \in Seq(DOMAIN scopes) /\ Len(path) = scopes[s].depth + 1
      /\ path[Len(path)] = s
      /\ \A i \in 1 .. Len(path) : scopes[path[i]].depth = i - 1
      /\ scopes \in Seq(Scope)
  BY DEF PathsOK, TreeOK
<1> HIDE DEF path
<1>2. /\ path \in Seq(Nat) /\ Len(path) \in Nat \ {0}
      /\ \A d \in DOMAIN path : path[d] = path[Len(path)] => d = Len(path)
  BY <1>1, PathEndsIn
<1> QED
  BY <1>1, <1>2 DEF path

LEMMA NewVariableIs ==
  ASSUME TreeOK, VariablesOK, NEW n \in Names \cup {Temp}, NEW t \in Types,
         scopes' = scopes, variables' = NewVariable(n, t)
  PROVE  /\ VariablesOK'
         /\ \E x \in Variable : /\ variables' = Append(variables, x)
                                /\ x.name = n /\ x.scope = currentScope
<1> DEFINE x == [name |-> n, type |-> t, scope |-> currentScope,
                 place |-> PlaceOf(currentScope)]
<1>1. currentScope \in DOMAIN scopes /\ scopes \in Seq(Scope)
  BY DEF TreeOK
<1>2. PlaceOf(currentScope) \in Nat \X Nat /\ currentScope \in Nat
  BY <1>1, PlaceIsPlace
<1>3. x \in Variable
  BY <1>2 DEF Variable
<1>4. /\ variables' = Append(variables, x) /\ x.name = n /\ x.scope = currentScope
      /\ x.place = PlaceOf(currentScope)
  BY DEF NewVariable
<1> HIDE DEF x
<1>5. VariablesOK'
  <2>1. variables \in Seq(Variable)
    BY DEF VariablesOK
  <2>2. variables' \in Seq(Variable) /\ \A v \in DOMAIN variables' :
          \/ v \in DOMAIN variables /\ variables'[v] = variables[v]
          \/ variables'[v] = x
    BY <1>3, <1>4, <2>1
  <2>3. PlaceOf(currentScope) = PlaceIn(scopes', currentScope)
    BY DEF PlaceOf, PlaceIn
  <2> QED
    BY <1>1, <1>4, <2>2, <2>3 DEF VariablesOK
<1> QED
  BY <1>3, <1>4, <1>5

(* What waited for its initialiser, or nothing, is in the map now.         *)
LEMMA EnteredLater ==
  ASSUME NEW map, NEW larger, DOMAIN map \subseteq DOMAIN larger,
         \A k \in DOMAIN larger : larger[k] # 0,
         NEW ps, NEW vs, ParserKnows(ps, vs), NEW pending,
         Entered(map, ps, vs, pending),
         pending # 0 => Key(vs, pending) \in DOMAIN larger
  PROVE  Entered(larger, ps, vs, 0)
BY DEF Entered

LEMMA KeysAreVariables ==
  ASSUME NEW c, NEW vs \in Seq(Variable), KeysOK(c, vs)
  PROVE  \A k \in DOMAIN c.map : c.map[k] # 0 /\ c.map[k] # Len(vs) + 1
BY DEF KeysOK

-----------------------------------------------------------------------------
(* Every action keeps the invariant.                                       *)

LEMMA ScopeOpens ==
  ASSUME Inv, task = "convert", NEW declared, openScope(declared),
         checkPoint' = checkPoint
  PROVE  LET qs == Append(parserScopes, NoneDeclared)
         IN /\ TreeOK' /\ PathsExist' /\ PathsOK'
            /\ parserScopes' = Append(parserScopes, declared)
            /\ currentScope' = Len(scopes) + 1 /\ currentScope' \in DOMAIN scopes'
            /\ scopes'[currentScope'].depth = scopes[currentScope].depth + 1
            /\ scopes'[currentScope'].index = scopes[currentScope].nextIndex
            /\ \A r \in DOMAIN variables :
                 /\ variables[r].scope \in DOMAIN scopes'
                 /\ variables[r].place = PlaceIn(scopes', variables[r].scope)
            /\ ParserKnows(qs, variables)
            /\ ScopesAgree(PathTo'[currentScope'], qs, variables)
            /\ Len(qs) = Len(parserScopes) + 1
            /\ \A n \in Names : qs[Len(qs)][n] = 0
            /\ \A d \in DOMAIN parserScopes : d \in DOMAIN qs /\ qs[d] = parserScopes[d]
            /\ \A d \in DOMAIN qs : d \in DOMAIN parserScopes \/ d = Len(qs)
<1>1. TreeOK /\ PathsExist /\ PathsOK /\ VariablesOK /\ ParserOK /\ InScope
  BY DEF Inv
<1>2. Opens /\ parserScopes' = Append(parserScopes, declared)
  BY <1>1, Opened
<1>3. PathsExist' /\ TreeOK' /\ PathsOK'
  BY <1>1, <1>2, PathsGrow, TreeGrows
<1> DEFINE s == Len(scopes) + 1
           path == PathTo[currentScope]
<1>4. PathTo'[s] = Append(path, s)
  BY <1>1, <1>2, PathsGrow
<1>5. currentScope' = s /\ s \in Nat /\ s \in DOMAIN scopes' /\ s \notin DOMAIN scopes
  <2>1. Len(scopes) \in Nat /\ DOMAIN scopes = 1 .. Len(scopes)
    BY <1>1 DEF TreeOK
  <2> QED
    BY <1>2, <2>1 DEF Opens
<1>6. \A r \in DOMAIN variables :
        /\ variables[r].scope \in DOMAIN scopes
        /\ variables[r].scope \in DOMAIN scopes'
        /\ variables[r].place = PlaceIn(scopes', variables[r].scope)
  <2>1. \A r \in DOMAIN variables :
          variables[r].scope \in DOMAIN scopes
          /\ variables[r].place = PlaceIn(scopes, variables[r].scope)
    BY <1>1 DEF VariablesOK
  <2>2. \A h \in DOMAIN scopes : h \in DOMAIN scopes' /\ PlaceIn(scopes', h) = PlaceIn(scopes, h)
    BY <1>1, <1>2, PlacesKept
  <2> QED
    BY <2>1, <2>2
<1>7. \A r \in DOMAIN variables : variables[r].scope # s
  BY <1>5, <1>6
<1>8. path \in Seq(Nat)
  <2>1. currentScope \in DOMAIN scopes
    BY <1>1 DEF TreeOK
  <2> QED
    BY <1>1, <2>1, PathEnds
<1>9. ScopesAgree(path, parserScopes, variables) /\ ParserKnows(parserScopes, variables)
  BY <1>1 DEF InScope, Live, Base, ParserOK
<1> DEFINE qs == Append(parserScopes, NoneDeclared)
<1>10. /\ ParserKnows(qs, variables) /\ ScopesAgree(Append(path, s), qs, variables)
       /\ Len(qs) = Len(parserScopes) + 1
       /\ \A n \in Names : qs[Len(qs)][n] = 0
       /\ \A d \in DOMAIN parserScopes : d \in DOMAIN qs /\ qs[d] = parserScopes[d]
       /\ \A d \in DOMAIN qs : d \in DOMAIN parserScopes \/ d = Len(qs)
  <2> HIDE DEF path, s
  <2> QED
    BY <1>5, <1>7, <1>8, <1>9, RowsOpen
<1>11. /\ scopes'[s].depth = scopes[currentScope].depth + 1
       /\ scopes'[s].index = scopes[currentScope].nextIndex
  BY <1>2 DEF Opens
<1> HIDE DEF path, qs
<1> QED
  BY <1>2, <1>3, <1>4, <1>5, <1>6, <1>10, <1>11 DEF qs

LEMMA EnterScopeKeeps ==
  ASSUME Inv, enterScope
  PROVE  Inv'
<1>1. /\ task = "convert" /\ openScope(NoneDeclared) /\ checkPoint' = checkPoint
      /\ UNCHANGED <<variables, stores, task, lost>>
  BY DEF enterScope, marks
<1> DEFINE qs == Append(parserScopes, NoneDeclared)
<1>2. /\ TreeOK' /\ PathsExist' /\ PathsOK' /\ parserScopes' = qs
      /\ \A r \in DOMAIN variables :
           /\ variables[r].scope \in DOMAIN scopes'
           /\ variables[r].place = PlaceIn(scopes', variables[r].scope)
      /\ ParserKnows(qs, variables)
      /\ ScopesAgree(PathTo'[currentScope'], qs, variables)
  BY <1>1, ScopeOpens
<1>3. /\ \A n \in Names : qs[Len(qs)][n] = 0
      /\ \A d \in DOMAIN qs : \/ d \in DOMAIN parserScopes /\ qs[d] = parserScopes[d]
                              \/ d = Len(qs)
  BY <1>1, ScopeOpens
<1> HIDE DEF qs, PathTo
<1>4. VariablesOK' /\ ParserOK' /\ InScope'
  <2>1. VariablesOK
    BY DEF Inv
  <2> QED
    BY <1>1, <1>2, <2>1 DEF VariablesOK, ParserOK, InScope, Live, Base
<1>5. StoresOK'
  <2>1. /\ KeysOK(Contents, variables)
        /\ ~lost => /\ Agree(Contents, variables)
                    /\ Entered(renameMap, parserScopes, variables, 0)
    BY <1>1 DEF Inv, StoresOK, Live, Pending
  <2>2. Contents' = Contents /\ renameMap' = renameMap
    BY <1>1 DEF stores, Contents
  <2>3. Entered(renameMap, parserScopes, variables, 0)
          => Entered(renameMap, qs, variables, 0)
    BY <1>3 DEF Entered
  <2> QED
    BY <1>1, <1>2, <2>1, <2>2, <2>3 DEF StoresOK, Live, Pending
<1> QED
  BY <1>1, <1>2, <1>4, <1>5, BetweenStatements DEF Inv

LEMMA LastReplaced ==
  ASSUME NEW S, NEW q \in Seq(S), NEW a \in S, NEW b \in S
  PROVE  [Append(q, a) EXCEPT ![Len(Append(q, a))] = b] = Append(q, b)
<1> DEFINE l == Len(q)
           p == Append(q, a)
           u == [p EXCEPT ![l + 1] = b]
           w == Append(q, b)
<1>1. /\ l \in Nat /\ p \in Seq(S) /\ Len(p) = l + 1
      /\ \A i \in 1 .. l + 1 : i # l + 1 => p[i] = q[i]
  OBVIOUS
<1> HIDE DEF p
<1>2. u \in Seq(S) /\ Len(u) = l + 1 /\ \A i \in 1 .. l + 1 : u[i] = IF i = l + 1 THEN b ELSE q[i]
  BY <1>1
<1>3. w \in Seq(S) /\ Len(w) = l + 1 /\ \A i \in 1 .. l + 1 : w[i] = IF i = l + 1 THEN b ELSE q[i]
  OBVIOUS
<1>4. u = w
  <2> HIDE DEF u, w, l
  <2> QED
    BY <1>2, <1>3, SeqEqual
<1> QED
  BY <1>1, <1>4 DEF p

LEMMA EnterFunctionKeeps ==
  ASSUME Inv, NEW n \in Names, NEW t \in Types, enterFunction(n, t)
  PROVE  Inv'
<1> DEFINE v == Len(variables) + 1
           declared == [NoneDeclared EXCEPT ![n] = v]
           x == [name |-> n, type |-> t, scope |-> Len(scopes) + 1,
                 place |-> Place(1, scopes[1].nextIndex)]
           vs == Append(variables, x)
           c == addVariable(addVariable(Contents, vs, v), vs, v)
           qs == Append(parserScopes, NoneDeclared)
           path == PathTo'[currentScope']
<1>1. /\ task = "convert" /\ currentScope = 1 /\ openScope(declared)
      /\ checkPoint' = checkPoint /\ variables' = vs /\ Commit(c)
      /\ UNCHANGED <<task, lost>>
  BY DEF enterFunction, marks
<1>2. /\ TreeOK' /\ PathsExist' /\ PathsOK' /\ parserScopes' = Append(parserScopes, declared)
      /\ currentScope' = Len(scopes) + 1 /\ currentScope' \in DOMAIN scopes'
      /\ scopes'[currentScope'].depth = scopes[currentScope].depth + 1
      /\ scopes'[currentScope'].index = scopes[currentScope].nextIndex
      /\ \A r \in DOMAIN variables :
           /\ variables[r].scope \in DOMAIN scopes'
           /\ variables[r].place = PlaceIn(scopes', variables[r].scope)
      /\ ParserKnows(qs, variables)
      /\ ScopesAgree(path, qs, variables)
      /\ Len(qs) = Len(parserScopes) + 1
      /\ \A m \in Names : qs[Len(qs)][m] = 0
  BY <1>1, ScopeOpens
<1>3. \A d \in DOMAIN qs : \/ d \in DOMAIN parserScopes /\ qs[d] = parserScopes[d]
                           \/ d = Len(qs)
  BY <1>1, ScopeOpens
<1>4. /\ variables \in Seq(Variable) /\ parserScopes \in Seq(Row)
      /\ scopes \in Seq(Scope) /\ 1 \in DOMAIN scopes /\ scopes[1] \in Scope
      /\ scopes[1].depth = 0 /\ KeysOK(Contents, variables)
      /\ ~lost => /\ Agree(Contents, variables)
                  /\ Entered(renameMap, parserScopes, variables, 0)
  BY <1>1 DEF Inv, VariablesOK, ParserOK, ParserKnows, TreeOK, StoresOK, Live, Pending
<1>5. x \in Variable /\ x.name = n /\ x.scope = currentScope'
      /\ x.place = PlaceIn(scopes', currentScope')
  <2>1. scopes[1].nextIndex \in Nat /\ Len(scopes) + 1 \in Nat
    BY <1>4 DEF Scope
  <2>2. x \in Variable
    BY <2>1 DEF Variable, Place
  <2>3. PlaceIn(scopes', currentScope') = Place(1, scopes[1].nextIndex)
    BY <1>1, <1>2, <1>4 DEF PlaceIn
  <2> QED
    BY <1>2, <2>2, <2>3
<1> HIDE DEF x
<1>6. VariablesOK'
  <2>1. vs \in Seq(Variable) /\ \A r \in DOMAIN vs :
          \/ r \in DOMAIN variables /\ vs[r] = variables[r]
          \/ vs[r] = x
    BY <1>4, <1>5
  <2> HIDE DEF vs
  <2>2. \A r \in DOMAIN vs : /\ vs[r].scope \in DOMAIN scopes'
                             /\ vs[r].place = PlaceIn(scopes', vs[r].scope)
    BY <1>2, <1>5, <2>1
  <2> QED
    BY <1>1, <2>1, <2>2 DEF VariablesOK
<1>7. path \in Seq(Nat) /\ path[Len(path)] = currentScope'
      /\ \A d \in DOMAIN path : path[d] = path[Len(path)] => d = Len(path)
  <2>1. /\ path \in Seq(DOMAIN scopes') /\ Len(path) = scopes'[currentScope'].depth + 1
        /\ path[Len(path)] = currentScope'
        /\ \A i \in 1 .. Len(path) : scopes'[path[i]].depth = i - 1
        /\ scopes' \in Seq(Scope)
    BY <1>2 DEF PathsOK, TreeOK
  <2> HIDE DEF path
  <2> QED
    BY <1>2, <2>1, PathEndsIn
<1> DEFINE rows == WithName(qs, n, v)
<1> HIDE DEF path
<1>8. parserScopes' = rows
  <2>1. /\ qs \in Seq(Row) /\ NoneDeclared \in Row /\ declared \in Row
    BY <1>2, <1>4 DEF ParserKnows, NoneDeclared, Row
  <2>2. rows = [qs EXCEPT ![Len(qs)] = [qs[Len(qs)] EXCEPT ![n] = v]]
    BY DEF WithName
  <2>3. qs[Len(qs)] = NoneDeclared
    BY <1>2, <1>4, <2>1
  <2>4. rows = [qs EXCEPT ![Len(qs)] = declared]
    BY <2>2, <2>3
  <2> HIDE DEF declared, NoneDeclared, rows
  <2>5. [qs EXCEPT ![Len(qs)] = declared] = Append(parserScopes, declared)
    BY <1>4, <2>1, LastReplaced
  <2> QED
    BY <1>2, <2>4, <2>5
<1> HIDE DEF qs, declared
<1>9. /\ ParserKnows(rows, vs) /\ ScopesAgree(path, rows, vs) /\ DOMAIN rows = DOMAIN qs
      /\ \A d \in DOMAIN rows, m \in Names :
           rows[d][m] = IF d = Len(qs) /\ m = n THEN v ELSE qs[d][m]
  <2>1. /\ variables \in Seq(Variable) /\ ParserKnows(qs, variables)
        /\ path \in Seq(Nat) /\ ScopesAgree(path, qs, variables)
        /\ \A d \in DOMAIN path : path[d] = path[Len(path)] => d = Len(path)
        /\ qs[Len(qs)][n] = 0 /\ x \in Variable /\ x.name = n
        /\ x.scope = path[Len(path)]
    BY <1>2, <1>4, <1>5, <1>7
  <2> QED
    BY <2>1, RowsDeclare
<1>10. ParserOK' /\ InScope'
  BY <1>1, <1>8, <1>9 DEF ParserOK, InScope, Live, Base, path
<1>11. StoresOK'
  <2>1. KeysOK(Contents, vs) /\ (~lost => Agree(Contents, vs)) /\ v \in DOMAIN vs
    BY <1>4, <1>5, KeysLater, AgreeLater
  <2>2. /\ KeysOK(c, vs) /\ (~lost => Agree(c, vs))
        /\ DOMAIN c.map = DOMAIN renameMap \cup {Key(vs, v)}
    <3> DEFINE a == addVariable(Contents, vs, v)
    <3>1. /\ IsContents(a) /\ KeysOK(a, vs) /\ (Agree(Contents, vs) => Agree(a, vs))
          /\ DOMAIN a.map = DOMAIN Contents.map \cup {Key(vs, v)}
      BY <2>1, ContentsAre, AddKeys
    <3> HIDE DEF a, vs, v
    <3>2. KeysOK(c, vs) /\ (Agree(a, vs) => Agree(c, vs))
          /\ DOMAIN c.map = DOMAIN a.map \cup {Key(vs, v)}
      BY <2>1, <3>1, AddKeys DEF a
    <3> QED
      BY <2>1, <3>1, <3>2, ContentsAre
  <2>3. ASSUME ~lost PROVE Entered(c.map, rows, vs, 0)
    <3>1. ASSUME NEW d \in DOMAIN rows, NEW m \in Names, rows[d][m] # 0
          PROVE  Key(vs, rows[d][m]) \in DOMAIN c.map
      <4>1. CASE rows[d][m] = v
        BY <2>2, <4>1
      <4>2. CASE rows[d][m] # v
        <5>1. d \in DOMAIN parserScopes /\ rows[d][m] = parserScopes[d][m]
          BY <1>2, <1>3, <1>9, <3>1, <4>2
        <5>2. Key(variables, rows[d][m]) \in DOMAIN renameMap
          BY <1>4, <2>3, <3>1, <5>1 DEF Entered
        <5>3. rows[d][m] \in DOMAIN variables
          <6>1. ParserKnows(parserScopes, variables)
            BY DEF Inv, ParserOK
          <6> QED
            BY <3>1, <5>1, <6>1 DEF ParserKnows
        <5>4. Key(vs, rows[d][m]) = Key(variables, rows[d][m])
          BY <1>4, <1>5, <5>3, KeyKept
        <5> QED
          BY <2>2, <5>2, <5>4
      <4> QED
        BY <4>1, <4>2
    <3>2. \A k \in DOMAIN c.map : c.map[k] # 0
      <4>1. vs \in Seq(Variable)
        BY <1>4, <1>5
      <4> HIDE DEF c, vs
      <4> QED
        BY <2>2, <4>1, KeysAreVariables
    <3> QED
      BY <3>1, <3>2 DEF Entered
  <2> HIDE DEF c, vs, v, rows
  <2>4. KeysOK(Contents', vs) /\ (~lost => Agree(Contents', vs)) /\ renameMap' = c.map
    BY <1>1, <2>2, Committed
  <2> QED
    BY <1>1, <1>8, <2>3, <2>4 DEF StoresOK, Live, Pending
<1> HIDE DEF PathTo
<1> QED
  BY <1>1, <1>2, <1>6, <1>10, <1>11, BetweenStatements DEF Inv

LEMMA LeaveScopeKeeps ==
  ASSUME Inv, leaveScope
  PROVE  Inv'
<1> DEFINE p == scopes[currentScope].parent
           path == PathTo[p]
<1>1. /\ task = "convert" /\ currentScope # 1 /\ currentScope' = p
      /\ parserScopes' = Front(parserScopes)
      /\ UNCHANGED <<scopes, checkPoint, variables, stores, task, lost>>
  BY DEF leaveScope, marks
<1>2. /\ TreeOK /\ PathsExist /\ PathsOK /\ VariablesOK
      /\ ParserKnows(parserScopes, variables)
      /\ ScopesAgree(PathTo[currentScope], parserScopes, variables)
  BY <1>1 DEF Inv, ParserOK, InScope, Live, Base
<1>3. currentScope \in DOMAIN scopes /\ currentScope \in Nat /\ p \in DOMAIN scopes /\ p # 0
  <2>1. currentScope \in DOMAIN scopes /\ scopes \in Seq(Scope) /\ p \in 1 .. currentScope - 1
    BY <1>1, <1>2 DEF TreeOK
  <2> QED
    BY <2>1
<1>4. PathTo[currentScope] = Append(path, currentScope)
  BY <1>2, <1>3, PathToUnfolds
<1>5. path \in Seq(Nat) /\ path # <<>>
  BY <1>2, <1>3, PathEnds
<1>6. PathTo' = PathTo /\ PathsExist' /\ PathsOK'
  BY <1>1, <1>2, PathsStay
<1>7. TreeOK'
  BY <1>1, <1>2, <1>3 DEF TreeOK
<1>8. VariablesOK'
  BY <1>1, <1>2 DEF VariablesOK
<1> HIDE DEF path, PathTo
<1> DEFINE qs == Front(parserScopes)
<1>9. /\ ParserKnows(qs, variables) /\ ScopesAgree(path, qs, variables)
      /\ \A d \in DOMAIN qs : d \in DOMAIN parserScopes /\ qs[d] = parserScopes[d]
  BY <1>2, <1>3, <1>4, <1>5, RowsClose
<1> HIDE DEF qs
<1>10. ParserOK' /\ InScope'
  <2>1. parserScopes' = qs /\ variables' = variables /\ task' = "convert"
        /\ currentScope' = p
    BY <1>1 DEF qs
  <2>2. PathTo'[currentScope'] = path
    BY <1>6, <2>1 DEF path
  <2> QED
    BY <1>9, <2>1, <2>2 DEF ParserOK, InScope, Base
<1>11. StoresOK'
  <2>1. /\ KeysOK(Contents, variables)
        /\ ~lost => /\ Agree(Contents, variables)
                    /\ Entered(renameMap, parserScopes, variables, 0)
    BY <1>1 DEF Inv, StoresOK, Live, Pending
  <2>2. Contents' = Contents /\ renameMap' = renameMap /\ parserScopes' = qs
    BY <1>1 DEF stores, Contents, qs
  <2>3. Entered(renameMap, parserScopes, variables, 0)
          => Entered(renameMap, qs, variables, 0)
    BY <1>9 DEF Entered
  <2> QED
    BY <1>1, <2>1, <2>2, <2>3 DEF StoresOK, Live, Pending
<1> QED
  BY <1>1, <1>6, <1>7, <1>8, <1>10, <1>11, BetweenStatements DEF Inv

LEMMA Declares ==
  ASSUME Inv, task = "convert", NEW n \in Names, NEW t \in Types, MayDeclare(n),
         scopes' = scopes, variables' = NewVariable(n, t),
         parserScopes' = DeclaredAs(n, Len(variables) + 1)
  PROVE  LET v == Len(variables) + 1
         IN /\ VariablesOK' /\ ParserOK'
            /\ ScopesAgree(PathTo[currentScope], parserScopes', variables')
            /\ DOMAIN parserScopes' = DOMAIN parserScopes
            /\ parserScopes[Len(parserScopes)][n] = 0
            /\ \A d \in DOMAIN parserScopes, m \in Names :
                 parserScopes'[d][m] = IF d = Len(parserScopes) /\ m = n THEN v
                                       ELSE parserScopes[d][m]
            /\ v \in DOMAIN variables' /\ v \notin DOMAIN variables /\ v # 0
            /\ variables'[v].name = n /\ v = Len(variables')
            /\ \A r \in DOMAIN variables : r \in DOMAIN variables'
            /\ KeysOK(Contents, variables')
            /\ ~lost => /\ Agree(Contents, variables')
                        /\ Entered(renameMap, parserScopes', variables', v)
<1> DEFINE v == Len(variables) + 1
           path == PathTo[currentScope]
<1>1. /\ TreeOK /\ PathsOK /\ VariablesOK
      /\ ParserKnows(parserScopes, variables) /\ KeysOK(Contents, variables)
      /\ ScopesAgree(path, parserScopes, variables)
      /\ ~lost => /\ Agree(Contents, variables)
                  /\ Entered(renameMap, parserScopes, variables, 0)
  BY DEF Inv, ParserOK, InScope, Live, Base, StoresOK, Pending
<1>2. VariablesOK' /\ \E x \in Variable : /\ variables' = Append(variables, x)
                                          /\ x.name = n /\ x.scope = currentScope
  BY <1>1, NewVariableIs
<1>3. PICK x \in Variable : /\ variables' = Append(variables, x)
                            /\ x.name = n /\ x.scope = currentScope
  BY <1>2
<1>4. variables \in Seq(Variable) /\ currentScope \in DOMAIN scopes
  BY <1>1 DEF VariablesOK, TreeOK
<1>5. /\ path \in Seq(Nat) /\ path[Len(path)] = currentScope
      /\ \A d \in DOMAIN path : path[d] = path[Len(path)] => d = Len(path)
  BY <1>1, <1>4, PathEnds
<1>6. parserScopes[Len(parserScopes)][n] = 0 /\ parserScopes' = WithName(parserScopes, n, v)
  BY DEF MayDeclare, Last, DeclaredAs, WithName
<1> HIDE DEF path
<1>7. /\ ParserKnows(parserScopes', variables') /\ ScopesAgree(path, parserScopes', variables')
      /\ DOMAIN parserScopes' = DOMAIN parserScopes
      /\ \A d \in DOMAIN parserScopes, m \in Names :
           parserScopes'[d][m] = IF d = Len(parserScopes) /\ m = n THEN v
                                 ELSE parserScopes[d][m]
  <2> DEFINE qs == WithName(parserScopes, n, v)
             us == Append(variables, x)
  <2>1. x.scope = path[Len(path)]
    BY <1>3, <1>5
  <2>2. /\ ParserKnows(qs, us) /\ ScopesAgree(path, qs, us)
        /\ DOMAIN qs = DOMAIN parserScopes
        /\ \A d \in DOMAIN qs, m \in Names :
             qs[d][m] = IF d = Len(parserScopes) /\ m = n THEN v
                        ELSE parserScopes[d][m]
    BY <1>1, <1>3, <1>4, <1>5, <1>6, <2>1, RowsDeclare
  <2> HIDE DEF qs, us, v
  <2> QED
    BY <1>3, <1>6, <2>2 DEF qs, us
<1>8. /\ v \in DOMAIN variables' /\ v \notin DOMAIN variables /\ v # 0
      /\ variables'[v].name = n /\ v = Len(variables')
      /\ \A r \in DOMAIN variables : r \in DOMAIN variables'
  BY <1>3, <1>4
<1>9. KeysOK(Contents, variables') /\ (~lost => Agree(Contents, variables'))
  BY <1>1, <1>3, <1>4, KeysLater, AgreeLater
<1>10. ASSUME ~lost PROVE Entered(renameMap, parserScopes', variables', v)
  <2>1. \A k \in DOMAIN renameMap : renameMap[k] # v
    <3>1. \A k \in DOMAIN Contents.map : Contents.map[k] # v
      BY <1>1, <1>4, KeysAreVariables
    <3> QED
      BY <3>1, ContentsAre
  <2>2. ASSUME NEW d \in DOMAIN parserScopes, NEW m \in Names,
               parserScopes'[d][m] \notin {0, v}
        PROVE  Key(variables', parserScopes'[d][m]) \in DOMAIN renameMap
    <3>1. parserScopes'[d][m] = parserScopes[d][m] /\ parserScopes[d][m] # 0
      BY <1>7, <2>2
    <3>2. parserScopes[d][m] \in DOMAIN variables
      BY <1>1, <3>1 DEF ParserKnows
    <3>3. Key(variables, parserScopes[d][m]) \in DOMAIN renameMap
      BY <1>1, <1>10, <3>1 DEF Entered
    <3>4. Key(variables', parserScopes[d][m]) = Key(variables, parserScopes[d][m])
      BY <1>3, <1>4, <3>2, KeyKept
    <3> QED
      BY <3>1, <3>3, <3>4
  <2> QED
    BY <1>7, <2>1, <2>2 DEF Entered
<1> HIDE DEF v
<1> QED
  BY <1>2, <1>6, <1>7, <1>8, <1>9, <1>10 DEF ParserOK, v, path

LEMMA DeclareKeeps ==
  ASSUME Inv, NEW n \in Names, NEW t \in Types, declare(n, t)
  PROVE  Inv'
<1> DEFINE v == Len(variables) + 1
           vs == NewVariable(n, t)
           c == addVariable(Contents, vs, v)
<1>1. /\ task = "convert" /\ MayDeclare(n) /\ variables' = vs /\ Commit(c)
      /\ parserScopes' = DeclaredAs(n, v)
      /\ UNCHANGED <<scopes, currentScope, checkPoint, task, lost>>
  BY DEF declare, InFunction, marks
<1>2. /\ VariablesOK' /\ ParserOK'
      /\ ScopesAgree(PathTo[currentScope], parserScopes', variables')
      /\ v \in DOMAIN variables' /\ v # 0 /\ KeysOK(Contents, variables')
      /\ ~lost => /\ Agree(Contents, variables')
                  /\ Entered(renameMap, parserScopes', variables', v)
  BY <1>1, Declares
<1>3. TreeOK /\ PathsExist /\ PathsOK
  BY DEF Inv
<1>4. TreeOK' /\ PathTo' = PathTo /\ PathsExist' /\ PathsOK'
  <2>1. TreeOK'
    BY <1>1, <1>3 DEF TreeOK
  <2> QED
    BY <1>1, <1>3, <2>1, PathsStay
<1> HIDE DEF PathTo, vs, v
<1>5. InScope'
  BY <1>1, <1>2, <1>4 DEF InScope, Base
<1>6. StoresOK'
  <2>1. /\ KeysOK(c, vs) /\ (~lost => Agree(c, vs))
        /\ DOMAIN c.map = DOMAIN renameMap \cup {Key(vs, v)}
    <3>1. /\ IsContents(Contents) /\ v \in DOMAIN vs /\ KeysOK(Contents, vs)
          /\ Contents.map = renameMap
      BY <1>1, <1>2, ContentsAre
    <3>2. /\ KeysOK(c, vs) /\ (Agree(Contents, vs) => Agree(c, vs))
          /\ DOMAIN c.map = DOMAIN Contents.map \cup {Key(vs, v)}
      BY <3>1, AddKeys
    <3> QED
      BY <1>1, <1>2, <3>1, <3>2
  <2> HIDE DEF c
  <2>2. KeysOK(Contents', vs) /\ (~lost => Agree(Contents', vs)) /\ renameMap' = c.map
    BY <1>1, <2>1, Committed
  <2>3. vs \in Seq(Variable) /\ ParserKnows(parserScopes', vs)
    BY <1>1, <1>2 DEF VariablesOK, ParserOK
  <2>4. ~lost => Entered(c.map, parserScopes', vs, 0)
    <3>1. \A k \in DOMAIN c.map : c.map[k] # 0
      BY <2>1, <2>3, KeysAreVariables
    <3>2. DOMAIN renameMap \subseteq DOMAIN c.map /\ Key(vs, v) \in DOMAIN c.map
      BY <2>1
    <3>3. ~lost => Entered(renameMap, parserScopes', vs, v)
      BY <1>1, <1>2
    <3> QED
      BY <2>3, <3>1, <3>2, <3>3, EnteredLater
  <2> QED
    BY <1>1, <2>2, <2>4 DEF StoresOK, Live, Pending
<1> QED
  BY <1>1, <1>2, <1>4, <1>5, <1>6, BetweenStatements DEF Inv

(* A lookup begins in the scope that it has to come back to.               *)
LEMMA LookupStarts ==
  ASSUME Inv, task = "convert", NEW m \in Names, NEW s, startLookup(m, s),
         s.name = m, s.parsed = ParserFinds(m),
         DOMAIN parserScopes' = DOMAIN parserScopes,
         \A d \in DOMAIN parserScopes :
           \/ parserScopes'[d][m] = parserScopes[d][m]
           \/ parserScopes[d][m] = 0 /\ parserScopes'[d][m] = s.var,
         Len(parserScopes') = Len(parserScopes)
  PROVE  /\ TreeOK' /\ PathsExist' /\ PathsOK' /\ PathTo' = PathTo
         /\ Base' = currentScope /\ LookupOK'
         /\ s.parsed \in DOMAIN variables /\ s.parsed # 0 /\ variables[s.parsed].name = m
<1>1. /\ ParserFinds(m) # 0 /\ statement' = s /\ checkPoint' = currentScope
      /\ checkPointValid' = TRUE /\ task' = "lookup"
      /\ UNCHANGED <<scopes, currentScope, lost>>
  BY DEF startLookup
<1>2. /\ TreeOK /\ PathsExist /\ PathsOK /\ ParserOK
      /\ ScopesAgree(PathTo[currentScope], parserScopes, variables)
  BY DEF Inv, InScope, Live, Base
<1>3. TreeOK' /\ PathsExist' /\ PathsOK' /\ PathTo' = PathTo
  <2>1. TreeOK'
    BY <1>1, <1>2 DEF TreeOK
  <2> QED
    BY <1>1, <1>2, <2>1, PathsStay
<1>4. /\ ParserFinds(m) \in DOMAIN variables /\ variables[ParserFinds(m)].name = m
      /\ \E d \in DOMAIN parserScopes :
           /\ parserScopes[d][m] = ParserFinds(m)
           /\ \A e \in DOMAIN parserScopes : e > d => parserScopes[e][m] = 0
  BY <1>1, <1>2, Found, ParserResolves
<1> DEFINE here == PathTo[currentScope]
<1>5. PathTo'[currentScope'] = here /\ PathTo'[checkPoint'] = here
  BY <1>1, <1>3
<1>6. PICK d \in DOMAIN parserScopes :
           /\ parserScopes[d][m] = ParserFinds(m)
           /\ \A e \in DOMAIN parserScopes : e > d => parserScopes[e][m] = 0
  BY <1>4
<1>7. Len(here) = Len(parserScopes) /\ Len(here) \in Nat /\ d <= Len(here)
  <2>1. /\ parserScopes \in Seq(Row) /\ Len(here) = Len(parserScopes)
    BY <1>2 DEF ParserOK, ParserKnows, ScopesAgree
  <2> QED
    BY <2>1
<1>8. ParsedAt(d)'
  <2>1. d \in DOMAIN parserScopes' /\ parserScopes'[d][m] = ParserFinds(m)
    BY <1>1, <1>6
  <2>2. \A e \in DOMAIN parserScopes' : e > d => parserScopes'[e][m] \in {0, s.var}
    BY <1>6
  <2> QED
    BY <1>1, <2>1, <2>2 DEF ParsedAt
<1>9. LookupOK'
  <2> HIDE DEF here, PathTo
  <2> QED
    BY <1>1, <1>5, <1>7, <1>8 DEF LookupOK
<1> QED
  BY <1>1, <1>3, <1>4, <1>9 DEF Base

LEMMA NotFoundYet ==
  ASSUME task' = "lookup"
  PROVE  FoundOK' /\ CrashesOnlyAfterLoss' /\ MisresolvedOnlyByCollision'
BY DEF FoundOK, CrashesOnlyAfterLoss, Crashes, MisresolvedOnlyByCollision

LEMMA AssignKeeps ==
  ASSUME Inv, NEW m \in Names, assign(m)
  PROVE  Inv'
<1> DEFINE s == [kind |-> "assign", name |-> m, var |-> 0, parsed |-> ParserFinds(m)]
<1>1. /\ task = "convert" /\ startLookup(m, s)
      /\ UNCHANGED <<parserScopes, variables>>
  BY DEF assign, startLookup, InFunction
<1>2. /\ statement' = s /\ task' = "lookup" /\ scopes' = scopes /\ lost' = lost
      /\ UNCHANGED stores
  BY <1>1 DEF startLookup
<1>3. s.kind = "assign" /\ s.name = m /\ s.var = 0 /\ s.parsed = ParserFinds(m)
  OBVIOUS
<1> HIDE DEF s
<1>4. /\ TreeOK' /\ PathsExist' /\ PathsOK' /\ PathTo' = PathTo
      /\ Base' = currentScope /\ LookupOK'
      /\ s.parsed \in DOMAIN variables
  BY <1>1, <1>3, LookupStarts
<1>5. /\ VariablesOK /\ ParserOK
      /\ ScopesAgree(PathTo[currentScope], parserScopes, variables)
      /\ KeysOK(Contents, variables)
      /\ ~lost => /\ Agree(Contents, variables)
                  /\ Entered(renameMap, parserScopes, variables, 0)
  BY <1>1 DEF Inv, InScope, Live, Base, StoresOK, Pending
<1>6. VariablesOK' /\ ParserOK'
  BY <1>1, <1>2, <1>5 DEF VariablesOK, ParserOK
<1> HIDE DEF PathTo
<1>7. InScope'
  BY <1>1, <1>4, <1>5 DEF InScope
<1>8. StatementOK'
  BY <1>1, <1>2, <1>3, <1>4 DEF StatementOK
<1>9. StoresOK'
  <2>1. Contents' = Contents /\ renameMap' = renameMap /\ Pending' = 0
    BY <1>2, <1>3 DEF stores, Contents, Pending
  <2> QED
    BY <1>1, <1>2, <1>5, <2>1 DEF StoresOK
<1> QED
  BY <1>2, <1>4, <1>6, <1>7, <1>8, <1>9, NotFoundYet DEF Inv

LEMMA DeclareFromKeeps ==
  ASSUME Inv, NEW n \in Names, NEW m \in Names, NEW kind \in Initializers,
         declareFrom(n, m, kind)
  PROVE  Inv'
<1> DEFINE v == Len(variables) + 1
           s == [kind |-> kind, name |-> m, var |-> v, parsed |-> ParserFinds(m)]
           t == variables[ParserFinds(m)].type
<1>1. /\ task = "convert" /\ MayDeclare(n) /\ startLookup(m, s)
      /\ variables' = NewVariable(n, t) /\ parserScopes' = DeclaredAs(n, v)
  BY DEF declareFrom, startLookup, InFunction
<1>2. /\ statement' = s /\ task' = "lookup" /\ scopes' = scopes /\ lost' = lost
      /\ ParserFinds(m) # 0 /\ UNCHANGED stores
  BY <1>1 DEF startLookup
<1>3. t \in Types
  <2>1. ParserOK /\ variables \in Seq(Variable)
    BY DEF Inv, VariablesOK
  <2>2. ParserFinds(m) \in DOMAIN variables
    BY <1>2, <2>1, Found
  <2>3. variables[ParserFinds(m)] \in Variable
    BY <2>1, <2>2
  <2> QED
    BY <2>3 DEF Variable
<1> HIDE DEF t
<1>4. /\ VariablesOK' /\ ParserOK'
      /\ ScopesAgree(PathTo[currentScope], parserScopes', variables')
      /\ DOMAIN parserScopes' = DOMAIN parserScopes
      /\ parserScopes[Len(parserScopes)][n] = 0
      /\ \A d \in DOMAIN parserScopes, k \in Names :
           parserScopes'[d][k] = IF d = Len(parserScopes) /\ k = n THEN v
                                 ELSE parserScopes[d][k]
      /\ v \in DOMAIN variables' /\ v \notin DOMAIN variables /\ v # 0
      /\ variables'[v].name = n /\ v = Len(variables')
      /\ \A r \in DOMAIN variables : r \in DOMAIN variables'
      /\ KeysOK(Contents, variables')
      /\ ~lost => /\ Agree(Contents, variables')
                  /\ Entered(renameMap, parserScopes', variables', v)
  BY <1>1, <1>2, <1>3, Declares
<1>5. s.kind = kind /\ s.name = m /\ s.var = v /\ s.parsed = ParserFinds(m)
  OBVIOUS
<1> HIDE DEF s, v
<1>6. Len(parserScopes') = Len(parserScopes)
  <2>1. ParserKnows(parserScopes, variables) /\ ParserKnows(parserScopes', variables')
    BY <1>4 DEF Inv, ParserOK
  <2>2. parserScopes \in Seq(Row) /\ parserScopes' \in Seq(Row)
    BY <2>1 DEF ParserKnows
  <2> QED
    BY <1>4, <2>2
<1>7. \A d \in DOMAIN parserScopes :
        \/ parserScopes'[d][m] = parserScopes[d][m]
        \/ parserScopes[d][m] = 0 /\ parserScopes'[d][m] = s.var
  BY <1>4, <1>5
<1>8. /\ TreeOK' /\ PathsExist' /\ PathsOK' /\ PathTo' = PathTo
      /\ Base' = currentScope /\ LookupOK'
      /\ s.parsed \in DOMAIN variables
  BY <1>1, <1>4, <1>5, <1>6, <1>7, LookupStarts
<1> HIDE DEF PathTo
<1>9. InScope'
  BY <1>4, <1>8 DEF InScope
<1>10. StatementOK'
  <2>1. kind \in AllInitializers /\ kind # "assign"
    BY InitializersAssumption DEF AllInitializers
  <2>2. s.parsed \in DOMAIN variables' /\ s.var # s.parsed
    BY <1>4, <1>5, <1>8
  <2> QED
    BY <1>2, <1>4, <1>5, <2>1, <2>2 DEF StatementOK
<1>11. StoresOK'
  <2>1. Contents' = Contents /\ renameMap' = renameMap /\ Pending' = v
    BY <1>2, <1>5 DEF stores, Contents, Pending
  <2> QED
    BY <1>2, <1>4, <2>1 DEF StoresOK
<1> QED
  BY <1>2, <1>4, <1>8, <1>9, <1>10, <1>11, NotFoundYet DEF Inv

LEMMA KeyOfNamed ==
  ASSUME VariablesOK, NEW r \in DOMAIN variables, variables[r].name \in Names
  PROVE  Key(variables, r) = <<variables[r].name, 0, PlaceOf(variables[r].scope)>>
BY NamesAssumption DEF VariablesOK, Key, PlaceOf, PlaceIn

LEMMA FoundKeeps ==
  ASSUME Inv, found
  PROVE  Inv'
<1> DEFINE c == currentScope
           k == KeyHere
           here == PathTo[c]
           path == PathTo[checkPoint]
           name == statement.name
           r == renameMap[k]
<1>1. /\ task = "lookup" /\ k \in DOMAIN renameMap /\ result' = r
      /\ currentScope' = IF checkPointValid THEN checkPoint ELSE currentScope
      /\ checkPoint' = checkPoint /\ task' = "found"
      /\ UNCHANGED <<parserScopes, scopes, variables, stores, statement, lost>>
  BY DEF found, goToCheckPoint
<1>2. /\ TreeOK /\ PathsExist /\ PathsOK /\ VariablesOK /\ ParserOK
      /\ ScopesAgree(path, parserScopes, variables)
      /\ KeysOK(Contents, variables)
      /\ ~lost => /\ Agree(Contents, variables)
                  /\ Entered(renameMap, parserScopes, variables, statement.var)
  BY <1>1 DEF Inv, InScope, Live, Base, StoresOK, Pending
<1>3. /\ checkPointValid /\ Len(here) <= Len(parserScopes)
      /\ \A i \in 1 .. Len(here) : path[i] = here[i]
      /\ \E d \in DOMAIN parserScopes : ParsedAt(d) /\ (~lost => d <= Len(here))
  BY <1>1 DEF Inv, LookupOK
<1>4. currentScope' = checkPoint /\ checkPoint \in DOMAIN scopes /\ c \in DOMAIN scopes
  BY <1>1, <1>2, <1>3 DEF TreeOK
<1>5. TreeOK' /\ PathTo' = PathTo /\ PathsExist' /\ PathsOK'
  <2>1. TreeOK'
    BY <1>1, <1>2, <1>4 DEF TreeOK
  <2> QED
    BY <1>1, <1>2, <2>1, PathsStay
<1>6. VariablesOK' /\ ParserOK'
  BY <1>1, <1>2 DEF VariablesOK, ParserOK
<1>7. InScope'
  <2> HIDE DEF PathTo
  <2> QED
    BY <1>1, <1>2, <1>4, <1>5 DEF InScope, Base
<1>8. StatementOK'
  BY <1>1 DEF Inv, StatementOK
<1>9. StoresOK'
  <2>1. Contents' = Contents /\ renameMap' = renameMap /\ Pending' = statement.var
    BY <1>1 DEF stores, Contents, Pending
  <2> QED
    BY <1>1, <1>2, <2>1 DEF StoresOK
<1>10. r \in DOMAIN variables /\ Key(variables, r) = k
  <2>1. /\ Contents.map = renameMap
    BY ContentsAre
  <2> QED
    BY <1>1, <1>2, <2>1 DEF KeysOK
<1>11. FoundOK' /\ LookupOK' /\ CrashesOnlyAfterLoss'
  BY <1>1, <1>10 DEF FoundOK, LookupOK, CrashesOnlyAfterLoss, Crashes
<1> DEFINE home == variables[r].scope
<1>12. /\ name \in Names /\ variables[r].name = name /\ home \in DOMAIN scopes
       /\ scopes[home].depth = scopes[c].depth /\ scopes[home].index = scopes[c].index
  <2>1. name \in Names
    BY <1>1 DEF Inv, StatementOK
  <2>2. Key(variables, r) = <<name, 0, PlaceOf(c)>>
    BY <1>10 DEF KeyHere
  <2>3. variables[r].name = name
    BY <2>2 DEF Key
  <2>4. home \in DOMAIN scopes /\ Key(variables, r) = <<name, 0, PlaceOf(home)>>
    BY <1>2, <1>10, <2>1, <2>3, KeyOfNamed DEF VariablesOK
  <2>5. PlaceOf(home) = PlaceOf(c)
    BY <2>2, <2>4
  <2> HIDE DEF home
  <2> QED
    BY <2>1, <2>3, <2>4, <2>5 DEF PlaceOf, Place
<1>13. /\ Len(here) \in Nat \ {0} /\ here[Len(here)] = c /\ path[Len(here)] = c
       /\ Len(path) = Len(parserScopes) /\ DOMAIN path = 1 .. Len(path)
       /\ DOMAIN parserScopes = 1 .. Len(parserScopes) /\ Len(parserScopes) \in Nat
  <2>1. Len(here) \in Nat \ {0} /\ here[Len(here)] = c /\ path \in Seq(Nat)
    BY <1>2, <1>4, PathEnds
  <2>2. Len(here) \in 1 .. Len(here)
    BY <2>1
  <2>3. Len(path) = Len(parserScopes) /\ parserScopes \in Seq(Row)
    BY <1>2 DEF ScopesAgree, ParserOK, ParserKnows
  <2> HIDE DEF path, here
  <2> QED
    BY <1>3, <2>1, <2>2, <2>3
<1>14. \A i \in 1 .. Len(path) : scopes[path[i]].depth = i - 1
  BY <1>2, <1>4 DEF PathsOK
<1> HIDE DEF here, path, name, k, r
<1>15. ASSUME ~lost, r # statement.parsed
       PROVE  /\ home \notin Range(path)
              /\ \E s \in Range(path) : /\ scopes[s].depth = scopes[home].depth
                                        /\ scopes[s].index = scopes[home].index
  <2>1. Len(here) \in DOMAIN path
    BY <1>3, <1>13
  <2>2. c \in Range(path)
    BY <1>13, <2>1 DEF Range
  <2>3. ASSUME home \in Range(path) PROVE FALSE
    <3>1. PICK i \in 1 .. Len(path) : home = path[i]
      BY <1>13, <2>3 DEF Range
    <3>2. i - 1 = Len(here) - 1
      BY <1>12, <1>13, <1>14, <2>1, <3>1
    <3>3. i = Len(here)
      BY <1>13, <3>2
    <3>4. i \in DOMAIN parserScopes /\ parserScopes[i][name] = r
      BY <1>2, <1>10, <1>12, <1>13, <3>1 DEF ScopesAgree
    <3>5. PICK d \in DOMAIN parserScopes : ParsedAt(d) /\ d <= Len(here)
      BY <1>3, <1>15
    <3>6. CASE i = d
      BY <1>15, <3>4, <3>5, <3>6 DEF ParsedAt, name
    <3>7. CASE i > d
      <4>1. r \in {0, statement.var}
        BY <3>4, <3>5, <3>7 DEF ParsedAt, name
      <4>2. r # statement.var
        BY <1>1, <1>2, <1>15 DEF Entered, r
      <4>3. r # 0
        <5>1. variables \in Seq(Variable)
          BY <1>2 DEF VariablesOK
        <5> QED
          BY <1>10, <5>1
      <4> QED
        BY <4>1, <4>2, <4>3
    <3> QED
      BY <1>13, <3>3, <3>5, <3>6, <3>7
  <2> QED
    BY <1>12, <2>2, <2>3
<1>16. MisresolvedOnlyByCollision'
  <2>1. PathTo'[currentScope'] = path
    BY <1>4, <1>5 DEF path
  <2> HIDE DEF PathTo
  <2> QED
    BY <1>1, <1>15, <2>1 DEF MisresolvedOnlyByCollision
<1> QED
  BY <1>5, <1>6, <1>7, <1>8, <1>9, <1>11, <1>16 DEF Inv

LEMMA LookFurtherKeeps ==
  ASSUME Inv, lookFurther
  PROVE  Inv'
<1> DEFINE c == currentScope
           p == scopes[c].parent
           here == PathTo[c]
           path == PathTo[checkPoint]
<1>1. /\ task = "lookup" /\ KeyHere \notin DOMAIN renameMap
      /\ IF p # 0 THEN currentScope' = p /\ task' = task
         ELSE task' = "undeclared" /\ currentScope' = currentScope
      /\ UNCHANGED <<parserScopes, scopes, checkPoint, checkPointValid, variables,
                     stores, statement, lost>>
  BY DEF lookFurther, HasParent, marks
<1>2. /\ TreeOK /\ PathsExist /\ PathsOK /\ VariablesOK /\ ParserOK
      /\ ScopesAgree(path, parserScopes, variables)
      /\ KeysOK(Contents, variables)
      /\ ~lost => /\ Agree(Contents, variables)
                  /\ Entered(renameMap, parserScopes, variables, statement.var)
  BY <1>1 DEF Inv, InScope, Live, Base, StoresOK, Pending
<1>3. /\ checkPointValid /\ Len(here) <= Len(parserScopes)
      /\ \A i \in 1 .. Len(here) : path[i] = here[i]
      /\ \E d \in DOMAIN parserScopes : ParsedAt(d) /\ (~lost => d <= Len(here))
  BY <1>1 DEF Inv, LookupOK
<1>4. /\ c \in DOMAIN scopes /\ (p # 0 => p \in DOMAIN scopes)
      /\ c = 1 \/ p # 0
  <2>1. c \in DOMAIN scopes /\ scopes \in Seq(Scope) /\ (c # 1 => p \in 1 .. c - 1)
        /\ (c = 1 => p = 0)
    BY <1>2 DEF TreeOK
  <2> QED
    BY <2>1
<1>5. TreeOK' /\ PathTo' = PathTo /\ PathsExist' /\ PathsOK'
  <2>1. TreeOK'
    BY <1>1, <1>2, <1>4 DEF TreeOK
  <2> QED
    BY <1>1, <1>2, <2>1, PathsStay
<1>6. VariablesOK' /\ ParserOK'
  BY <1>1, <1>2 DEF VariablesOK, ParserOK
<1>7. InScope'
  <2> HIDE DEF PathTo
  <2> QED
    BY <1>1, <1>2, <1>5 DEF InScope, Base, Live
<1>8. StatementOK' /\ FoundOK' /\ MisresolvedOnlyByCollision'
  BY <1>1 DEF Inv, StatementOK, FoundOK, MisresolvedOnlyByCollision
<1>9. StoresOK'
  <2>1. Contents' = Contents /\ renameMap' = renameMap
        /\ (task' = "lookup" => Pending' = statement.var)
    BY <1>1 DEF stores, Contents, Pending
  <2> QED
    BY <1>1, <1>2, <2>1 DEF StoresOK, Live
<1>10. /\ Len(here) \in Nat \ {0} /\ here[Len(here)] = c /\ path[Len(here)] = c
       /\ DOMAIN parserScopes = 1 .. Len(parserScopes) /\ Len(parserScopes) \in Nat
  <2>1. Len(here) \in Nat \ {0} /\ here[Len(here)] = c
    BY <1>2, <1>4, PathEnds
  <2>2. Len(here) \in 1 .. Len(here)
    BY <2>1
  <2>3. parserScopes \in Seq(Row)
    BY <1>2 DEF ParserOK, ParserKnows
  <2> HIDE DEF path, here
  <2> QED
    BY <1>3, <2>1, <2>2, <2>3
<1>11. ASSUME NEW d \in DOMAIN parserScopes, ParsedAt(d), ~lost, d <= Len(here)
       PROVE  d < Len(here)
  <2>1. ASSUME d = Len(here) PROVE FALSE
    <3> DEFINE r == statement.parsed
    <3>1. /\ statement.name \in Names /\ r \in DOMAIN variables
          /\ statement.var # 0 => r # statement.var
      BY <1>1 DEF Inv, StatementOK
    <3>2. r # 0 /\ r # statement.var /\ parserScopes[d][statement.name] = r
      <4>1. variables \in Seq(Variable)
        BY <1>2 DEF VariablesOK
      <4>2. r # 0
        BY <3>1, <4>1
      <4> QED
        BY <1>11, <3>1, <4>2 DEF ParsedAt
    <3>3. variables[r].scope = c /\ variables[r].name = statement.name
      <4>1. variables[r].scope = path[d]
        BY <1>2, <3>1, <3>2 DEF ScopesAgree
      <4>2. variables[r].name = statement.name
        BY <1>2, <3>1, <3>2 DEF ParserOK, ParserKnows
      <4> QED
        BY <1>10, <2>1, <4>1, <4>2
    <3>4. Key(variables, r) \in DOMAIN renameMap
      BY <1>2, <1>11, <3>1, <3>2 DEF Entered
    <3>5. Key(variables, r) = KeyHere
      BY <1>2, <3>1, <3>3, KeyOfNamed DEF KeyHere
    <3> QED
      BY <1>1, <3>4, <3>5
  <2> HIDE DEF here
  <2> QED
    BY <1>10, <1>11, <2>1
<1>12. CASE p # 0
  <2> DEFINE before == PathTo[p]
  <2>1. task' = "lookup" /\ currentScope' = p
    BY <1>1, <1>12
  <2>2. here = Append(before, c) /\ before \in Seq(Nat)
    BY <1>2, <1>4, <1>12, PathToUnfolds, PathEnds
  <2> HIDE DEF before, here, path
  <2>3. /\ Len(here) = Len(before) + 1 /\ Len(before) \in Nat
        /\ \A i \in 1 .. Len(before) : here[i] = before[i] /\ i \in 1 .. Len(here)
    <3>1. Len(before) \in Nat /\ Len(Append(before, c)) = Len(before) + 1
          /\ \A i \in 1 .. Len(before) : Append(before, c)[i] = before[i]
      BY <2>2
    <3> QED
      BY <2>2, <3>1
  <2>4. Len(before) <= Len(parserScopes) /\ \A i \in 1 .. Len(before) : path[i] = before[i]
    BY <1>3, <1>10, <2>3
  <2>5. PICK d \in DOMAIN parserScopes : ParsedAt(d) /\ (~lost => d <= Len(here))
    BY <1>3
  <2>6. ~lost => d <= Len(before)
    BY <1>10, <1>11, <2>3, <2>5
  <2>7. ParsedAt(d)'
    BY <1>1, <2>5 DEF ParsedAt
  <2>8. PathTo'[currentScope'] = before /\ PathTo'[checkPoint'] = path
    BY <1>1, <1>5, <2>1 DEF before, path
  <2> HIDE DEF PathTo
  <2>9. LookupOK'
    BY <1>1, <1>3, <2>4, <2>5, <2>6, <2>7, <2>8 DEF LookupOK
  <2>10. CrashesOnlyAfterLoss'
    BY <2>1 DEF CrashesOnlyAfterLoss, Crashes
  <2> QED
    BY <1>5, <1>6, <1>7, <1>8, <1>9, <2>9, <2>10 DEF Inv
<1>13. CASE p = 0
  <2>1. task' = "undeclared" /\ c = 1
    BY <1>1, <1>4, <1>13
  <2>2. Len(here) = 1
    <3>1. Len(here) = scopes[c].depth + 1 /\ scopes[c].depth = 0
      BY <1>2, <1>4, <2>1 DEF PathsOK, TreeOK
    <3> QED
      BY <3>1
  <2> HIDE DEF here
  <2>3. ASSUME ~lost PROVE FALSE
    <3>1. PICK d \in DOMAIN parserScopes : ParsedAt(d) /\ d <= Len(here)
      BY <1>3, <2>3
    <3>2. d < 1 /\ d \in 1 .. Len(parserScopes)
      BY <1>10, <1>11, <2>2, <2>3, <3>1
    <3> QED
      BY <3>2
  <2>4. LookupOK' /\ CrashesOnlyAfterLoss'
    BY <1>1, <2>1, <2>3 DEF LookupOK, CrashesOnlyAfterLoss
  <2> QED
    BY <1>5, <1>6, <1>7, <1>8, <1>9, <2>4 DEF Inv
<1> QED
  BY <1>12, <1>13

LEMMA Finished ==
  ASSUME Inv, task = "found", VariablesOK', ParserOK',
         UNCHANGED <<parserScopes, scopes, currentScope, checkPoint>>,
         ScopesAgree(PathTo[currentScope], parserScopes, variables'),
         NEW c, Commit(c), KeysOK(c, variables'),
         ~lost' => /\ Agree(c, variables')
                   /\ Entered(c.map, parserScopes, variables', 0),
         task' \in {"convert", "undefined"}, ~lost' => task' = "convert"
  PROVE  Inv'
<1>1. TreeOK' /\ PathTo' = PathTo /\ PathsExist' /\ PathsOK'
  <2>1. TreeOK /\ PathsExist /\ PathsOK
    BY DEF Inv
  <2>2. TreeOK'
    BY <2>1 DEF TreeOK
  <2> QED
    BY <2>1, <2>2, PathsStay
<1> HIDE DEF PathTo
<1>2. InScope'
  BY <1>1 DEF InScope, Base
<1>3. StoresOK'
  <2>1. /\ KeysOK(Contents', variables') /\ renameMap' = c.map
        /\ ~lost' => Agree(Contents', variables')
    BY Committed
  <2>2. ~lost' => Pending' = 0
    BY DEF Pending
  <2> QED
    BY <2>1, <2>2 DEF StoresOK
<1>4. /\ StatementOK' /\ LookupOK' /\ FoundOK' /\ CrashesOnlyAfterLoss'
      /\ MisresolvedOnlyByCollision'
  BY DEF StatementOK, LookupOK, FoundOK, CrashesOnlyAfterLoss, Crashes,
         MisresolvedOnlyByCollision
<1> QED
  BY <1>1, <1>2, <1>3, <1>4 DEF Inv

LEMMA FinishKeeps ==
  ASSUME Inv, finish
  PROVE  Inv'
<1> DEFINE path == PathTo[currentScope]
           n == statement.var
<1>1. /\ task = "found" /\ lost' = (lost \/ statement.kind = "assigned")
      /\ UNCHANGED <<parserScopes, scopes, currentScope, checkPoint>>
      /\ finishAssign \/ finishLeaf \/ finishComputed \/ finishAssigned
  BY DEF finish, marks
<1>2. /\ TreeOK /\ VariablesOK /\ ParserOK /\ ScopesAgree(path, parserScopes, variables)
      /\ KeysOK(Contents, variables) /\ result \in DOMAIN variables
      /\ ~lost => /\ Agree(Contents, variables)
                  /\ Entered(renameMap, parserScopes, variables, n)
  BY <1>1 DEF Inv, InScope, Live, Base, StoresOK, Pending, FoundOK
<1>3. /\ variables \in Seq(Variable) /\ ParserKnows(parserScopes, variables)
  BY <1>2 DEF VariablesOK, ParserOK
<1>4. IF statement.kind = "assign" THEN n = 0
      ELSE n \in DOMAIN variables /\ variables[n].name \in Names
  BY <1>1 DEF Inv, StatementOK
<1>5. ASSUME variables' = variables
      PROVE  /\ VariablesOK' /\ ParserOK'
             /\ ScopesAgree(path, parserScopes, variables')
  BY <1>1, <1>2, <1>5 DEF VariablesOK, ParserOK
<1> HIDE DEF path
<1>6. ASSUME NEW c, NEW v \in DOMAIN variables, c = addVariable(Contents, variables, v),
             n \in {0, v}
      PROVE  /\ IsContents(c) /\ KeysOK(c, variables) /\ v \in DOMAIN variables
             /\ ~lost => /\ Agree(c, variables)
                         /\ Entered(c.map, parserScopes, variables, 0)
  <2>1. /\ IsContents(c) /\ KeysOK(c, variables)
        /\ DOMAIN c.map = DOMAIN Contents.map \cup {Key(variables, v)}
        /\ Agree(Contents, variables) => Agree(c, variables)
    BY <1>2, <1>6, ContentsAre, AddKeys
  <2>2. \A k \in DOMAIN c.map : c.map[k] # 0
    BY <1>3, <2>1, KeysAreVariables
  <2>3. DOMAIN renameMap \subseteq DOMAIN c.map /\ Key(variables, v) \in DOMAIN c.map
    BY <2>1, ContentsAre
  <2>4. ~lost => Entered(c.map, parserScopes, variables, 0)
    <3>1. n # 0 => Key(variables, n) \in DOMAIN c.map
      BY <1>6, <2>3
    <3> HIDE DEF n
    <3> QED
      BY <1>2, <1>3, <2>2, <2>3, <3>1, EnteredLater
  <2> QED
    BY <1>2, <2>1, <2>4
<1>7. CASE finishAssign
  <2> DEFINE c == addVariable(Contents, variables, result)
  <2>1. /\ statement.kind = "assign" /\ Commit(c) /\ task' = "convert"
        /\ variables' = variables
    BY <1>7 DEF finishAssign
  <2>2. KeysOK(c, variables)
        /\ (~lost => Agree(c, variables) /\ Entered(c.map, parserScopes, variables, 0))
    BY <1>2, <1>4, <1>6, <2>1
  <2> HIDE DEF c
  <2> QED
    BY <1>1, <1>5, <2>1, <2>2, Finished DEF path
<1>8. CASE finishLeaf
  <2> DEFINE c == addVariable(Contents, variables, n)
  <2>1. /\ statement.kind = "leaf" /\ Commit(c) /\ task' = "convert"
        /\ variables' = variables
    BY <1>8 DEF finishLeaf
  <2>2. KeysOK(c, variables)
        /\ (~lost => Agree(c, variables) /\ Entered(c.map, parserScopes, variables, 0))
    BY <1>2, <1>4, <1>6, <2>1
  <2> HIDE DEF c
  <2> QED
    BY <1>1, <1>5, <2>1, <2>2, Finished DEF path
<1>9. CASE finishAssigned
  <2> DEFINE a == addVariable(Contents, variables, result)
             b == addVariable(a, variables, n)
             c == removeVariable(b, variables, result)
  <2>1. /\ statement.kind = "assigned" /\ Commit(c) /\ task' \in {"convert", "undefined"}
        /\ variables' = variables
    BY <1>9 DEF finishAssigned
  <2>2. lost' = TRUE /\ n \in DOMAIN variables
    BY <1>1, <1>4, <2>1
  <2>3. IsContents(a) /\ KeysOK(a, variables)
    BY <1>2, ContentsAre, AddKeys
  <2> HIDE DEF a
  <2>4. IsContents(b) /\ KeysOK(b, variables)
    BY <2>2, <2>3, AddKeys
  <2> HIDE DEF b
  <2>5. KeysOK(c, variables)
    BY <2>4, RemoveKeys
  <2> HIDE DEF c
  <2> QED
    BY <1>1, <1>5, <2>1, <2>2, <2>5, Finished DEF path
<1>10. CASE finishComputed
  <2> DEFINE t == Len(variables) + 1
             vs == NewVariable(Temp, variables[result].type)
             a == addVariable(Contents, vs, t)
             b == addVariable(a, vs, n)
             c == Computed(Contents, vs, t, n)
  <2>1. /\ statement.kind = "computed" /\ variables' = vs /\ Commit(c)
        /\ task' = IF c.ok THEN "convert" ELSE "undefined"
    <3>1. statement.kind = "computed" /\ variables' = vs
      BY <1>10 DEF finishComputed
    <3>2. Commit(c)
      BY <1>10, Zenon DEF finishComputed, Computed
    <3>3. task' = IF c.ok THEN "convert" ELSE "undefined"
      BY <1>10, Zenon DEF finishComputed, Computed
    <3> QED
      BY <3>1, <3>2, <3>3
  <2>2. (lost' <=> lost) /\ n \in DOMAIN variables /\ variables[n].name \in Names
    BY <1>1, <1>4, <2>1
  <2>3. variables[result].type \in Types
    <3>1. variables[result] \in Variable
      BY <1>2, <1>3
    <3> QED
      BY <3>1 DEF Variable
  <2>4. VariablesOK' /\ \E x \in Variable : variables' = Append(variables, x) /\ x.name = Temp
    BY <1>1, <1>2, <2>1, <2>3, NewVariableIs
  <2>5. PICK x \in Variable : variables' = Append(variables, x) /\ x.name = Temp
    BY <2>4
  <2>6. vs = Append(variables, x)
    BY <2>1, <2>5
  <2> HIDE DEF vs, t
  <2>7. /\ t \in DOMAIN vs /\ t = Len(variables) + 1 /\ t \notin DOMAIN variables
        /\ \A r \in DOMAIN variables : /\ r \in DOMAIN vs /\ vs[r] = variables[r]
                                       /\ Key(vs, r) = Key(variables, r)
        /\ \A r \in DOMAIN vs : r \in DOMAIN variables \/ r = t
        /\ vs[t].name \notin Names /\ t = Len(vs)
    <3>1. t = Len(variables) + 1
      BY DEF t
    <3>2. \A r \in DOMAIN variables : Key(vs, r) = Key(variables, r)
      BY <1>3, <2>5, <2>6, KeyKept
    <3>3. Temp \notin Names
      BY NamesAssumption
    <3> QED
      BY <1>3, <2>5, <2>6, <3>1, <3>2, <3>3
  <2>8. ParserKnows(parserScopes, vs) /\ ScopesAgree(path, parserScopes, vs)
    <3>1. ParserKnows(parserScopes, vs)
      BY <1>3, <2>7 DEF ParserKnows
    <3>2. ScopesAgree(path, parserScopes, vs)
      BY <1>2, <1>3, <2>7 DEF ScopesAgree, ParserKnows
    <3> QED
      BY <3>1, <3>2
  <2>9. KeysOK(c, vs)
    <3>1. KeysOK(Contents, vs)
      BY <1>2, <1>3, <2>5, <2>6, KeysLater
    <3>2. IsContents(a) /\ KeysOK(a, vs)
      BY <2>7, <3>1, ContentsAre, AddKeys
    <3> HIDE DEF a
    <3>3. IsContents(b) /\ KeysOK(b, vs)
      BY <2>2, <2>7, <3>2, AddKeys
    <3>4. KeysOK(removeVariable(b, vs, t), vs)
      <4> HIDE DEF b
      <4> QED
        BY <3>3, RemoveKeys
    <3> QED
      BY <3>4 DEF Computed, a
  <2>10. ASSUME ~lost
         PROVE  /\ c.ok = TRUE /\ Agree(c, vs)
                /\ Key(variables, n) \in DOMAIN c.map
                /\ \A k \in DOMAIN renameMap : k \in DOMAIN c.map
    <3>1. Contents.ok = TRUE /\ IsContents(Contents) /\ Contents.map = renameMap
      BY ContentsAre
    <3>2. LET us == Append(variables, x)
              u == Computed(Contents, us, Len(us), n)
          IN /\ u.ok = TRUE /\ Agree(u, us)
             /\ Key(variables, n) \in DOMAIN u.map
             /\ \A k \in DOMAIN Contents.map : k \in DOMAIN u.map
      <4>1. /\ KeysOK(Contents, variables) /\ Agree(Contents, variables)
            /\ variables \in Seq(Variable) /\ x \in Variable /\ x.name = Temp
            /\ n \in DOMAIN variables /\ variables[n].name \in Names
        BY <1>2, <1>3, <2>2, <2>5, <2>10
      <4> HIDE DEF n
      <4> QED
        BY <3>1, <4>1, RemoveTemporary
    <3> QED
      BY <2>6, <2>7, <3>1, <3>2
  <2> HIDE DEF c
  <2>11. ASSUME ~lost PROVE Entered(c.map, parserScopes, vs, 0)
    <3>1. \A k \in DOMAIN c.map : c.map[k] # 0
      <4>1. vs \in Seq(Variable)
        BY <1>3, <2>5, <2>6
      <4> QED
        BY <2>9, <4>1, KeysAreVariables
    <3>2. ASSUME NEW d \in DOMAIN parserScopes, NEW m \in Names, parserScopes[d][m] # 0
          PROVE  Key(vs, parserScopes[d][m]) \in DOMAIN c.map
      <4>1. parserScopes[d][m] \in DOMAIN variables
        BY <1>3, <3>2 DEF ParserKnows
      <4>2. Key(vs, parserScopes[d][m]) = Key(variables, parserScopes[d][m])
        BY <2>7, <4>1
      <4>3. \/ parserScopes[d][m] = n
            \/ Key(variables, parserScopes[d][m]) \in DOMAIN renameMap
        BY <1>2, <2>11, <3>2 DEF Entered
      <4> QED
        BY <2>10, <2>11, <4>2, <4>3
    <3> QED
      BY <3>1, <3>2 DEF Entered
  <2>12. ParserOK'
    BY <1>1, <2>1, <2>8 DEF ParserOK
  <2> QED
    BY <1>1, <2>1, <2>2, <2>4, <2>8, <2>9, <2>10, <2>11, <2>12, Finished DEF path
<1> QED
  BY <1>1, <1>7, <1>8, <1>9, <1>10

LEMMA StutteringKeeps ==
  ASSUME Inv, UNCHANGED vars
  PROVE  Inv'
<1>1. /\ UNCHANGED <<parserScopes, scopes, currentScope, checkPoint, checkPointValid>>
      /\ UNCHANGED <<variables, store, variableTable, renameMap>>
      /\ UNCHANGED <<task, statement, result, lost>>
  BY DEF vars, marks, stores
<1>2. TreeOK' /\ PathTo' = PathTo /\ PathsExist' /\ PathsOK'
  <2>1. TreeOK /\ PathsExist /\ PathsOK
    BY DEF Inv
  <2>2. TreeOK'
    BY <1>1, <2>1 DEF TreeOK
  <2> QED
    BY <1>1, <2>1, <2>2, PathsStay
<1> HIDE DEF PathTo
<1>3. Base' = Base /\ Pending' = Pending /\ Contents' = Contents
  BY <1>1 DEF Base, Pending, Contents
<1>4. VariablesOK' /\ ParserOK' /\ InScope'
  BY <1>1, <1>2, <1>3 DEF Inv, VariablesOK, ParserOK, InScope, Live
<1>5. StatementOK' /\ StoresOK' /\ FoundOK' /\ CrashesOnlyAfterLoss'
  BY <1>1, <1>3 DEF Inv, StatementOK, StoresOK, FoundOK, CrashesOnlyAfterLoss, Live
<1>6. LookupOK'
  <2>1. \A d : ParsedAt(d)' <=> ParsedAt(d)
    BY <1>1 DEF ParsedAt
  <2> QED
    BY <1>1, <1>2, <2>1 DEF Inv, LookupOK
<1>7. MisresolvedOnlyByCollision'
  BY <1>1, <1>2 DEF Inv, MisresolvedOnlyByCollision
<1> QED
  BY <1>2, <1>4, <1>5, <1>6, <1>7 DEF Inv

LEMMA InvInitially ==
  ASSUME Init
  PROVE  Inv
<1> DEFINE root == [depth |-> 0, index |-> 0, parent |-> 0, nextIndex |-> 0]
           row == [n \in Names |-> 0]
<1>1. /\ scopes = <<root>> /\ parserScopes = <<row>> /\ currentScope = 1 /\ checkPoint = 1
      /\ variables = <<>> /\ store = <<>> /\ variableTable = <<>> /\ renameMap = <<>>
      /\ task = "convert"
  BY DEF Init
<1>2. root \in Scope /\ root.parent = 0 /\ root.depth = 0 /\ row \in Row
      /\ \A n \in Names : row[n] = 0
  BY DEF Scope, Row
<1> HIDE DEF root, row
<1>3. /\ scopes \in Seq(Scope) /\ DOMAIN scopes = {1} /\ scopes[1] = root /\ scopes # <<>>
      /\ parserScopes \in Seq(Row) /\ DOMAIN parserScopes = {1} /\ parserScopes[1] = row
      /\ parserScopes # <<>> /\ Len(parserScopes) = 1
  BY <1>1, <1>2
<1>4. TreeOK
  BY <1>1, <1>2, <1>3 DEF TreeOK
<1>5. PathsExist
  <2>1. \A f : IsPaths(f) <=> f = [s \in {1} |-> <<s>>]
    <3> QED
      BY <1>2, <1>3 DEF IsPaths, IsPathsIn
  <2> QED
    BY <2>1 DEF PathsExist
<1>6. PathTo[1] = <<1>>
  BY <1>2, <1>3, <1>5, PathToUnfolds
<1> HIDE DEF PathTo
<1>7. PathsOK
  <2>1. /\ <<1>> \in Seq({1}) /\ Len(<<1>>) = 1 /\ <<1>>[1] = 1
    OBVIOUS
  <2> QED
    BY <1>2, <1>3, <1>6, <2>1 DEF PathsOK
<1>8. VariablesOK /\ ParserOK
  BY <1>1, <1>2, <1>3 DEF VariablesOK, ParserOK, ParserKnows
<1>9. InScope
  <2>1. Len(<<1>>) = 1
    OBVIOUS
  <2> QED
    BY <1>1, <1>2, <1>3, <1>6, <2>1 DEF InScope, Base, ScopesAgree
<1>10. StoresOK
  <2>1. KeysOK(Contents, variables)
    BY <1>1 DEF KeysOK, Contents
  <2>2. Agree(Contents, variables)
    BY <1>1 DEF Agree, Contents, Range
  <2>3. Entered(renameMap, parserScopes, variables, Pending)
    BY <1>1, <1>2, <1>3 DEF Entered, Pending
  <2> QED
    BY <2>1, <2>2, <2>3 DEF StoresOK
<1>11. /\ StatementOK /\ LookupOK /\ FoundOK /\ CrashesOnlyAfterLoss
       /\ MisresolvedOnlyByCollision
  BY <1>1 DEF StatementOK, LookupOK, FoundOK, CrashesOnlyAfterLoss, Crashes,
              MisresolvedOnlyByCollision
<1> QED
  BY <1>4, <1>5, <1>7, <1>8, <1>9, <1>10, <1>11 DEF Inv

-----------------------------------------------------------------------------
(* The invariant holds, with all its parts: the tree of scopes is a tree,  *)
(* the parser's scopes are the path to the current one, and a lookup is on *)
(* the way from its check point to the root, at or within the scope that   *)
(* the parser found the name in, unless a variable was lost.               *)
THEOREM NamesHold == Spec => []Inv
<1>1. Inv /\ [Next]_vars => Inv'
  <2> SUFFICES ASSUME Inv, [Next]_vars
               PROVE  Inv'
    OBVIOUS
  <2>1. CASE enterScope
    BY <2>1, EnterScopeKeeps
  <2>2. CASE leaveScope
    BY <2>2, LeaveScopeKeeps
  <2>3. CASE \E n \in Names, t \in Types : enterFunction(n, t) \/ declare(n, t)
    BY <2>3, EnterFunctionKeeps, DeclareKeeps
  <2>4. CASE \E m \in Names : assign(m)
    BY <2>4, AssignKeeps
  <2>5. CASE \E n, m \in Names : \E kind \in Initializers : declareFrom(n, m, kind)
    BY <2>5, DeclareFromKeeps
  <2>6. CASE found
    BY <2>6, FoundKeeps
  <2>7. CASE lookFurther
    BY <2>7, LookFurtherKeeps
  <2>8. CASE finish
    BY <2>8, FinishKeeps
  <2>9. CASE UNCHANGED vars
    BY <2>9, StutteringKeeps
  <2> QED
    BY <2>1, <2>2, <2>3, <2>4, <2>5, <2>6, <2>7, <2>8, <2>9 DEF Next
<1> QED
  BY <1>1, InvInitially, PTL DEF Spec

(* Between statements the converters are in the scope in which the parser  *)
(* was, however many functions, blocks and lookups came before.            *)
THEOREM ScopesCorrect == Spec => []SameScopeAsParser
<1>1. Inv => SameScopeAsParser
  <2> SUFFICES ASSUME Inv, task = "convert"
               PROVE  LET path == PathTo[currentScope]
                      IN /\ Len(path) = Len(parserScopes)
                         /\ \A d \in DOMAIN path : \A n \in Names :
                              LET v == parserScopes[d][n]
                              IN v # 0 => variables[v].scope = path[d]
    BY DEF SameScopeAsParser
  <2> DEFINE path == PathTo[currentScope]
  <2>1. /\ ScopesAgree(path, parserScopes, variables) /\ parserScopes \in Seq(Row)
        /\ TreeOK /\ PathsOK
    BY DEF Inv, InScope, Live, Base, ParserOK, ParserKnows
  <2>2. path \in Seq(Nat)
    BY <2>1, PathEnds DEF TreeOK
  <2> HIDE DEF path
  <2>3. Len(path) = Len(parserScopes) /\ DOMAIN path = DOMAIN parserScopes
    BY <2>1, <2>2 DEF ScopesAgree
  <2> QED
    BY <2>1, <2>3 DEF ScopesAgree, path
<1> QED
  BY <1>1, NamesHold, PTL

(* The set, the table and the map of the VariableStore agree between       *)
(* statements, in programs that no variable is lost in.                    *)
THEOREM StoreCorrect == Spec => []StoreAgrees
<1>1. Inv => StoreAgrees
  BY DEF Inv, StoresOK, Live, Agree, Contents, StoreAgrees
<1> QED
  BY <1>1, NamesHold, PTL

(* findAccordingVariable finds every name that the parser resolved, unless *)
(* a variable was lost.                                                    *)
THEOREM CrashesCorrect == Spec => []CrashesOnlyAfterLoss
<1>1. Inv => CrashesOnlyAfterLoss
  BY DEF Inv
<1> QED
  BY <1>1, NamesHold, PTL

(* The converters find the parser's variable, or one of a scope with depth *)
(* and index of a scope on the path.                                       *)
THEOREM CollisionsCorrect == Spec => []MisresolvedOnlyByCollision
<1>1. Inv => MisresolvedOnlyByCollision
  BY DEF Inv
<1> QED
  BY <1>1, NamesHold, PTL
=============================================================================
