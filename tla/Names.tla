------------------------------- MODULE Names --------------------------------
(***************************************************************************)
(* How the names of a program become Variables.  The parser resolves every *)
(* name with its stack of scopes, and throws the result away but for the   *)
(* name; the converters walk over the same program with the VariableStore  *)
(* (a ScopeManager) and resolve it again, by name, depth and index.  Here  *)
(* both run side by side over an arbitrary program that the parser         *)
(* accepts.                                                                *)
(*                                                                         *)
(* A declaration creates one Variable, so the position of that Variable in *)
(* variables stands for the declaration on the side of the parser too.     *)
(***************************************************************************)
EXTENDS Integers, Sequences, SequencesExt, TLC

CONSTANTS Names,
          Initializers,   \* kinds of expressions that initialise a variable
          MaxScopes, MaxVariables, MaxTable   \* bounds: size of the program

NoName == "none"
Temp == "$t"
Types == {"INT", "FLOAT"}
AllInitializers == {"leaf", "computed", "assigned"}

ASSUME NamesAssumption == {NoName, Temp} \cap Names = {}
ASSUME InitializersAssumption == Initializers \subseteq AllInitializers
ASSUME BoundsAssumption == {MaxScopes, MaxVariables, MaxTable} \subseteq Nat

VARIABLES parserScopes,     \* parser_state::scopes, name |-> variable, 0: none
          scopes,           \* the tree of the ScopeManager; 1 is the root
          currentScope, checkPoint, checkPointValid,
          variables,        \* all Variables made so far
          store, variableTable, renameMap,   \* of the VariableStore
          task,             \* "convert", "lookup", "found" or a crash
          statement,        \* what the lookup is for
          result,           \* the Variable that the last lookup found
          lost              \* history: an assigned variable made way for
                            \* a declared one, see finishAssigned

stores == <<store, variableTable, renameMap>>
marks == <<checkPoint, checkPointValid>>
vars == <<parserScopes, scopes, currentScope, marks, variables, stores, task,
          statement, result, lost>>

Crashes == {"undeclared", "undefined"}
NoStatement == [kind |-> "none", name |-> NoName, var |-> 0, parsed |-> 0]

Init ==
  /\ parserScopes = <<[n \in Names |-> 0]>>
  /\ scopes = <<[depth |-> 0, index |-> 0, parent |-> 0, nextIndex |-> 0]>>
  /\ currentScope = 1
  /\ checkPoint = 1 /\ checkPointValid = FALSE
  /\ variables = <<>>
  /\ store = <<>> /\ variableTable = <<>> /\ renameMap = <<>>
  /\ task = "convert"
  /\ statement = NoStatement
  /\ result = 0
  /\ lost = FALSE

-----------------------------------------------------------------------------
(* The parser                                                              *)

(* lookup_variable: the innermost scope that has the name, 0 if none has.  *)
ParserFinds(n) ==
  LET having == {d \in DOMAIN parserScopes : parserScopes[d][n] # 0}
  IN IF having = {} THEN 0
     ELSE parserScopes[CHOOSE d \in having : \A e \in having : e <= d][n]

(* scope::declare throws for a name that the scope has already.            *)
MayDeclare(n) == Last(parserScopes)[n] = 0

DeclaredAs(n, v) == [parserScopes EXCEPT ![Len(parserScopes)][n] = v]

-----------------------------------------------------------------------------
(* Variables and the VariableStore                                         *)

PlaceByDepth(depth, index) == <<depth>>                          \* mutant

(* Variable::getValue, by which variables are compared everywhere: name,   *)
(* for a temporary with its id, and depth and index of the scope.          *)
Place(depth, index) == <<depth, index>>

PlaceOf(s) == Place(scopes[s].depth, scopes[s].index)

Key(vs, v) ==
  <<vs[v].name, IF vs[v].name = Temp THEN v ELSE 0, vs[v].place>>

Contents == [store |-> store, table |-> variableTable, map |-> renameMap,
             ok |-> TRUE]

PutIfAbsent(fn, k, v) ==
  [j \in DOMAIN fn \cup {k} |-> IF j \in DOMAIN fn THEN fn[j] ELSE v]

(* addVariable: the set keeps an equal variable it has, and the table gets *)
(* an iterator to whatever is in the set.                                  *)
addVariable(c, vs, v) ==
  LET k == Key(vs, v)
      set == PutIfAbsent(c.store, k, v)
  IN [c EXCEPT !.store = set,
               !.table = Append(@, set[k]),
               !.map = PutIfAbsent(@, k, set[k])]

Without(fn, k) == [j \in DOMAIN fn \ {k} |-> fn[j]]

(* Mutant: leaves the variable in the set and in the table.                *)
forgetVariable(c, vs, v) == [c EXCEPT !.map = Without(@, Key(vs, v))]

(* removeVariable goes on behind the element that moved to the place of    *)
(* the erased one.  Undefined are incrementing the end iterator, when the  *)
(* last element was erased, and erasing the variable from the set again.   *)
removeVariable(c, vs, v) ==
  LET k == Key(vs, v)
      places == {i \in DOMAIN c.table : c.table[i] = c.map[k]}
  IN IF k \notin DOMAIN c.map THEN c
     ELSE IF places = {} THEN [c EXCEPT !.map = Without(@, k)]
     ELSE LET first == CHOOSE i \in places : \A j \in places : i <= j
          IN [store |-> Without(c.store, k),
              table |-> RemoveAt(c.table, first),
              map |-> Without(c.map, k),
              ok |-> /\ c.ok
                     /\ first # Len(c.table)
                     /\ \A j \in places : j <= first + 1]
-----------------------------------------------------------------------------
(* The scope tree                                                          *)

(* addNewChildScope, and a scope of the parser.                            *)
openScope(declared) ==
  /\ Len(scopes) < MaxScopes
  /\ scopes' = Append([scopes EXCEPT ![currentScope].nextIndex = @ + 1],
                      [depth |-> scopes[currentScope].depth + 1,
                       index |-> scopes[currentScope].nextIndex,
                       parent |-> currentScope, nextIndex |-> 0])
  /\ currentScope' = Len(scopes) + 1
  /\ parserScopes' = Append(parserScopes, declared)

NoneDeclared == [n \in Names |-> 0]

(* A function without parameters, or a block.  Functions are not nested.   *)
enterScope ==
  /\ task = "convert"
  /\ openScope(NoneDeclared)
  /\ UNCHANGED <<marks, variables, stores, task, statement, result, lost>>

Commit(c) ==
  /\ store' = c.store
  /\ variableTable' = c.table
  /\ renameMap' = c.map

(* A function with one parameter; convertDeclStmt and convertFunctionDef   *)
(* each enter it into the store.                                           *)
enterFunction(n, t) ==
  LET v == Len(variables) + 1
      vs == Append(variables,
                   [name |-> n, type |-> t, scope |-> Len(scopes) + 1,
                    place |-> Place(1, scopes[1].nextIndex)])
  IN /\ task = "convert"
     /\ currentScope = 1
     /\ v <= MaxVariables
     /\ openScope([NoneDeclared EXCEPT ![n] = v])
     /\ variables' = vs
     /\ Commit(addVariable(addVariable(Contents, vs, v), vs, v))
     /\ UNCHANGED <<marks, task, statement, result, lost>>

(* The end of a function or a block: goToParentScope.                      *)
leaveScope ==
  /\ task = "convert"
  /\ currentScope # 1
  /\ currentScope' = scopes[currentScope].parent
  /\ parserScopes' = Front(parserScopes)
  /\ UNCHANGED <<scopes, marks, variables, stores, task, statement, result,
                 lost>>

-----------------------------------------------------------------------------
(* Statements.  convertDeclStmt makes the Variable before it converts the  *)
(* initialiser, and enters it into the store after that.                   *)

InFunction == task = "convert" /\ currentScope # 1

NewVariable(n, t) ==
  Append(variables, [name |-> n, type |-> t, scope |-> currentScope,
                     place |-> PlaceOf(currentScope)])

(* int n;                                                                  *)
declare(n, t) ==
  LET v == Len(variables) + 1
      vs == NewVariable(n, t)
  IN /\ InFunction
     /\ v <= MaxVariables
     /\ MayDeclare(n)
     /\ variables' = vs
     /\ Commit(addVariable(Contents, vs, v))
     /\ parserScopes' = DeclaredAs(n, v)
     /\ UNCHANGED <<scopes, currentScope, marks, task, statement, result, lost>>

(* m = 1; or int n = m; int n = m + 1; int n = (m = 1); up to the call of  *)
(* findAccordingVariable(m), which begins with setCheckPoint.              *)
startLookup(m, s) ==
  /\ InFunction
  /\ ParserFinds(m) # 0
  /\ statement' = s
  /\ checkPoint' = currentScope
  /\ checkPointValid' = TRUE
  /\ task' = "lookup"
  /\ UNCHANGED <<scopes, currentScope, stores, result, lost>>

assign(m) ==
  /\ Len(variableTable) < MaxTable
  /\ startLookup(m, [kind |-> "assign", name |-> m, var |-> 0,
                     parsed |-> ParserFinds(m)])
  /\ UNCHANGED <<parserScopes, variables>>

declareFrom(n, m, kind) ==
  LET v == Len(variables) + 1
  IN /\ v < MaxVariables
     /\ MayDeclare(n)
     /\ startLookup(m, [kind |-> kind, name |-> m, var |-> v,
                        parsed |-> ParserFinds(m)])
     /\ variables' = NewVariable(n, variables[ParserFinds(m)].type)
     /\ parserScopes' = DeclaredAs(n, v)

(* findAccordingVariable: one scope after the other, up to the root.       *)
KeyHere == <<statement.name, 0, PlaceOf(currentScope)>>

stayWhereFound == UNCHANGED <<currentScope, marks>>                 \* mutant

goToCheckPoint ==
  /\ currentScope' = IF checkPointValid THEN checkPoint ELSE currentScope
  /\ checkPointValid' = FALSE
  /\ UNCHANGED checkPoint

found ==
  /\ task = "lookup"
  /\ KeyHere \in DOMAIN renameMap
  /\ result' = renameMap[KeyHere]
  /\ goToCheckPoint
  /\ task' = "found"
  /\ UNCHANGED <<parserScopes, scopes, variables, stores, statement, lost>>

HasParentBelowTop(s) == scopes[s].depth > 2         \* mutant: off by one

HasParent(s) == scopes[s].parent # 0

lookFurther ==
  /\ task = "lookup"
  /\ KeyHere \notin DOMAIN renameMap
  /\ IF HasParent(currentScope)
     THEN /\ currentScope' = scopes[currentScope].parent
          /\ UNCHANGED task
     ELSE /\ task' = "undeclared"        \* assert(false)
          /\ UNCHANGED currentScope
  /\ UNCHANGED <<parserScopes, scopes, marks, variables, stores, statement,
                 result, lost>>

(* What follows the lookup.                                                *)
finishAssign ==
  /\ statement.kind = "assign"
  /\ Commit(addVariable(Contents, variables, result))
  /\ task' = "convert"
  /\ UNCHANGED variables

finishLeaf ==
  /\ statement.kind = "leaf"
  /\ Commit(addVariable(Contents, variables, statement.var))
  /\ task' = "convert"
  /\ UNCHANGED variables

(* The temporary of m + 1 makes way for n, the new target of the line.     *)
finishComputed ==
  LET t == Len(variables) + 1
      vs == NewVariable(Temp, variables[result].type)
      c == removeVariable(addVariable(addVariable(Contents, vs, t),
                                      vs, statement.var), vs, t)
  IN /\ statement.kind = "computed"
     /\ variables' = vs
     /\ Commit(c)
     /\ task' = IF c.ok THEN "convert" ELSE "undefined"

(* The target of m = 1 is m itself, which now makes way for n.             *)
finishAssigned ==
  LET c == removeVariable(addVariable(addVariable(Contents, variables, result),
                                      variables, statement.var),
                          variables, result)
  IN /\ statement.kind = "assigned"
     /\ Commit(c)
     /\ task' = IF c.ok THEN "convert" ELSE "undefined"
     /\ UNCHANGED variables

finish ==
  /\ task = "found"
  /\ finishAssign \/ finishLeaf \/ finishComputed \/ finishAssigned
  /\ statement' = NoStatement
  /\ lost' = (lost \/ statement.kind = "assigned")
  /\ UNCHANGED <<parserScopes, scopes, currentScope, marks, result>>

Next == \/ enterScope
        \/ leaveScope
        \/ \E n \in Names, t \in Types : enterFunction(n, t) \/ declare(n, t)
        \/ \E m \in Names : assign(m)
        \/ \E n, m \in Names : \E kind \in Initializers : declareFrom(n, m, kind)
        \/ found
        \/ lookFurther
        \/ finish

Spec == Init /\ [][Next]_vars
-----------------------------------------------------------------------------
(* The scopes from the root to s.                                          *)
PathTo[s \in DOMAIN scopes] ==
  IF scopes[s].parent = 0 THEN <<s>>
  ELSE Append(PathTo[scopes[s].parent], s)

(* Between statements the converters are in the scope in which the parser  *)
(* was: every variable visible to the parser belongs to the scope at the   *)
(* same position on the way from the root.  Lookups climb that tree and    *)
(* have to lead back.                                                      *)
SameScopeAsParser ==
  task = "convert" =>
    LET path == PathTo[currentScope]
    IN /\ Len(path) = Len(parserScopes)
       /\ \A d \in DOMAIN path : \A n \in Names :
            LET v == parserScopes[d][n]
            IN v # 0 => variables[v].scope = path[d]

(* The set of variables, its table and the map for renaming hold the same  *)
(* variables between statements, however many temporaries came and went.   *)
StoreAgrees ==
  task = "convert" /\ ~lost =>
    /\ store = renameMap
    /\ Range(variableTable) = Range(store)

(* A name that the parser resolved is found by the converters, unless an   *)
(* initialiser by assignment has come before: the assertion "Usage of undeclared variable" *)
(* of findAccordingVariable does not fail, and no iterator is used after   *)
(* it became invalid.                                                      *)
CrashesOnlyAfterLoss == task \in Crashes => lost

(* As long as nothing is lost, the only way to another variable than the   *)
(* parser found is a scope off the path to the current one that has depth  *)
(* and index of one on it.                                                 *)
MisresolvedOnlyByCollision ==
  task = "found" /\ ~lost /\ result # statement.parsed =>
    LET path == Range(PathTo[currentScope])
        home == variables[result].scope
    IN home \notin path /\ \E s \in path : /\ scopes[s].depth = scopes[home].depth
                                          /\ scopes[s].index = scopes[home].index

(* Operands of a type-correct program have the types the parser gave them; *)
(* if not, the assertion "Type mismatch" of Triple fails.                  *)
TypesAgree ==
  task = "found" => variables[result].type = variables[statement.parsed].type
=============================================================================
