# A verification project for the mC compiler

The repository is a compiler for the language mC (a small C): `libmc` parses the
source into an AST, `mcc` translates it to three-address code (TAC), optimises the
code locally, analyses live variables on a control flow graph, allocates registers
by graph colouring and writes 32-bit x86 assembly. This directory holds TLA+
modules that model parts of it, configurations that check them with TLC, and
proofs that TLAPS checks. All of the compiler runs on one thread; what is hard in
it is not concurrency but order: passes that share mutable state and rely on what
earlier passes left there, algorithms that iterate to a fixpoint, and invariants
between code, graph, live sets and registers that no single function establishes.

## 1. The system

### 1.1 How the parts work together

`mcc/src/main.cpp` runs, for one source file,

1. `parser::parse` (libmc): text to AST, with a stack of scopes of its own;
2. `Tac::Tac`, which walks the AST with the converters of `ast_converters.cpp`.
   They append lines to `Tac::codeLines`, open basic blocks (`nextBasicBlock`),
   and enter variables into the `VariableStore`, which is also the scope tree
   (`ScopeManager`);
3. `LVN::transform`, which rewrites lines of the code in place, inserts new ones
   and has the block index rebuilt;
4. `cfg::Cfg`, built from the code, and on the same object `computeLiveInOut`
   *and* `computeWorkList`;
5. `gas::Gas`, whose `RegisterManager` builds a second `Cfg`, runs
   `computeWorkList` on it, asks `liveSetAt` for every definition, colours the
   interference graphs and lays out the stack; then the TAC converters emit
   assembly, asking the `RegisterManager` where each variable is;
6. `Scg`, the static call graph, for output only.

### 1.2 Components

| component (source) | state | operations | what makes it correct | status |
|---|---|---|---|---|
| Parser, AST (`libmc/src`) | position, scope stack, type and function tables | one function per grammar rule | names resolve to the innermost declaration | scopes: `Names`; grammar left out |
| ScopeManager, Scope (`tac/src/scope*.cpp`) | tree of scopes, current scope, checkpoint, next child index per scope | addNewChildScope, addNewSiblingScope, goToParentScope, setCheckPoint, goToCheckPoint | leaving a scope leads back to where it was entered; different scopes are told apart | `Names` |
| VariableStore, Variable (`variable_store.cpp`, `variable.cpp`) | set of variables, table in order of insertion, rename map | addVariable, removeVariable, renameVariable, findAccordingVariable | a name resolves to the variable the parser meant; the three containers agree | `Names` |
| AST converters (`ast_converters.cpp`) | the Tac they write to | one per AST node | the shape of the code (`TacCode!WellFormed`); every line reads what the source says | scopes and variables: `Names`; lines and blocks: `Conversion` |
| Tac (`tac.cpp`) | code lines, current block and its used flag, block index, function, prototype and return maps | addLine, nextBasicBlock, createBasicBlockIndex, getFunctionRangeMap, addReturn | block ids count up without gaps and change where blocks change | `Conversion`, `CfgBuild`; insertion at a position: `LVN` |
| BasicBlock (`basic_block.cpp`) | lines, defVar, ueVar | push_back | ueVar are the variables read before written in the block | `CfgBuild` |
| LVN (`lvn.cpp`) | value table, temporaries to insert | transform, updateTac | the code computes the same values; blocks stay as they are | `LVN` |
| Cfg (`cfg.cpp`) | graph, notKilled, liveIn, liveOut | constructor, computeLiveInOut, computeWorkList, liveSetAt, liveSetAfter, live ranges, dominators | the graph is the control flow; the sets are the live variables | `CfgBuild`, `LiveSets`, `CfgLiveness`, `LiveQueries`, `LiveRanges`, `Dominators`; ranges of arrays left out |
| Scg (`static_call_graph.cpp`) | graph | constructor | an edge for each call that can happen | `Gas` |
| RegisterManager (`register_manager.cpp`) | interference graphs, colours, stack offsets, register toggle | generateInterferenceGraphs, graphColoring, analyzeStackUsages, lookups, getTmpRegister | variables needed at the same time have different locations; nothing is asked for that is still in use | allocation: `RegisterManager`; stack: `StackLayout`; toggle: `GasConversion` |
| Gas, TAC converters (`gas.cpp`, `tac_*converters.cpp`) | instruction list, constants, current function, declared arrays, last operator, whether a result is pending | one converter per operator, prepareCall, cleanUpCall, array declaration and clean-up | the code computes what the TAC says; calls and returns preserve registers and stack | `GasConversion`, run by `Gas` |
| Operand, Mnemonic, instruction set | none | formatting | the processor can execute what is emitted | kinds and effect: `X86`; formatting left out |
| main, scripts | none | I/O | - | order of calls only |

### 1.3 What is hard here

The list with source lines is in `PROJECT.json` ("hazards"). In short:

* *two algorithms on one state*: `computeLiveInOut` and `computeWorkList` fill the
  same maps and are called in sequence, and `liveSetAt` repeats the second before
  every query unless told not to;
* *end conditions*: the round-robin algorithm watches LIVEOUT only; the worklist
  has to bring back every block whose equations may have broken;
* *positions as identities*: `Cfg` uses block ids as indexes, and takes id + 1 as
  the successor of a conditional jump;
* *order within a line*: definitions are handled before uses of the same line;
* *what the analysis cannot see*: index variables of array accesses, results of
  calls that never enter the variable store;
* *capped colours*: all colours beyond the registers become one;
* *unspecified orders*: `std::sort` on equal degrees, maps keyed by pointers;
* *identity by name, depth and index*: two scopes of different parents can be
  the same scope to the `VariableStore`;
* *positions in a list that is being changed*: LVN; and `prepareCall`, which puts
  the saves of a call a number of instructions back in what has been emitted,
  one for each word of arguments;
* *state between converters*: the parity of requests decides whether EAX or EBX
  is handed out next; the comparison that a jump tests and whether a result is
  still to be stored are global variables that an earlier line has set;
* *arrays on a moving stack*: they are allocated while lines are converted and
  freed at a return or the end of their scope, in text order, whatever way the
  execution takes; element 0 lies in the word above the array;
* *keys without an order*: `labelArrayPairLess` is no strict weak ordering, so an
  array may not be found where it has been entered.

## 2. Modules

```
LiveSets  <---  Liveness            (abstract specification)
   ^  ^------   CfgLiveness  <---  CfgLivenessProofs
   |                 ^
   |                 |  L!
   '-- CfgBuild <----+----------  RegisterAllocation  <---  MCRegisterAllocation,
    D!/  |      B!               /  |  R!                   RegisterAllocationProofs
     v   v                      v   v
Dominators  TacCode <- LiveQueries <- LiveRanges
                           ^----- RegisterManager <---  RegisterManagerProofs

CfgBuild  <---  MCCfgBuild, CfgBuildProofs
CfgBuildProofs, CfgLivenessProofs, RegisterManagerProofs  <---  RegisterAllocationProofs

Names  <---  MCNames, NamesProofs
TacCode  <---  Conversion  <---  MCConversion, ConversionProofs
LVN    <---  MCLVN, LVNProofs

StackLayout
   ^    X86                                         (the machine)
   |     ^
   GasConversion  <---  Gas  <---  TacMeaning  <---  MCGas
                   (composition)   (reference)
                          ^------  GasProofs
```

* `LiveSets`: a flow graph as a record (size, succ, ueVar, notKilled), the two
  equations of live variable analysis, what a solution and the least solution is,
  and a second definition of liveness by paths. No state.
* `Liveness`: what a client of `Cfg` may rely on. A graph, whether a call is
  running, and an answer that is, when it is there, the least solution.
* `CfgLiveness`: `computeLiveInOut` and `computeWorkList`. The maps `liveIn` and
  `liveOut` of the object, and the locals of the running function. One step is
  one block, as in the loops of the code. Either function may be called whenever
  none runs, any number of times. `Promise == INSTANCE Liveness` is the
  refinement mapping.
* `TacCode`: a line of code as a record, what it reads, writes and how it ends a
  block; the shape of the code that the converters leave (`WellFormed`); and the
  meaning of code as executions of lines, from which `NeededFrom` says when a
  variable is needed - the reference for everything the analysis answers.
* `CfgBuild`: `createBasicBlockIndex` with `BasicBlock::push_back`, and the
  constructor of `Cfg`, one line of code per step.
* `LiveQueries`: `liveSetAt` and `liveSetAfter` as functions over the lines of a
  block.
* `RegisterManager`: `generateInterferenceGraphs` (one line per step) and
  `graphColoring` (one vertex per step, in every order in which `std::sort` may
  leave vertices of equal degree; functions share nothing here, so the order in
  which they are visited is left open as well). `vertexMap.at` throwing is the
  end state "aborted".
* `RegisterAllocation`: the constructor of `RegisterManager` as the composition
  of `CfgBuild`, `CfgLiveness` and `RegisterManager`, one after the other on
  shared state.
* `Names`: the scope stack of the parser beside `ScopeManager` and
  `VariableStore` as the converters drive them, over every program of a few
  declarations, assignments and nested blocks that the parser accepts. A lookup
  takes one step per scope. The parser finishes before the converters begin; since
  neither reads the other's state, statement by statement is the same.
  `removeVariable` erases in a loop over the container; where that is undefined
  the model stops in the state "undefined".
* `Conversion`: `Tac`'s lines, current block and function maps under the
  converters. The syntax tree is revealed node by node: a step is what a converter
  does before, between or after the parts of its node (`startIf`, `startElse`,
  `endElse`), and `open` is the stack of nodes it is in, the call stack of the
  converters. Declarations, assignments, operators and parameters add lines
  without control (`plainLine`). A failed assertion is the end state "aborted".
* `LVN`: `LVN::transform` over any code, one line per step, with its three maps,
  the copies it inserts through `Tac::addLine` and the block index that
  `createBasicBlockIndex` rebuilds under the running loop. A triple is shared by
  code and blocks, so lines have identities and `line` their contents. The copies
  are inserted in any order (the map of temporaries is ordered by addresses). `Run`
  says what a code computes; a jump goes to the next label; `Equivalent` compares the
  code before and after. ADD stands for the four operators that enter the table, LT for
  those that do not. Expressions are compared by operands and operator, as their
  text is for names and INT literals.
* `Dominators`: `getIdom` and `getDomSet` on a flow graph, as operators. `boost`'s
  dominator tree is taken to be right; what the code adds is the walk up the tree
  and what a read of the map does at the root and at blocks out of reach.
* `LiveRanges`: `getVariableLiveRangeMap` over the answers of `liveSetAt`.
* `StackLayout`: `RegisterManager::analyzeStackUsages`, one step per line of code and
  per entry of the array declarations for it; the offsets, the space a function
  reserves, its parameters. An array that `map::find` misses although it is there
  is an action of its own (`placeArrayAgain`), taken or not.
* `GasConversion`: `Gas` and the TAC converters as operators on a record `g`, the state
  of the generator with its globals (`lastOperator`, `resultAvailable`) and the
  register toggle: what each converter appends to the assembly, where
  `prepareCall` puts the saves, what is allocated and freed for arrays. An
  assertion that fails sets `failed`.
* `X86`: the machine as far as the compiler uses it: registers, words of a stack,
  the last comparison, the floating point stack; which instructions are legal in
  a state, and what they do.
* `Gas`: layout, conversion line by line, and then the emitted code, instruction by
  instruction, from a call of `main` to its return. Two history variables: `saved`
  tells of each word of the stack which register was last saved there, `active`
  which functions are being executed. `StaticCallGraph` is `Scg`. What `Gas` is given
  is `IsConverted`: lines with the operands the AST converters give them, a return at
  the end of each function, jumps within a function, and a call behind lines that
  compute and push its arguments. A branch names a line before it, comparison or
  not. The condition is cast to `Triple` unchecked (`tac_converters.cpp:199`); when it
  is none (`if (x)`), that is undefined behaviour, and `Miscast` stands for every type
  that may be read there.
* `TacMeaning`: what the lines of code compute, with neither registers nor a stack:
  the reference for the assembly (`ResultsRight`).
* `SamplePrograms`, `MC*`: instances for TLC.
* `*Proofs`: theorems and proofs (section 4).

Operators marked as mutants stand right before the definition they are a broken
variant of. Each property of a passing run is violated when the definition is
replaced by the mutant named in `PROJECT.json`: that shows what kind of mistake
in the code the property would find.

## 3. Runs

| run | question | bounds, and why they are enough |
|---|---|---|
| `liveness` | do both algorithms, in any sequence of calls, find the exact live sets, return and keep a result? | all flow graphs of three blocks that the constructor can build (no edge, one edge anywhere, next block and one anywhere), all ueVar and notKilled over one variable. The equations treat each variable separately, so one variable shows all of the sets; three blocks give self-loops, nested loops, blocks that are unreachable and blocks revisited by the worklist. |
| `cfg_build` | are the edges exactly those that control can take, are the blocks' sets those of their lines, and the dominators those of the paths? | all code of up to five lines, over all kinds of lines and all jump targets. Edges depend on at most two adjacent lines and a label. |
| `allocation` | does a write to a register ever destroy a variable that is still needed? are live ranges those of the executions? | some 8700 programs in four control structures (straight, if/else, while, two functions with a call), all statements over three variables, initialised or not, two registers. |
| `colouring` | is the colouring proper in all orders, do capped colours stay out of registers, and is spilling justified? | three integers and a FLOAT with one register, so that two colours are capped. |
| `conversion` | do the converters leave the code as `CfgBuild` expects it, with calls, entries and returns matched? | all programs of two functions, with and without prototypes, up to eight lines and six labels, one value to return. That is enough for a nesting of two, for empty branches, and for code behind a return; which function is which does not matter (symmetry). |
| `lvn` | is the rebuilding of the blocks under the loop harmless (each line visited once, blocks kept), is a single copy put in its place, and the meaning kept where no operand is assigned? | all code of five lines: sums of a variable and a literal, of two literals and of a variable with itself, a comparison, assignments, labels and jumps forward, every block structure they make, all start values from 0 to 2. Three lines give one replacement; five give one in each of two blocks, and two replacements in one. |
| `names` | do the converters resolve names as the parser did, and do lookups lead back to the scope they began in? | two names, three variables (temporaries included), five scopes: two functions with a block each, the smallest program in which two scopes collide across functions. |
| `gas` | does the emitted code return what the three-address code means, with every register, frame and return address restored from where it was saved? are frames free of overlaps, and calls edges of the call graph? | 152 programs as the converters and LVN leave them: each arithmetic operator with variables and literals, each comparison and outcome for INT and FLOAT, a copy between comparison and branch, conditions that are no comparison, BOOLs that are stored, a loop, calls with two arguments, a recursion three deep, arrays of fixed and variable length in one function and in nested blocks, and code that cannot be translated; each in seven placements of its variables in the four registers and on the stack, 1,064 executions. Which register a value is in matters only for the four that the code treats differently (caller-saved, callee-saved, EDX, stack); a word of each kind lies next to one of another. |

`CHECK_DEADLOCK FALSE` is set where the modelled function returns or a
bound on the program ends it (all but `liveness`).

In `gas`, each execution of supported code ends in `halted` with the right
result. What is not supported ends in a fault, in a failed assertion or with another
result; see the assumptions below.

`names` found that `convertDeclStmt` (`ast_converters.cpp:206`) removes the target
of the initialising line from the store, as if it were always a temporary: after
`int x = (y = 1);` every use of `y` fails the assertion "Usage of undeclared
variable" (`variable_store.cpp:112`). The history variable `lost` marks the end of
such an initialiser, and `CrashesOnlyAfterLoss` says that no other program gets there;
`StoreAgrees` and `MisresolvedOnlyByCollision` speak of programs without it.

Four runs show that the code does what a comment or a test of the repository
rules out:

* `unseen_operands`: for `x = x`, `liveSetAt` inserts the operands of the line and
  then erases its target; and `SubExpression::getVariables` does not look into an
  `ArrayAccess`, so a variable used as an index is not live where it is read. The
  comment in `cfg.h:58` promises the "live set including the given line".
  `allocation` has no such statements (`Visible`).
* `same_depth`: scopes number their children from 0 each, so blocks of different
  parents at one depth have the same identity, and the inner `x` of one is found
  for a name in the other; the types may differ ("Type mismatch",
  `triple.cpp:77`). `MisresolvedOnlyByCollision` says that this is the only way
  to a wrong variable.
* `lvn_stale`: the keys of the value table are names, and no entry goes when an
  operand is assigned. In `x = x + 1; x = x + 1;` the second sum becomes a copy of
  the first; the test `RedundantExpression` (`lvn_tests.cpp:58`) is about
  expressions that are redundant. `MeaningKept` says that nothing else goes wrong
  as long as copies are in their places.
* `gas_saves`: the saves around a call are inserted one instruction back for each word
  of arguments, but in `f(x + y, y)` the sum is computed between the pushes: they
  land behind the first argument, and the function takes its parameters from the
  wrong words. Element 0 of an array is the word above it, a saved register. And a
  return from a block inside the array's does not free the array, so that the
  epilogue restores registers out of it. A BOOL has size 0 (`register_manager.cpp:42`,
  "Is not stored in assembly"), but NOT stores one (`tac_converters.cpp:264`): that of
  `!(x < 0)`, if it comes last in the frame, lies where the prologue has saved EBX.
  Each of the four programs alone violates `SavesIntact` ("Store callee saved
  registers", "Restore registers", `tac_converters.cpp:365` and `:342`).
  `RestoresMatchSaves`, a property of `gas`, says that in its samples nothing but the
  constructs named in `Supported` does.

Two more facts about the code are stated as assumptions of properties, not as
runs of their own:

* The result of a call is no variable of the store and so in no notKilled set;
  LIVEIN drops it when it is live across a block. In `f() + (f() + f())` the first
  result disappears (`Visible`).
* Where LVN puts a copy is computed from the number of the line in the source and
  from the insertions of the same block; insertions of earlier blocks are
  forgotten, and those of one block come in the order of addresses. A second copy
  may land before its definition. `SingleCopyInPlace` says that the first is always
  in its place, in any block.

### Fairness

`CfgLiveness!Spec` assumes weak fairness of the steps of a started function: it
runs on one thread, waits for nothing, and so keeps going. No fairness is assumed
for calls. `RegisterAllocation!Spec` assumes weak fairness of `Next`: a
constructor runs to its end. The other modules state no liveness.

### Assumptions on the inputs

The programs of `cfg_build` and `allocation` satisfy `TacCode!WellFormed`, the
shape in which the converters leave the code: `DeliversWellFormed`, a property of
`Conversion` and a theorem about it, says so (a program is a list of functions;
tests that parse a bare block are not covered). LVN inserts copies afterwards: `RebuildHarmless` says that
block ids still count up and that the lines of the source keep their order and
blocks, but a second copy may stand where its variable has no value yet.

`QueriesExact`, `NoClobber` and `LiveRangesExact` speak of programs that are
`Visible`: no variable as an array index, no line that reads what it writes, every
variable in the store, and no operand that the line neither reads nor writes. The
last is about `int x = (y = 1)`: the line that assigns 1 gets `x` for its target in
place of `y`, which stays its first operand.
`ExposedExact` speaks of blocks of such lines (`PlainLine`).

`DominatorsExact` speaks of blocks that can be reached from block 0, in graphs where
each of them has a predecessor with a smaller id (`NumberedDownwards`, the order in
which converters number the blocks of branches and loops). The walk in
`getDomSet` ends where ids stop falling: in ENTRY; JUMP L3; L1:; L2:; L3: JUMP L1
the block of L1 is dominated by that of L3 behind it, and the walk ends early.
Blocks of all functions but the first are out of reach and get themselves and
block 0.

`ResultsRight` and `RestoresMatchSaves` speak of code that is `Supported`:

* `ArgumentsInARow`: the arguments of a call are pushed one behind the other, one
  instruction and one word each (see `gas_saves`). A BOOL has size 0, so it is not
  counted where it is pushed.
* `DivisionsFit`: IDIV takes its dividend from EAX, but the converter loads whichever
  temporary register comes next, EAX or EBX by the parity of earlier requests;
  the result overwrites EDX, which may hold a variable; and a literal divisor is
  emitted as an immediate operand, which IDIV does not have.
* `ComparisonsFit`: a literal on the left of a comparison is emitted as the left
  operand of CMP, which must not be immediate.
* `ConditionsAreComparisons`: a jump goes by the flags and by `lastOperator`, whatever
  its condition is. `!(a < b)` and a call as a condition fail an assertion;
  `if (x + 1)` jumps by the flags of the sum and the latest comparison anywhere in
  the program, or aborts where there has been none; `if (x)` is undefined. Between
  comparison and jump only copies may stand, the lines that LVN puts there, since MOV
  leaves the flags alone; the samples have them.
* `OutcomesUnread`: a comparison stores nothing, so `int u = x < 0;` leaves `u`
  unwritten, and NOT inverts whatever its word holds.
* `BoolsInRegisters`: a BOOL has size 0, but NOT, and a CALL with such a result, store
  a word. On the stack it shares that word with the next owner of the frame, or with
  the saved EBX if nothing follows (`SlotsDisjoint` and `SlotsReserved` say that this
  is all). The grammar has no function that returns a BOOL, so the samples store
  them by NOT.
* `ArraysFit`: arrays are told apart by name and length, so there are no two alike;
  lengths and positions are fixed and within the array, and element 0 is not used;
  one return frees the array, or the end of its scope, whose last line does not
  use it (it is freed before that line).

`ConditionsAreComparisons`, `OutcomesUnread` and `BoolsInRegisters` are each needed:
when one of them is left out of `Supported`, a sample of `gas` contradicts
`ResultsRight` or `RestoresMatchSaves`.

## 4. Proofs

TLC checks small instances. The theorems hold for every value of the constants: code
and graphs of any size, any number of variables, labels, scopes and registers.

`CfgBuildProofs`, for well formed code of any length. The two loops pass over the
code, so the invariant `Inv` says of the lines passed so far what the theorems say of
all of them: there are as many blocks as the last line pushed has reached
(`BlocksCounted`), their sets are those of their lines (`SetsCollected`), every edge
is due to a line connected so far and every such line has its edges
(`EdgesCollected`), and notKilled is the store without what the block defines
(`KillsKnown`). It is inductive because block ids count up without gaps, which is
the part of `WellFormed` that makes an id an index.

* `DescriptorsCorrect` (ids are indexes, all targets of edges are blocks) discharges
  `GraphsAssumption`, on which the analysis rests;
* `SoundEdges` and `CompleteEdges`: an edge for each step that control can take from
  one block to another, and no other;
* `ExposedCorrect`: ueVar are the variables read before written, for blocks of
  `PlainLine`s;
* `DominatorsCorrect`: the walk up the tree collects the dominators. What can be
  reached in rounds is the least set closed under edges, since the rounds settle
  within as many as there are blocks; the dominators of a block lie in a row, the
  nearest of which is `getIdom`; and numbers fall from each block to its immediate
  dominator, so that the walk does not end before the root.

`CfgLivenessProofs`, for every set of variables and flow graphs of any size:

* the invariant `IInv` joins type correctness, `Lagging` (the equations can only
  add to the current sets), `SolvedOffWorklist`, `SolvedByQuietRound`,
  `SolvedWhenReturned` and `BelowEverySolution`. `Lagging` is what makes it
  inductive: that a set only grows when its equation is applied is used for each
  of the others, and not one of them is preserved without it - a block that has
  been passed in a round stays solved because nothing shrinks, and a call on sets
  that are already a solution changes nothing because they are below their own
  equations and below every solution.
* from it: `WorklistCorrect`, `QuietRoundCorrect`, `ReturnedCorrect`,
  `NothingSpurious`, and the action properties `GrowthCorrect` and
  `StabilityCorrect`;
* `Refinement`: `Safety => Promise!Safety`, every step is a step of the abstract
  specification or stutters. `ReturnedCorrect` and `NothingSpurious` together say
  that the answer is the least solution.
* `ExactCorrect`: the answer is liveness by paths. That the variables live by paths
  are a solution needs paths to be put together, and that they are below every
  solution needs a walk along a path; since the definition speaks of paths no longer
  than the graph, a longer one has to be cut where it visits a block twice.

`RegisterManagerProofs`, for code of any length, any live sets, any number of
registers: type correctness, `ColoringCorrect`, `RegistersCorrect` and
`SpillingJustified` (a variable left on the stack has at least as many neighbours
as there are registers). The invariant adds that nothing is coloured before the
graphs are complete - otherwise a later edge could join two variables that already
have the same colour -, that edges join vertices only, that a colour is at most
the degree of its vertex (`SmallestFreeBound`: below the smallest free colour each
colour is held by a neighbour of its own, an injection into the neighbours), and
that the stored colours are the capped ones. Exactness of the live sets is not
needed for it. `GraphsComplete` is the other half: what is live at a line with a target is
next to that target in the finished graph. `AbortsOnlyUnstored` says when
`getVertices(it).at(*in)` throws: the variable is live behind a line that has a target,
and no line of the function from its entry to this one stores anything in it.

`RegisterAllocationProofs`, the constructor as a whole, from well formed code to
registers. The theorems about the parts are instantiated, not repeated:

* every behaviour is one of `CfgBuild` until the graph is there, one of `CfgLiveness`
  on that graph until the sets are there, and one of `RegisterManager` on those sets.
  `OrderKept` says so: the parts work one after the other, none touches the state
  of a part that is done, and the invariant of each holds while it works;
* `QueriesCorrect`: `liveSetAt` and `liveSetAfter` answer what the executions of the
  code need. `liveSetAt` is unfolded line by line from the end of its block;
  `NeededFrom`, which is computed in rounds, is the least set closed under going back
  along executions, since it must settle within as many rounds as there are lines.
  What the executions need is a solution of the equations of the blocks
  (`NeededSolves`), so the least solution has no more; and a need is passed back
  along the lines and edges to any solution (`NeededIsLive`), so it has no less. Both
  directions use that the graph is that of the code, by `SoundEdges`,
  `CompleteEdges` and `ExposedCorrect`;
* `NoClobberCorrect`, from this, `GraphsComplete` and `RegistersCorrect`: the property
  for which the pass exists;
* `LiveRangesCorrect`: the ranges span exactly the lines where the variable is needed;
* `AbortsExplained`: if the constructor throws, some variable is needed at the line at
  hand by an execution of the code and written nowhere above it in its function;
* `AbortsCorrect`: then a variable of the function may be read before anything was
  stored in it (`AbortsOnlyUninitialised`), for code every writing line of which is
  reached downward from an entry (`WritesReached`). Without that it is false: in
  `return 1; a = b;` nothing is needed at the entry, but `b` is where `a` is written, and
  the constructor throws. The proof walks up from that line: the lines of the
  function at which the variable is needed would, without an entry among them, be a set
  that nothing leads into from above. `ReachedWhenEntered` gives the hypothesis
  for code in which every line but the entries is entered from a line above it. TLC
  evaluates this of all samples (`SamplesAssumption` of `MCRegisterAllocation`), and
  `ConversionProofs` says of the converters how far it goes.

`ConversionProofs`, for programs of any size and nesting: type correctness,
`NumberingCorrect` and `CallsCorrect`. What makes the numbering inductive is the
state of `Tac` between two lines (`CountingIn`, a part of `BlocksNumbered`): if the
current block is used it is the block of the last line, and that line ends a block
only outside of functions; if not, it is the next block and the last line has ended
one. Three lemmas say what a line within a block, one that ends a block and a label
do to it; every converter is a composition of these. For the calls the invariant
adds that labels are numbered in the order they are made, so that a new one is on
no line yet.

For the shape of the code, what the lines so far have and what the open nodes still
owe them (`ShapeInv`): a jump whose label is not in the code yet goes to
the exit of an open node of the same function, and the label to which a loop jumps
back is in the code since its node was opened. When no node is open nothing is owed:

* `DeliversCorrect`: the code of every finished conversion is `WellFormed`. This is
  the hypothesis of `CfgBuildProofs` and `RegisterAllocationProofs`, so that these
  speak of what the converters produce;
* `ReturnsCorrect` and `BookingCorrect`: functions return, with their own type, and
  the return map holds their returns;
* `DeadCodeBehindReturns`: in delivered code every line that is neither an entry nor
  directly behind a return is entered from a line above it, so that the hypothesis of
  `AbortsCorrect` fails only where statements follow a return in their block. A jump away
  is followed by a label in the same step, and what the open nodes owe helps again: an exit
  that is owed has been named by a jump already (`EnteredInv`).

`NamesProofs`, for any number of scopes, names, types and statements. The
invariant says of the tree that a parent is older than its children, with which
`PathTo` exists (the recursion is unfolded as the tree grows, scope by scope), that
the scopes from the root to the one where a statement is converted hold just the
variables that the parser knows in its scopes, one by one, that a running lookup is
still on that path, and that set, table and rename map agree unless `lost`. From it: `ScopesCorrect`, `StoreCorrect`,
`CrashesCorrect` and `CollisionsCorrect`.

`LVNProofs`, for code of any length and however many copies are inserted:
`RebuildCorrect`, `SingleCopyCorrect` and `MeaningKeptCorrect`. First `BlocksOfSplits`: wherever ids count
up without gaps, `createBasicBlockIndex` makes one block of each id, of the lines
that have it, in their order. The invariant says that insertions stay in front: a
copy goes somewhere before the end of the block that was visited, into the wrong
place perhaps, but never behind that end (`InsertionPlace`), so that

* the lines behind it stand as they were, only further back (`Untouched`), and what
  the rebuilt vector holds in the next place is the next block of the source;
* a copy takes the block id of the line in front of it, or the next one behind a
  jump, and ids still count up without gaps: there are as many blocks as before, which
  is why the vector keeps its memory under the running loop. At the very end of the
  block this needs that the line in front is no jump. It is not, because the copy that
  goes there belongs to the last line of the block, and that is an expression.

For a single copy, nothing has moved before it is inserted (`Single`).

That the meaning is kept needs a second invariant, `Right`: what is in the table is
the temporary of an earlier expression of the block with the same key, or a literal
that is its sum; a line is as in the source, or an assignment of such a value; a copy
assigns the variable of its line to the temporary of that line; and a temporary that
is read is planned or in the code. In finished code with the copies in their places
(`CopiesInPlace`), a line of the code is the next line of the source or the copy of the
one just passed (`LineAfter`), and so the two executions can be run side by side, one
line of the code at a time. `Sim` is what holds of them: both are on their way to a
label or neither is, the variables of the source agree, and (`Knows`) the temporary of
an expression that comes again still has the value that the expression would have
now. The last is where `Undisturbed` is needed, and that the lines between two
expressions of one block are neither labels nor jumps (`OnlyAssignments`): a line that
is jumped over is jumped over in both.

`GasProofs` has three parts. The first, for code of any length, any number of
functions, variables, types and arrays, and whatever `map::find` misses: type
correctness, `DisjointCorrect`, `ReservedCorrect` and `ParametersCorrect`. The
invariant `LayoutInv` says of the function at hand that its slots lie above
`curLocalOffset`, which is where the next one goes (or at it, for an owner of size 0,
`InFrame`), and that `stackSpace` is the
distance covered so far; of the functions before it that their slots are within
the space recorded for them; and of a function whose ENTRY has not come that it
has no slots, since otherwise its offsets, which start anew, could meet older ones.
The theorems are about `LayoutSpec`, and `LayoutKeptByGas` shows that `Gas` implements
it: nothing touches the layout while lines are converted and code runs.

The second part is about the code that is emitted, whatever the program and the
colouring, right translation or not:

* `CodeCorrect`: the code that is run is `WellFormed`. Its instructions
  belong to functions; a function is entered by its label, which its prologue follows,
  and left by its epilogue; otherwise control goes on within it. All labels of the lines
  are in the code; a jump leads to a label of its own function, and a call to a
  function with which the static call graph connects it (`Closed`, `AllLabelled`).

The converters look simple for this, but they do not only append: `prepareCall` goes
back into what is there, counts instructions and puts saves between them, and `RET`
and the end of a scope emit code for whatever arrays are declared. `CodeInv` therefore
carries a map `own` from instructions to functions, or to none where nothing leads
(`CodeOf`), and a lemma (`PutIn`) says when a piece may be put in at a place without
breaking it: what is in front of that place may be followed by the piece, and the piece
by what is behind it, so never within a prologue or an epilogue. `Good(g, i)` is the invariant of the generator in front of line `i`: its code
belongs to functions up to that of line `i - 1`, the labels seen are in it, the code
ends in at least one instruction for each of the expressions just passed (`TailOf`:
that is why the saves of a call, counted back from the end, cannot land in a prologue or
in front of the function). One lemma for each converter shows what it appends.

The third part executes it. `StackInv` says that there are addresses, one for each active
function (`Stack`), with a return address behind a call of the function below and that
function's frame pointer next to it, and (`Phase`) where ESP and EBP are for the
instruction that comes next: before the frame is set up, within the function, while it
is taken down.

* `CallsInGraphCorrect`: as long as what is restored is what was saved, functions that
  are active one above the other are connected in the static call graph, however deep
  the recursion and however long the execution.

The hypothesis is `SavesIntact` at every step (what is restored is what was saved there,
and ESP stays below the frame), and it is needed: `gas_saves` shows
programs in which the code destroys its own return addresses, after which control can go
anywhere. When it holds is what `RestoresMatchSaves` says in `gas`: for all code that is
`Supported`.

Induction. The library's induction theorems cannot be instantiated by the provers, so
arguments by induction over lines, paths and rounds are made with sets: the set of
counterexamples has a least (`Least`) or greatest (`Greatest`) element, and that
leads to a contradiction; `Least` itself is proved from the well-foundedness of the
naturals in its set form. Recursive functions are used in the same way: the set of
arguments up to which the function exists has no first gap.

Assumptions, all on constants: `ProgramsAssumption` and `CompiledAssumption` (code is
`WellFormed`: proved of the converters as `DeliversCorrect`), `GraphsAssumption`
(graphs are flow graphs: proved of `CfgBuild` as `DescriptorsCorrect`, and not used
where `RegisterAllocationProofs` instantiates the analysis), `AnalysedAssumption`,
`RegistersAssumption`, `NumRegistersAssumption`, `NoVarAssumption`,
`LabelsAssumption`, `MaxLinesAssumption`, `NamesAssumption`, `SourcesAssumption` (the
ids of the code that `LVN` is given count up without gaps and change behind jumps and at
labels: what `NumberingCorrect` says of the converters; and the code does not mention
the temporaries that `addTempVar` makes), `UserVarsAssumption` (a variable of the user
is no temporary),
`InitializersAssumption`, `BoundsAssumption` (the bounds are numbers; the
theorems hold for each of them), `LayoutAssumption` (code begins with the entry of a
function, and no function is entered twice), `GasAssumption` (at most four registers, a
stack, colourings of the variables, and programs that are `IsConverted`: the shape is
that of `DeliversCorrect`, `ReturnsCorrect` and `CallsCorrect`, with operands, which
`Conversion` does not have).

Only model-checked:

* everything temporal beyond safety (`CallsReturn`, `Terminates`, the fairness part of
  `ImplementsLiveness`), since liveness and ENABLED are out of the prover's reach;
* `ResultsRight`, which compares the emitted code with `TacMeaning`: that module is
  recursive, and the comparison would need what every line leaves in registers and
  stack;
* `RestoresMatchSaves`, the hypothesis of `CallsInGraphCorrect` for code that is
  `Supported`. It depends on numbers: that the words pushed and popped around each call
  and array add up, in every function and on every path.

`Lagging`, `SolvedOffWorklist`, `SolvedByQuietRound` and `SetsGrow` are the other way
round: they are proved and so no longer properties of a run.

## 5. Not modelled

* Text: the grammar and the recursive descent of the parser, the text of names and
  instructions, every printing function, option parsing; scripts and benchmarks.
* Numbers: the machine of `X86` computes with integers, FLOATs included, and without
  overflow. Folding in LVN that overflows or divides by zero, and FLOAT literals
  that agree in the six digits of their key, are left out.
* Types: of LVN and the analyses nothing but "is a FLOAT"; in the back end arguments
  of type BOOL (stored BOOLs are modelled), arrays of FLOAT, and an index that is itself an element.
* `getArrayLiveRangeMap`, `renameVariable`, `findVariable` and `addNewSiblingScope`,
  which nothing but tests calls, and the ordering of sub-expressions.
* `boost`: the colouring is modelled from how it is used (each vertex, in the order it
  is handed, gets the smallest colour that no coloured neighbour has), the
  dominator tree by what it computes.
* Reading `colorVec.front()` of an empty vector (a function without integer
  definitions) is undefined, but the pointer is not used; the model takes it to
  have no effect.
* Faults from outside: the compiler is one thread, keeps nothing between runs and
  talks to nobody, so there are no crashes, retries or messages to model.

## 6. What is left

In the order of what it would add:

1. the scopes of `Names` and array declarations joined with `Conversion`, so that the
   code of `Gas` comes out of the converters rather than out of `MCGas`; with them
   the numbers of arrays and scopes that `GasConversion` takes as they are;
2. `LVN` between `Conversion` and `Gas`: integers of limited width and the keys of
   FLOAT literals.
