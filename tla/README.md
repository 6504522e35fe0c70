# A TLA+ model of LLLVM

LLLVM is a plugin for LLVM's `opt` with one analysis (a dominator tree) and
eight transformations, each a textbook optimisation written for clarity.  This
directory holds TLA+ models of the analysis, of the eight transformations and of
the pipelines they are put together in, the TLC configurations that check them
on all small functions of chosen shapes, and TLAPS proofs that hold for
functions and pipelines of any size.

The passes run in one thread.  What makes them hard is not concurrency but

- *order nobody chose*: they walk hash sets of pointers (`DenseSet`,
  `SmallPtrSet`), so a run may take blocks and instructions in any order;
- *state read after it changed*: loops erase from the set they run over, rewrite
  use lists under an iterator, look up leaders that were erased;
- *state that outlives a run*: a pass object serves every function, or every
  loop, of a pipeline, and three of them have members nobody clears; results of
  analyses are kept from one pass to the next;
- *termination*: worklists that are filled while they are emptied;
- *meaning*: what is left must compute what was there before.

## 1. Inventory

| Component | State | Operations | Modelled in |
|---|---|---|---|
| `DominatorTreeAnalysis` (`lib/Analysis`) | `dominators`, `idoms`, the tree | `getDominators`, `getImmediateDominators`, `buildDominatorTree`, `run` | `DominatorTreeAnalysis`, with the contract `DominatorTreeContract` |
| `DominatorTree` (`include/Support`) | nodes and children | built by the analysis, walked by CSE and GVNPRE | the edges in `DominatorTreeAnalysis` |
| `DeadCodeElimination` | members `used`, `worklist` | `run`: mark, sweep | `DeadCodeElimination` |
| `CommonSubexpressionElimination` | scoped hash table | `run`, `processBlock`, `DenseMapInfo` | `CommonSubexpressionElimination` |
| `SparseConditionalConstantPropagation` | members `BBExecutable`, `BBWorkList`, `constants` | `run`: visit, fold, delete | `SparseConditionalConstantPropagation` |
| `LICM` | members `invariantValues`, `invariantSequence`, `worklist`, `loopDefinedValues` | `run`: mark, move | `LICM` |
| `GVNPRE` | `available`, `anticipated`, leaders | `removeCriticalEdges`, `computeAvailable`, `getAnticipated`, `insert`, `eliminate` | `CriticalEdges`, `GVNPRE` |
| `LoopStrengthReduction` | the phis and sums it makes | `getInductionVariables`, `run` | `LoopStrengthReduction` |
| `TailRecursionElimination` | the two entry blocks, the phis | `run`, `markTailCall`, `elimTailCall` | `TailRecursionElimination` |
| `LoopUnswitching` | the map of the search, the new blocks, `valueMap` | `isInvariant`, `unswitchConditionalBranch`, `run` | `LoopUnswitching` |
| `PassRegistration` | one object for each mention of a pass; the cached analyses | the two pipeline callbacks, the registration of the analysis | `PassPipeline` |
| dominator tree printer | | asks for the tree, prints it, preserves all analyses | `PassPipeline`, without what it prints |
| tests, build files | | | not modelled: text |

How they interact.  CSE, GVNPRE and the printer ask the analysis manager for the
dominator tree, which may be one it has kept; what a pass returns from `run`
says what may be kept.  LICM, strength reduction and unswitching get a loop from
LLVM's own loop pass manager, which has put it in simplified and LCSSA form, and
which keeps its own table of loops (`LoopInfo`) whatever they return.  Every
pass gets the function that the passes before it have left.  There are no
threads, messages or callbacks besides the registration.

What makes each component correct:

- the analysis: its sets are the dominators and its tree is the tree of
  immediate dominators, in whatever order blocks are visited;
- DCE: exactly the needed instructions stay, on every function of a pipeline;
- CSE: an instruction gives way only to an available one of the same value;
- SCCP: only blocks that cannot run go; phis follow the edges that go; no use of
  a deleted value stays;
- LICM: exactly the invariant instructions move, and definitions still dominate;
- GVNPRE: the same results, no more work on any path, no redundancy left;
- strength reduction: the phi is the product in every turn of the loop;
- tail recursion: the loop computes what the recursion computed;
- unswitching: exactly an invariant branch is chosen, and the two loops do what
  the one did, in SSA form;
- a pipeline: no pass works on an analysis of a graph that is gone, and no
  object remembers a function it is run on.

## 2. Modules

| Module | Role |
|---|---|
| `ControlFlow` | graphs, reachability, dominance, immediate dominators, by closed sets; what the passes are judged against |
| `DominatorTreeContract` | what the analysis promises: it answers once, with the tree of the graph |
| `DominatorTreeAnalysis` | one action per visit of a block, per round, per turn of an erase loop, per node of the tree |
| `DominatorsAndTailCallsProofs` | proofs about the analysis, that it implements the contract, and about tail recursion elimination |
| `DominanceTheorems` | proofs about dominance and the edges of the tree; facts about sequences and least elements that the other proofs share |
| `DeadCodeElimination` | the pass; `Leave` and `Begin` are the pass manager between two functions |
| `CommonSubexpressionElimination`, `CommonSubexpressionEliminationProofs` | the recursion as a stack of calls and scopes, over the tree of the contract; its proofs |
| `SparseConditionalConstantPropagation`, `SparseConditionalConstantPropagationProofs` | the worklist, folding, branches, deletion one phi at a time; its proofs |
| `LICM` | the worklist and the moves, one loop after another |
| `CriticalEdges` | `removeCriticalEdges`, with the use lists its iterator runs over |
| `GVNPRE` | the rest of the pass, over the tree of the contract |
| `GVNPREProofs` | proofs about the critical edges and about the leaders of GVNPRE |
| `LoopStrengthReduction`, `LoopStrengthReductionProofs` | the pass and the values of the phi in each turn; its proofs |
| `TailRecursionElimination` | the pass, and the executions of the code before and after |
| `LoopUnswitching` | the calls of `isInvariant` and `moveDependencies` as a stack, then one action per stage; the executions before and after |
| `OperandSearchProofs` | proofs about the two passes that search through operands: DCE, and unswitching as far as it chooses a branch |
| `PassPipeline` | what is kept between the passes |
| `PassObjectProofs` | proofs about what outlives a pass: what a pipeline keeps, and LICM |
| `MC...` | the functions each pass is run on |

A *function* of the program is a record: the graph, the instructions with their
operands, and the orders that matter (layout, use lists). A walk over a hash set
is an existential choice in an action; a walk over a vector or a layout is a
sequence. A variable (`phase`, `stage` or `step`) says where in `run` the pass
is. Reading freed memory, an operand that is not there or the value of a phi for
a block that is no predecessor makes it `"undefined"`, at the place where the
source does so. `PROJECT.json` maps each definition to its lines.

The analysis composes with its users through the contract: `dominator_tree`
shows that the analysis implements `DominatorTreeContract`, and CSE and GVNPRE
start from `TreeEdges`, the answer the contract gives. `PassPipeline` has the
other half of this composition: whether the tree a pass is handed is that of the
function as it is. That includes a blemish of the answer: a single unreachable
block is hung below *every* leaf, two or more are dropped (`TreeEdges` in
`ControlFlow`).

Definitions named `X_Something` are `X` with a slip a change of the code could
make.  The specifications do not use them; each one breaks the property it is
listed with, which shows that the property says something about the code.

## 3. Runs that pass

| Run | Instance | Distinct states |
|---|---|---|
| `dominator_tree` | all graphs of 4 blocks, at most 2 successors each | 61,312 |
| `dead_code` | all functions of 4 instructions with 2 operands each, and of 2, in turn | 208,743 |
| `common_subexpressions` | 4 instructions on 4 graphs of 4 blocks | 382,777 |
| `constant_propagation` | 2 adds of 1 bit and a phi, 6 graphs of 4 blocks, 6 layouts | 42,692 |
| `loop_invariants` | 6 instructions, a while loop and one with a conditional body | 23,830 |
| `critical_edges` | all graphs of 4 blocks with branches, 2 layouts, 2 use orders; a switch | 96,198 |
| `gvnpre` | 1316 functions of 7 blocks: a join with a cut edge, one and two diamonds, 2 loops, two joins with critical edges left | 120,309 |
| `loop_strength_reduction` | 2 phis, 3 users, 3 bits | 39,360 |
| `tail_recursion` | 358 functions of 3 parameters over 0..2, entry blocks of up to 5 instructions | 3,115 |
| `loop_unswitching` | 2294 functions of 9 blocks and 10 instructions, 4 shapes of a loop of 5 blocks | 84,051 |
| `pass_pipeline` | every pipeline of 1 to 3 elements out of 10, 2 functions, up to 2 loops | 1,497,814 |

What they show:

- `dominator_tree`.  For every graph of four blocks with at most two successors
  each, and every order of visits that can differ between rounds:
  `DominatorsExact`, `ImmediateExact` (the erase loops shrink sets that later
  turns read, and still leave the immediate dominator alone), `NoRepeatOnPath`
  (the recursion over the tree ends although unreachable blocks dominate
  everything), and `ImplementsContract`, the refinement with its liveness.
- `dead_code`.  One pass object over all sequences of functions, cycles among
  operands included: `SurvivorsExact`, `ErasesOnlyBeforeDoomedUsers` (a
  definition is erased before its users, all of which must be doomed), `Returns`.
- `common_subexpressions`.  With any hash table: which expressions share a bucket
  is open, and `isEqual` compares opcodes only, so a lookup may return any key of
  the opcode.  `ReplacedByEqualValue`: an instruction gives way to its like, and
  against value numbers to one of its value, but where `isEqual` itself has taken
  a key for another expression, and in what is computed from such an instruction
  (`Affected`; the history variable `mistaken` remembers them).  That no value
  changes at all, `ValuesKept`, is refuted (section 4).  `ReplacedByAvailable`,
  `UsesStayDefined` in blocks the walk has passed, will pass and never comes to,
  and `NoneLeftToEliminate`.
- `constant_propagation`.  `ExecutableIsReachable` (the blocks visited are those
  the *rewritten* function reaches), `FoldsEverything` (one visit per block is
  enough), `UsesStayDefined`, `PhisCoverPredecessors`, `Returns`.
- `loop_invariants`.  `HoistsExactly`, `DefinitionsDominateUses` after every
  single move, `Returns`, for every order of the worklist.
- `critical_edges`.  `EdgesPreserved`, `PhisListPredecessors`,
  `SplitsCriticalEdges`, `Returns`.  Lines 8-11 say that all critical edges are
  removed, and `insert` builds on it (line 251); the run has what is true of that
  for every function: a block loses one critical edge at least, and no other edge
  is split.  The whole claim, `NoCriticalEdges`, is refuted (section 4).
- `gvnpre`.  Executions are compared before and after: `SameResults`,
  `NoMoreWork`, `LeadersStay` (nothing is replaced with an instruction that was
  erased), `RedundancyRemoved`, `Finishes`.  The functions are such as `removeCriticalEdges` leaves: `Crossed` in
  `MCGVNPRE` has two blocks that lead to the same two joins; of the two edges
  into a join one is cut and one stays critical.  All but `NoMoreWork` hold of
  it without a condition on edges.
- `loop_strength_reduction`.  The list of uses is modelled live: a reduction
  takes a use out of it under the iterator.  `ReducesExactly` says that none is
  stepped over; `PhiIsProduct` compares turn after turn past the wrap.
- `tail_recursion`.  Results of the recursion and of the loop are compared on
  every input: `SameResults`; `AllocasApartMove` for the new entry block.
- `loop_unswitching`.  `UnswitchesFirst`: the search, which takes a value that
  is still searched for variant and keeps its conclusions in a map, never
  unswitches a branch whose condition goes round with the loop, and never passes
  over one whose condition is surely invariant (computed from arguments, without
  phis or calls of the loop).  Between the two the code takes for invariant what
  the comments do not: section 4, `UnswitchesInvariantsOnly`.  `SameCalls`: the two loops make the
  calls of the one, with the same values in the same order.  `StaysInSSAForm`:
  after moving, cloning and remapping definitions dominate their uses and phis
  list their predecessors.  378 of the functions are unswitched and in the form
  that the last two ask for.
- `pass_pipeline`.  `CachedTreesFit`, `WorksOnPresentGraph` with its two
  exceptions, and `ObjectsMeetOnce`, on which DCE and SCCP, whose members are
  never cleared, depend.

### Preconditions

Some properties hold only of functions the code can cope with.  The condition is
stated by name, in the module or with the functions, and section 4 has what
happens without it.

| Condition | Where | Leaves out |
|---|---|---|
| `ReusesAddresses = FALSE` | DCE, SCCP | an address seen in an earlier run that comes back as another object |
| `Tame` | LICM | phis of invariants alone; operators behind the loop that use only its invariants |
| one loop | LICM, dominance | pass objects that come to a second loop |
| `CopiesMakeSense` | GVNPRE | operators of a join on another block's phi, on a phi with an argument or constant, or on a value of the join itself |
| `BehindSwitch` | critical edges, phis and counts | blocks a `switch` leads to, whose phis are renamed although no edge is split |
| `AnticipatesOwnOnly` | GVNPRE, work | joins that branch |
| `EdgesCut` | GVNPRE, work | joins a critical edge still leads to |
| `JoinsComputeLast` | GVNPRE, leaders and redundancy | a block below a join that computes what the join computes |
| `HashesTell` | GVNPRE, leaders | two operators of equal operands with different hashes, one of which gets the hash of the other when its operand is replaced |
| `NoLoops` | GVNPRE, redundancy | loops |
| `OperandsStay` | GVNPRE, redundancy | operators of a value that gives way to its leader, which stay in the tables with the hash of before |
| step one, `SumDominatesLatch` | strength reduction | other steps, products in a conditional part of the loop |
| `CanEliminate` | tail recursion | calls of other functions, calls an earlier pass marked, parameters passed on in place but for the last |
| `ComputedInFront` | unswitching | conditions computed from calls, phis, the preheader, or by a value used twice |
| `RoomInGraph` | unswitching | preheaders that are the entry or behind a `switch`; phis in a target of the branch or, for a value of the loop, behind it; values of the preheader used behind the loop |
| `WellFormed`, in SSA form | all; `SSAAssumption` in CSE, `WellFormedAssumption` in SCCP | functions that LLVM's verifier rejects |
| `PrintedBefore` | pipeline, GVNPRE | GVNPRE behind the printer, with only loop passes and printers between |
| `UnswitchedBefore` | pipeline, loop passes | loop passes behind unswitching, with only loop passes and printers between |

## 4. Where the code does not do what it says

One of these is a run that TLC refutes, the finding of `PROJECT.json`:

- `constant_propagation_branch`: `getSuccessor(getBoolValue())` takes the false
  edge when the condition is true (SCCP, line 58); the block that runs is
  deleted.

The other configurations are kept beside it and refute what they name in the
same way, with `tlc -continue -config <name>.cfg <module>.tla`; an
`Unsupported` configuration holds a function for each row:

| Configuration | Refuted | What happens |
|---|---|---|
| `MCDeadCodeEliminationReuse` | `EliminatesUnused` | `used` is never cleared: an address marked in an earlier run keeps an unused instruction |
| `MCCommonSubexpressionEliminationCollide` | `ValuesKept` | `isEqual` compares opcodes only (line 60); keys in one bucket are taken for equal, though lines 1-2 and 7-10 speak of equality of expressions |
| `MCSparseConditionalConstantPropagationAgain` | `RemovesOnlyUnexecutable` | `BBExecutable` is never cleared: blocks behind one visited earlier are deleted |
| `MCSparseConditionalConstantPropagationFreed` | `SuccessorsExist` | a dead block is asked for a successor deleted before it |
| `MCLICMTwoLoops` | `DefinitionsDominateUses` | on a second loop the pass object moves what it hoisted out of the first one on to the second preheader, below its uses (LICM, line 121) |
| `MCLICMUsedAfter` | `Returns` | an invariant used in a later loop keeps the worklist from getting empty |
| `MCCriticalEdgesTwo` | `NoCriticalEdges` | the iterator follows a use to another list; a block keeps its second critical edge |
| `MCGVNPREUnsupported` | `LeadersLive` | a join's operator, which gave way to the phi, has been erased when a block below the join asks for its leader: lines 308-309 change the tables of the join alone, though the comment at line 59 takes the leader for available |
|  | `LeadersLive` | a leader gets the hash of an earlier instruction when its operand is replaced, and gives way to it: the tables still have it for a third (line 358) |
|  | `ResultsKept` | a phi with an argument stays untranslated in the copy |
|  | `WorkKept` | a copy in front of a loop is made and nothing below the header is eliminated; a copy is put in front of a critical edge that `removeCriticalEdges` has left (line 251 takes for granted that there is none) |
|  | `NoneLeftToEliminate` | a copy is not made known to the blocks it dominates; an operator is in the tables with the hash it had before its operand was replaced |
| `MCLoopStrengthReductionUnsupported` | `SumIsProduct` | the sum after the increment takes the place of the product (line 122) |
|  | `SumsReachLatch` | the sum of a conditional product does not dominate the latch |
| `MCTailRecursionEliminationUnsupported` | `ResultsKept` | a tail call of another function becomes a jump to the function's own entry, since `getCaller` is the function the call is in (line 77) |
|  | `ResultsKept` | `continue` does not advance the parameter (line 105) |
|  | `AllocasMoved` | of two allocas in a row the second stays in the loop (line 93) |
| `MCLoopUnswitchingUnsupported` | `CallsKept` | each of nine functions, named in `MCLoopUnswitching`, that breaks one part of `Supported` |
| `MCLoopUnswitchingVariant` | `UnswitchesInvariantsOnly` | a branch on a call in the loop, or on a phi of constants, is unswitched: the search looks at operands alone (line 88), though lines 1, 25 and 142-145 and `not-unswitchable.ll` speak of invariant conditions |
| `MCPassPipelinePrinted` | `TreeIsPresent` | the printer preserves the tree, and GVNPRE cuts edges before it asks for it |

The nine functions of `MCLoopUnswitchingUnsupported` are: the preheader is the
entry block, or is entered by a `switch` (lines 162-176 find no branch to
retarget); the condition uses what the preheader computes, where LICM puts what
it moves; something behind the loop does; a dependency is used twice, and ends
up behind the first of its users (line 136); the condition is a phi of
constants, or what a call returns (line 88 takes both for invariant); a phi is
in a target of the branch; a phi behind the loop takes a value of the loop and
gets none from the clone.  Some of them leave code that LLVM's verifier
rejects; an LLVM built with assertions may stop in `RemapInstruction` already.
The model is of a build without assertions, where it leaves a value it does not
know as it is.

## 5. Bounds, and why they are enough

- *Blocks.*  Four blocks hold every pattern the graph algorithms tell apart: a
  diamond, a loop with a bypass, irreducible loops, one and two unreachable
  blocks, a critical edge.  CSE and SCCP take named graphs of four blocks and all
  placements on them; LICM and strength reduction need a preheader, header,
  conditional body, latch and exit, hence five; GVNPRE needs the blocks that
  `removeCriticalEdges` adds, hence seven.
- *Instructions.*  Two instructions can be equal, a third can depend on both, a
  fourth can sit behind the third: that is where CSE's rewriting of keys in the
  table and LICM's repeated marking show.  SCCP has two adds in a chain and a
  phi.  DCE has up to six addresses for two functions apart.
- *Integers.*  `Width` bits, one for SCCP and three for strength reduction, with
  `Turns = 9` turns, more than the 8 values, so that phi and product wrap.  Tail
  recursion has values modulo 3.
- *Executions.*  `MaxPath = 12` blocks (GVNPRE) takes the back edges of its loops twice;
  `Fuel = 6` turns (tail recursion) is compared level for level, and recursions
  that take longer are equal up to there.
- *Inserted instructions.*  `Fresh = 8` in GVNPRE; the absence of deadlocks shows
  that the pass never asks for a ninth.
- *Runs of one object.*  DCE runs without bound: the member `used` is bounded by
  the addresses.  SCCP and LICM run until their functions or loops are used up.
- *Unswitching.*  Nine blocks hold a loop whose header, conditional block, two
  sides and latch are apart, with a preheader, its two predecessors and an exit,
  and ten instructions a counter, a condition of up to three links, and calls
  with values of the loop and of the preheader.  `Fuel = 16` blocks take the
  loop two times and leave it; the new function gets one block more.  The limit
  of the loop is 0 or 2, so that it is also left at once.
- *Pipelines.*  Three elements are enough for one that leaves something, one
  that keeps it, and one that meets it; the proofs are for any number.
  `MaxLoops = 2` takes a loop pass to a second loop.

No symmetry is used: blocks and instructions are numbered where order matters.
`PassPipeline` has two functions that could be exchanged; the state space is
small enough without.

Deadlock is checked in every run; a pass that has returned stutters by an action
of its own (`Stopped`, `Returned`).

## 6. Fairness

One thread runs a pass and nothing blocks it, so some step of `run` is always
taken: `WF_vars(Run)`, weak fairness of the disjunction of the steps (`PRERun`,
`ElimRun` and `UnswitchRun` in modules that are proved about together with
another), or of `Next` where every step is one.  No choice is treated fairly, so liveness holds
however the hash sets are walked.  In modules with a pass manager, `Run` leaves
out the manager's choice to call the pass again.  `PassPipeline` states safety
only and assumes no fairness.

## 7. What is proved

`tlapm` checks all of this for every value of the constants: any finite set of
blocks, any graph, any function, any order of a hash set.  A proof states its
invariant, has a lemma for each action that can disturb it, and draws the
theorems from it.

- `DominanceTheorems`: dominance, defined through closed sets, is reflexive,
  transitive and antisymmetric on reachable blocks; the entry dominates all; a
  dominator of `b` other than `b` dominates the reachable predecessors of `b`;
  the dominators of a block form a chain (`DominatorsAreAChain`).  The edges of
  the tree lead from dominators to what they dominate and reach every reachable
  block.  `LeastNatural` and `LeastFiniteSet` stand in for induction: a claim
  about all numbers is proved by taking the least one for which it fails.
- `DominatorsAndTailCallsProofs`, the analysis: `TypeCorrect`, `NeverDropsADominator`,
  `ComputesDominators` (`DominatorsExact`), `ComputesImmediateDominators`
  (`ImmediateExact`), `RecursionEnds` (`NoRepeatOnPath`) and
  `AnswersWithTheTree`, the safety part of `ImplementsContract`: each step is
  one of the contract or leaves its variables alone.
  The inductive invariant `DominatorsInv` adds to the type
  that no real dominator was dropped, that the entry keeps its set, and that in
  a round without a change the blocks visited so far solve the equations.  It is
  needed since `DominatorsExact` speaks of the end only.  From a solution that
  lies above the dominators exactness follows: if `d` is in the set of `b`, the
  blocks whose set lacks `d` are closed under the edges that avoid `d`.
  `ImmediateInv` says of the erase loops that what is gone dominates something
  left (`Pruned`); that the dominators are a chain makes one block the last.
  `TreeInv` says of the recursion that every path is one of edges of the
  contract; those lead down in the order of dominance, so none comes back.
- `DominatorsAndTailCallsProofs`, tail recursion: `AllocasBesideMovedStay`
  (`AllocasApartMove`) and `EliminationKeepsResults` (`SameResults`), for any
  number of parameters, any modulus and any `Fuel`.  `Moving` says of the two
  entry blocks that both rise, that what the iterator has in front of it has no
  gap, and that each alloca it has passed stood right behind one that moved;
  that one is why it is passed.  `RewriteInv` says that the arguments, phis and
  uses are the given ones with the first `m` parameters replaced, for an `m` that
  goes with the iterators over arguments and parameters: so no use is rewritten
  twice, or for the wrong parameter, unless the last is passed on in place.
  From the end of it the loop is the recursion turn by turn: a least number of
  turns at which the two differ leads to a smaller one.
- `OperandSearchProofs`, DCE: `TypeCorrect`, `LeavesExactlyTheNeeded`
  (`SurvivorsExact`) and `ErasesSafely` (`ErasesOnlyBeforeDoomedUsers`), under
  the assumption `~ReusesAddresses`.  `IInv` says that marking stays below
  `Needed`, the least closed set, and is closed up to the worklist; and that the
  sweep has lost no needed instruction and has kept only needed ones.
- `CommonSubexpressionEliminationProofs`: `ReplacesByAvailable`,
  `KeepsUsesDefined` (`UsesStayDefined`), `ReplacesByEqualValue` and
  `LeavesNoneToEliminate`, whatever shares a bucket.
  `IInv` says that the stack of calls goes down the order of dominance
  (`PathInv`) and that each scope has instructions of its block alone, in the
  innermost one those in front of what is left (`ScopesInv`): what is in the
  table is available.  `LikeInv` says that what has given way without being
  mistaken has the expression of its leader, as it is now.  Value numbers come in
  at the end only: that instructions with one leader have one number is shown by
  taking a least pair for which it fails; its operands are a smaller one, for
  what is not affected has operands that are not.
  For the last theorem the table must also have *all* that is
  available (`TableInv`: the blocks that dominate the one the walk is at are
  those of active calls), and the walk must come to every block (`WalkInv`), to
  the reachable ones once (`WalkOnceInv`).  Then `NoDuplicates` holds all along:
  what was looked up shares its expression with nothing available.  It survives a
  replacement, which can make two expressions equal, since what names the
  replaced instruction is still to be looked up, or is unreachable.
- `GVNPREProofs`, critical edges: `TypeCorrect`, `KeepsEdges` (`EdgesPreserved`),
  `PhisFollowEdges` (`PhisListPredecessors`) and `SplitsTheCritical`
  (`SplitsCriticalEdges`).  `IInv` says that an edge is as it was or split, never
  both (`EdgesOnce`); that blocks ahead are untouched and come once (`Ahead`);
  that the iterator runs over the list as it was until it splits, and has passed
  no critical edge (`AtHand`); and that a block behind has lost one (`Behind`).
- `GVNPREProofs`, the leaders: `LeadersAreThere` (`LeadersStay`): where no block
  below a join computes what the join computes, and hashes tell expressions
  apart (`HashesTell`), `eliminate` never replaces with what it has erased,
  whatever `insert` has added and in whatever order.  Hashes are no invariant of
  an instruction, since they are computed from operands that get replaced.  So
  `LeadersInv` says that there is a table `c` that gives each value the
  expression it stands for, which no step changes but `InsertPhi`, which extends
  it to the phi and its copies (`Records`: the operands of an operator stand for
  those of its expression).  `HashesTell` makes two operators of one hash stand
  for one expression.  `Available` says that a leader was first with its hash on
  the way down the dominators, or is a phi of `insert`; `Layouts`, that what is
  gone from a block had something with its hash in front of it, or was in a join,
  and that what was given keeps its order; `LocalLeader`, the same of what
  `eliminate` has found in the block so far.  A leader that is first is then
  never dispensable, but in the joins, which `JoinsComputeLast` deals with.
- `SparseConditionalConstantPropagationProofs`: `TypeCorrect` (`TypeOK`) without
  condition, and for `~ReusesAddresses` `VisitsTheReachable`
  (`ExecutableIsReachable`), `OneVisitFoldsEverything` (`FoldsEverything`),
  `LeavesUsesDefined` (`UsesStayDefined`) and `PhisAreCovered`
  (`PhisCoverPredecessors`).  The worklist takes a block in after its dominators
  only (`DominatorsFirst`); operands of an add are defined in such a block, or
  earlier in the same one, and are constants or never will be: so one visit settles a block
  (`OneVisitSettles`).  That nothing unreachable is visited is said by
  `Through(W)`: each set that holds the entry and is closed under the edges of
  the blocks `W` holds all that is visited or waits.  Of the deleting, `Layout`,
  `PhisFollow` and `SafeUses` say that it takes nothing visited blocks use.
  A look at freed memory (section 4) ends in `"undefined"`, of which the
  theorems claim nothing.
- `LoopStrengthReductionProofs`: `TypeCorrect`, `ReducesTheMultiples`
  (`ReducesExactly`) and `PhiFollowsProduct` (`PhiIsProduct`), for integers of any
  width and loops of any number of turns.  `AtHand` says that the list the iterator
  stands in has lost uses only, and those to come none; `AllReduced` that every
  multiple the loops have passed is reduced, `ReducedFrom` where each reduction comes from.  That the phi is the
  product in each turn is arithmetic modulo `2 ^ Width`; the recursive function
  `NewPhi` is shown to exist by giving one, and the values of it by the first
  turn that differs.
- `OperandSearchProofs`, unswitching: `FindsTheFirst` (`UnswitchesFirst`), for
  any loop and any order of the operands of a phi.  The search is the recursion
  `isInvariant` as a stack of calls, and marks a value variant before it knows.
  `Searching` says that what the map has for invariant depends on no circle of
  phis, and that what it has for variant depends on one or is on the stack; and
  that the calls on the stack are a chain of operands.  So a value that is met
  again closes a circle, and one whose search has ended has been judged right.
  `Collecting` and `Listing` say of the branches that they are those of the loop
  in its order, `Asking` that none that was asked about can be unswitched, and
  `Decided` that the one at hand is the first that can.  That gives exactly the
  branches whose condition depends on no circle (`Circular`); those surely
  invariant are among them, those that go round with the loop are not.
- `PassObjectProofs`, LICM: `HoistTypeCorrect`, `HoistsExactlyTheInvariants`
  (`HoistsExactly`) and, for functions of one loop, `HoistingKeepsDominance`
  (`DefinitionsDominateUses`), for functions that are `Tame` and any order of the
  worklist.  `Marked` says that what is marked is invariant, and that what could
  be marked still is in the worklist.  The sequence may list a value again:
  `Sequenced` says that definitions stand in front of uses, but for uses that
  are in the worklist again.  `InTurn` and `Placed` say in terms of positions
  that what has been moved stands at the end of the preheader in the order of
  the sequence, and that the rest is where it was.  That this keeps dominance
  after every single move needs all four: an operand of what moves is outside of
  the loop or moved already.
- `PassObjectProofs`, pipelines: `TypeCorrect`, `TreesFitBetweenPasses`
  (`CachedTreesFit`), `OldAnalysesOnlyThere` (`WorksOnPresentGraph`) and
  `ObjectsStartFresh` (`ObjectsMeetOnce`), for any functions, any number of
  loops and pipelines of any length.  The invariant `IInv` adds four parts to
  `WorksOnPresentGraph`: the types; `Coherent`, that a tree of the
  function at hand is old only while a pass that drops it is at work; `Fresh`,
  that nothing is kept for functions still to come and that the objects that met
  this one are behind in the pipeline; and `Sources`, which says of everything
  that is kept which element it comes from.  The properties need it since they
  speak of what a pass is handed, and not of who left it there.

The assumptions are those the modules name: the entry is a block and blocks are
finite (`EntryAssumption`, `BlocksAssumption`); graphs and functions are well
formed and in SSA form (`GraphsAssumption`, `FunctionsAssumption`,
`LoopFunctionsAssumption`, `CutFunctionsAssumption`, `SSAAssumption`,
`WellFormedAssumption`); blocks, instructions, arguments and constants are
numbers or names that are told apart (`ArgsAssumption`, `NamesAssumption`,
`NumbersAssumption`, `SizesAssumption`); widths, turns, parameters, bounds, loops
and pipelines are what their names say (`WidthAssumption`, `TurnsAssumption`,
`ParamsAssumption`, `BoundsAssumption`, `MaxLoopsAssumption`,
`PipelinesAssumption`); `ReusesAddresses` is Boolean
(`ReuseAssumption`).  TLC evaluates them on the functions of
every run.  `Tame` and `~ReusesAddresses` are hypotheses of
the theorems that need them.

Only model-checked:

- all liveness (`Returns`, `Finishes`, the last half of `ImplementsContract`),
  which is out of the prover's reach;
- GVNPRE: `SameResults` and `NoMoreWork`, and unswitching: `SameCalls`.  They
  compare executions on all paths, which is an induction over the path on top of
  an invariant that relates the rewritten function to the given one at every
  block;
- GVNPRE: `RedundancyRemoved`.  It follows what `insert` adds through all the
  tables to the end; `LeadersInv` says that leaders are there, and not yet that
  nothing that has one is left;
- unswitching: `StaysInSSAForm`, which is about the two loops after moving,
  cloning and remapping together; `UnswitchInv` stops at the branch.

The type invariants of the analysis, of DCE, of LICM, of the pipeline, of the
critical edges and of strength reduction are proved and not run; the one of SCCP is both,
since a folded sum has to stay in its width.

## 8. What the models leave out

- Growth of a `DenseMap` and real hash values: a lookup in CSE may return any
  key of its opcode; hashes of GVNPRE do not collide.
- Branches with both targets in one block.
- `foo` and `test` of CSE (64-80), `add_preheader` of LICM (34-69): nothing
  calls them.  `constants` of SCCP: nothing fills it.
- Memory: LICM hoists loads and instructions that may trap, which changes what a
  program does although definitions dominate uses.
- Functions without a preheader in strength reduction (the pass returns), loops
  with several latches (not in simplified form).
- In tail recursion, functions of one shape; what calls do to memory.  The call
  is erased before the return that uses it, which a build with assertions
  reports.
- In unswitching, loops within loops.  `getInvariants` (64-68): nothing calls it.
- In pipelines, what the passes do inside, which is in their own modules, and
  pipelines that `opt` repeats.  What LLVM's managers do is modelled as far as
  the plugin depends on it: getResult keeps what it computes, what a pass does
  not preserve goes, and loop passes keep `LoopInfo`.
- Names, types, printing.

## 9. What could be proved next

In this order:

1. `StaysInSSAForm` of unswitching: where each dependency stands after it was
   moved, by position as for LICM, then one invariant for cloning and one for
   remapping;
2. `RedundancyRemoved` of GVNPRE: with `OperandsStay` the classes of `LeadersInv`
   are the hashes, and what is left is that a leader is looked up wherever there
   is one.
