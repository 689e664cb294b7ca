# Models and proofs for EsopSynthesis

EsopSynthesis extends ABC with commands that turn a Boolean function into an
exclusive sum of products (ESOP): a list of cubes whose XOR is the function,
as short as possible.  This directory holds TLA+ models of its algorithms, the
TLC configurations that check them on small instances, and TLAPS proofs.

Paths below are relative to the repository root; `ext/` is short for
`src/ext-esopsyn/` and `exor/` for `src/base/exor/`.

## 1. Inventory

| Part | State | Operations | What makes it correct |
|---|---|---|---|
| `bddextract` (`ext/bddExtract.cpp`) | memo table `_hash`, trail `_vars`/`_values`, cubes `_esop` | `extract` calls `fullExpand` (first pass), then `genPSDKRO` (second pass) | the cubes XOR to the function; every lookup of the second pass hits; the ESOP is a smallest pseudo-Kronecker expression for the variable order |
| `rdextract` (`ext/rdExtract.cpp`) | the same, entries have a `refined` flag | `partialExpand`, `fullExpand`, `refine`, `CostLookAhead`, `genPSDKRO` | the same function; decisions taken from real entries; stored costs are never too low and never rise; with a large bound as good as bddextract |
| `isfextract` (`ext/isfExtract.cpp`) | memo table on pairs (function, care function) | `firstPass`/`firstPassNaive`, `secondPass`/`secondPassNaive` | right on the care set; assertions hold; counted cost is the number of cubes (all of it only without `-n`) |
| `dcextract` (`ext/dcExtract.cpp`) | list of text cubes, `CofVarList`, one pair of cube counts per open division | `DivideConquerRecur`: Shannon cofactors `-n` times, bddextract on the parts, then the value of the input into the cubes of the half | the file is an ESOP of the output; no cube gets a value it already has |
| `dcmin` (`ext/dcMinimize.cpp`) | list of groups of cubes | read a PLA file, cut the cubes into groups, exorcism on each, join, repeat, write | no cube is lost between groups; the file written is an ESOP of the file read, not longer |
| exorcism (`exor/*.c`) | cube list, free list, byte IDs, marks, undo record, three cyclic queues of pairs, the cubes of the running ExorLink, the script | `AddCubesToStartingCover`, `CheckForCloseCubes`, `IterativelyApplyExorLink2/3/4`, `ExorLinkCubeIteratorStart/Next/CleanUp`, `UndoRecentChanges`, `ReduceEsopCover` | the XOR of the cover never changes; each cell is in one place; queued pairs of changed cubes are recognised; a group given up leaves no trace; the cover never grows; the script ends |
| `xorbidec` (`ext/xorBidec.cpp`) | the SAT solver with control variables, the seed, the core, the best partition | seeds, minimisation of the core, partition, synthesis | the two functions XOR to the output's; each lacks an input |
| command layer (`ext/cmd.cpp`) | the frame's current network | one function per command: options, strash, per-output loop | a command frees what it made and nothing else |
| CUDD (`src/bdd/cudd`) | unique table, reference counts | cofactors, XOR, AND, `Cudd_DagSize`, reference counting | vendored; its functions are modelled as far as the commands use them |

The program is sequential: no threads, no signals, no persistence.  What is
hard in it is not concurrency but recursion over shared mutable state: member
variables that all activations of a recursive function use, one memo table
that several recursive functions fill, read and overwrite, an iterator or a
cost that is read before a call and used after it, two passes that must visit
the same keys, and, in exorcism, lists and queues of cubes that change while
they are walked.  The recursions are therefore modelled as step machines: a
stack of activations is a variable, each call and each return is an action.

Interaction: `cmd.cpp` calls the `*Main` function of a command; `bddextract`,
`rdextract` and `isfextract` build the global BDDs of one network and run a
manager object on their roots; `dcextract` calls bddextract on cofactors;
`dcmin` reads the PLA file an extractor wrote and calls exorcism on groups of
its cubes; exorcism keeps everything in static variables, so one call must leave
nothing for the next.

The hazards found while reading are listed, with their lines, under "hazards"
in `PROJECT.json`, with the properties that cover them, or what is missing.

## 2. Modules

| Module | Models | Built on |
|---|---|---|
| `BoolFun` | Boolean functions as sets of minterms, cofactors, XOR, top variable, BDD size, cubes, "this cube list is that function", the optimum used as reference | |
| `Psdkro` | `genPSDKRO` with **any** choice of expansions: the abstract specification of the second pass | `BoolFun` |
| `BddExtract` | `BddExtractManager` | `Psdkro` |
| `RdExtract` | `RdExtractManager` | `Psdkro` |
| `IsfExtract` | `IsfExtractManager`, both variants | `Psdkro` |
| `Cubes` | exorcism's cubes, distance, costs, and the ExorLink tables as a pure algorithm | |
| `EsopCover` | what an ESOP minimiser promises: the abstract specification of exorcism | `Cubes` |
| `Exorcism` | the whole of exorcism: store, queues, ExorLink, script | `Cubes`, `EsopCover` |
| `Pla` | cubes as text, what a line of a PLA file means | `BoolFun` |
| `DcExtract`, `DcMinimize` | `dcextract`, `dcmin` | `Pla` |
| `DcFlow` | dcextract, then dcmin on its file | `DcExtract`, `DcMinimize` |
| `XorBidec` | `xorbidec` on one output | `BoolFun` |
| `PsdkroProofs`, `BddExtractProofs`, `RdExtractProofs`, `IsfExtractProofs`, `DcFlowProofs`, `XorBidecProofs`, `ExorcismScanProofs`, `ExorcismProofs` | theorems | |
| `MC*` | the values of the constants for TLC | |

**Functions.**  The commands hold a function as a `DdNode*`.  A reduced ordered
BDD with complement edges is canonical, so equal pointers are equal functions;
the models use the set of true minterms, and a minterm is the set of variables
it sets to 1.  Dynamic reordering is enabled only while the global BDDs are
built (`src/base/abci/abcNtbdd.c` disables it before returning), so the order
of the variables is fixed during extraction and variables are named by their
position in it.  `TopVar` is the first variable a function depends on, which is
what `Cudd_NodeReadIndex` of a reduced BDD gives.  A cube is the pair of bit
sets of `ext/utils.h`.

**Recursion.**  In `Psdkro`, `pc = "call"` says that `genPSDKRO(arg)` is about to
run and `pc = "return"` that it returned; `stack` has one record per activation
that waits for a child.  `GenZero`, `GenOne` and `GenEnter` are the three ways a
call begins, `GenSecond` runs when the first child returned, `GenLeave` when the
second did and does the trailing pop and reset.  `BddExtract` adds the first
pass the same way (`xpc`, `xarg`, `xstack`, `ret`): `ExpandConstant`, `ExpandMemo`,
`ExpandEnter`, `ExpandNext`, `ExpandStore`.  `RdExtract` runs three functions over
one stack, so an activation also names its function (`fn`), the expansion it
decided and the children still to call; `refine` waiting for the child that had
been dropped is the frame `"decide"`.  In `IsfExtract` the frames of the first
pass collect the results got so far, and the same actions serve `firstPass`
(four calls) and `firstPassNaive` (three calls, the last under the union of both
care functions); `naive` chooses, as option `-n` does.

**`operator[]`.**  `rdextract` reads its table with `_hash[F]`, which inserts a
default entry if `F` is missing.  `Lookup`/`Store` in `RefineEnter` and `GenNode`
do the same, so a decision that is read but was never made shows up as
`DefaultEntry` (`pD`, cost 0, not refined).

**Exorcism.**  A cell number stands for a `Cube*`; `cube`, `ID`, `lits`, `qcost` and
`fMark` are its fields, `list` is `s_List`, `free` is `s_CubesFree` (a stack, so
`UndoRecentChanges` takes back the cell freed last, whatever it is).  A step is
one scan of the list: `CheckForCloseCubes` up to its return or its recursive call.
`ScanMerge` (distance 1), `ScanCancel` (distance 0) and `ScanKeep` (neither) are its
ways out; all of them write the pairs seen before into the queues, and only
`ScanKeep` moves the insert position over them (`NewRangeAdd`).  The data of a cube
is a function from input positions and one output position to sets; the bitwise
XOR of the code is the symmetric difference.  `Rule` generates the ExorLink cube
table, `GroupRules` is the table of groups.  `LinkPair`, `ProbeCube`, `ProbeMissed`, `ProbeRejected`,
`ProbeGained`, `GroupMissed`, `GroupUndone`, `GroupGained`, `InsertCube`, `AcceptGroup`, `NextGroup`,
`TakeLastGroup`, `RestorePair` are the branches of `IterativelyApplyExorLink2/3/4`, which
differ in when a gain is enough and what is marked; `BeginPass`, `EndPass`, `GoDeep`,
`EndIteration`, `Finish` are the script.  The program's assertions are guards, so an
assertion that could fail shows as a deadlock.  `saved` is a history variable for
the refinement.

**dcextract and dcmin.**  An activation of `DivideConquerRecur` that waits for a half is
a record with the half and the number of cubes before it.  The input divided by
is chosen freely, as the code's choice depends on AIG sizes.  bddextract enters as
the constant `Extracted(_)`: any cube list that realises the part and mentions only
its inputs (assumed by `ExtractedAssumption`; `ExtractCorrect` and `BelowTrail` of the
proofs are the reason).  exorcism enters as `MyExorcism`: any list of the same
function, not longer, without close cubes (proved of `Exorcism`: `ResultCorrect` and
`NoClosePairsCorrect`), or the null pointer for more than `CubesMax` cubes.

**xorbidec.**  The solver is external: `Unsat` says what the formula means under given
assumptions, and `SeedUnsat` lets it name any unsatisfiable set of them in any
order.  An index and a length that shrink together are modelled as in the code
(`i`, `conf`).

**Mutants.**  Operators commented `mutant:` are not part of the model.  Each is a
plausible bug in the definition that follows it (a missing reset, an off-by-one,
a swapped order); substituting it must break the property `PROJECT.json` lists
for it, which shows that the property depends on the code.

## 3. Runs

| Run | Instance | Shows |
|---|---|---|
| `psdkro` | N = 3, the 8 symmetric functions that are false at 0, every expansion at every node, also at variables the function does not depend on | types, `MintermLedger`, `EsopRealisesRoot`, `TrailMatchesStack`, `NoCubeTwice`, `WalkEnds` |
| `bddextract` | N = 3, all 256 functions | `LookupFinds`, `MemoClosed`, `EsopIsMinimal`, `ImplementsPsdkro`, `ExtractEnds` |
| `rdextract` | N = 5, the constants, 18 functions of three variables, two functions of five; levels 0..2, bounds 1, 3, 5, refine on and off | `OnlyConstantsDefaulted`, `RefineFindsEntry`, `FullBoundIsExact`, `CostCoversCubes`, `CostsNeverRise`, `RefineReachesChildren`, `ImplementsPsdkro`, `ExtractEnds` |
| `isfextract` | N = 4, five functions, 511 care functions, with and without `-n` | `MemoAgreesOnCare`, `CombinesDifferent`, `FullCareIsExact`, `ExtractEnds`; without `-n` also `LookupFinds`, `EsopAgreesOnCare`, `CostIsCubeCount`, `ImplementsPsdkro` |
| `isfextract_naive_miss` | N = 4, two functions, care functions of four minterms, only `-n` | **violated**: `NaiveLookupFinds` |
| `isfextract_naive_wrong` | the same | **violated**: `NaiveEsopAgreesOnCare` |
| `isfextract_dc` | as `isfextract` without `-n` | **violated**: `EsopRespectsDontCares` |
| `exorcism` | 3 inputs, 2 outputs, covers of up to 6 cubes, quality and cost options | `CellsAccounted`, `CoverLedger`, `TriedInVain`, `NoClosePairs`, `LiteralsCounted`, `ImplementsEsopCover`, `SearchEnds` |
| `exorcism_marks` | the same | **violated**: `MarkedCubesAreFar` |
| `exorcism_overflow` | the 32 even minterms of 6 inputs, the program's own constants | **violated**: `RoomForPairs` |
| `dcflow` | N = 3, two functions, 0, 1 or 3 divisions, groups of 2 and 4 cubes, -1 and 2 iterations | `DivideLedger`, `GroupsLedger` |
| `xorbidec` | N = 4, nine functions, every core in every order | `HalvesXor`, `ProperPartition` |

*Bounds.*  The models have no counters to cap: everything is bounded by `N`, the
number of inputs, and the roots and care functions chosen.  A cube of three
variables already has all nestings of expansions, and trails of length 0 to 3.
The bounds of rdextract are below, at and above the BDD sizes that three
variables reach (1 to 6 nodes), so that runs with only `partialExpand`, only
`fullExpand` and a mixture all occur; level 0 is the value that the test for
level 1 never meets.  The run has five variables because out-of-date costs do not
survive to the end of a run below five; two of its functions are ones for which
they do.  The faults of `isfextract -n` do not occur for any function and care
function of three variables, hence four there.

In `exorcism` three inputs and an output position make distances up to 4, so all
three ExorLinks run.  `CubePairFactor` is larger and `LastID` smaller than in the
program, so that with few cubes the queues fill and wrap, and IDs are reused
while old pairs wait; 33 additional cubes is the program's number, of which
ExorLink-4 needs 32.  `nCubesMax` admits all covers but one, which is refused.  In
`dcflow` a group of four exceeds what the modelled exorcism takes (`CubesMax` = 3), so
the null pointer occurs; a negative number of iterations, which the command
does not refuse, copies the file; bddextract may return any ESOP of up to three
cubes.  In `xorbidec` four inputs are the fewest for which a core can be minimised
to different partitions in different orders and both sides have two inputs.

*Fairness.*  The commands run to completion in one process, so the only
assumption is that the process is scheduled: weak fairness of the whole next
step.  In `RdExtract` and `IsfExtract` the same condition is written as "done
infinitely often or infinitely many steps", because Next is enabled in every
state (the deadlock check of these runs shows it) and evaluating ENABLED of the
heavy actions is slow; so it is in `Exorcism`.  `CHECK_DEADLOCK FALSE` is given where the model stops at
the end of the command.  A lookup of `isfextract` that misses ends it (`Missed`):
the assertion aborts, or, without assertions, the behaviour is undefined.

### What does not hold

Two properties one would expect of `refine` are false, each only from six
variables on, so they are not stated.  "After refine the walk only meets refined
entries": `fullExpand` marks its result refined although a child it keeps may have
been stored by `partialExpand` before; `refine` stops there.  "Refine never replaces a
decision by one that emits more cubes": the costs it compares may be out of
date in both directions of the comparison, and a decision whose memoised cost is
lower may emit more.  What does hold, and is checked instead, is that the stored
costs bound the cubes from above at every moment (`CostCoversCubes`) and never rise
(`CostsNeverRise`).

### Disagreements found

* **`isfextract -n` can fail its own assertion** (`ext/isfExtract.cpp:154`).  When one
  half of the care set is empty, `firstPassNaive` continues with `firstPass`
  (lines 56, 62), which stores the third child under `C0` and `C1`; the second pass
  stays naive and looks it up under `C0 OR C1`.
* **`isfextract -n` can write a wrong ESOP**, for the same reason: if that pair was
  stored by another part of the search, the lookup hits, but the result stored
  there is not the one that was combined, and the ESOP differs from the
  function inside the care set.  The counterexample is a function of two
  minterms of four variables, cared about on four.
* **Care set, not don't-care set.**  `README.md:101` says the second output is the
  don't-care set; the code uses it as the care set.
* **ExorLink-4 skips cubes it should check again.**  The comment at
  `exor/exorLink.c:372` says that a cube checked without success need not be checked
  in other groups, for ExorLink-2 and -3 only.  `IterativelyApplyExorLink4` marks and
  skips them too (`exor/exorList.c:561-583`).  The check was made against a list into
  which another cube of the group had been merged; once that is undone, the
  marked cube may be close to a cube of the list.  The result stays right, a gain
  is missed.
* **A full queue of pairs overwrites itself.**  `fEmpty` is set when the queues are
  allocated and never cleared, so the test for a full queue
  (`exor/exorList.c:971`) always finds room, and the assertion after it is never
  reached.  Pairs are lost, silently.  The result stays right; `exorcism` checks all
  of its properties with queues that overflow.

## 4. Proofs

All theorems hold for every number of variables `N`, every set of roots and, in
`PsdkroProofs`, every choice of expansions.  The type invariants of `Psdkro`, `BddExtract`,
`XorBidec` and `DcExtract` are proved and not run.  Assumptions: `N \in Nat` and
`Roots \subseteq Fns`; those of exorcism are named with its proofs.

`PsdkroProofs`:

* `TypeCorrect`, `TrailCorrect`: inductive together (`TypeStep`, `TrailStep`).
* `LedgerCorrect`: `MintermLedger` is the strengthening that makes the result
  inductive.  "The cubes XOR to the root" is only true at the end; during the
  walk a minterm is in the root exactly if an odd number of three kinds of things
  contain it: emitted cubes, second children still awaited by open
  activations, and the function being visited, each below the literals of its
  path.  There is one lemma per action; `Expansion` is the only fact about the three
  expansions, `PathIsTrail` ties the literals of the path to the emitted cube.
* `EsopCorrect`: at the end nothing is awaited, so the ledger is the claim.
* `CubesDistinct`: by `CubesApart`: each emitted cube differs from the current path
  at an activation that is in its second half.
* `BelowTrail` (a lemma): the function being visited does not depend on any
  variable of the trail.  With `TopVarProperties` (a function that is not constant
  depends on some variable, proved by a minimal pair of minterms) it shows that
  the top variable is new.

`PsdkroProofs`, what the searches count and the walk emits:

* `BottomUp`: what holds for the constants, and for a function if it holds for its three
  children, holds for every function.  The library's induction theorems cannot be used,
  so this is shown by a counterexample with the last top variable.  `SolutionExists`: a
  recursion over children has a solution, from which `OptCost` is what its definition says.
* `DecisionIsLeast`: keeping the cheapest two of three children attains the least cost,
  whichever of two equal ones is preferred.
* `CostLedger`: for any cost function that splits at the expansions the walk meets, the
  cubes emitted, the cost of the function being visited and the costs of the second
  children still awaited always add up to the cost of the root.

`BddExtractProofs`:

* `ExtractTypeCorrect`, `Refinement` (`Spec => ImplementsPsdkro`), and from it
  `ExtractCorrect`: the ESOP of bddextract realises its function.
* `MemoClosedCorrect`, `LookupCorrect`: the invariant is `LookupInv`: every
  activation of `fullExpand` is at the child that its caller waits for (`Chain`),
  the children before that one are known, so a function is stored only when all
  its children are; the walk then only ever sees known functions.
* `MinimalCorrect`: `LeastInv` says that every entry and every cost read is the least one;
  then the ledger of `PsdkroProofs` is kept for `OptCost`.

`RdExtractProofs` (also assumes that levels and bounds are natural numbers):

* `RdTypeCorrect`: types; `RdInv` adds to them the invariant of the trail, `SearchInv` and
  `GenInv`, and is inductive.
* `SearchInv`: of the table, that both children a decision keeps are known and together
  cost no more than the cost stored (`EntryOK`); of the call stack, that each
  activation works on the child its caller waits for, that the functions it works on are free
  of the variables above, so that none is met twice (`NotAgain`) although `refine` keeps
  an iterator and entries change below it, and that only `refine` calls `refine`; of
  an activation, what it has read so far, which may be out of date but never too low
  (`CostsOK`).
* `Evolves`: no step forgets a function, makes it dearer or takes back its
  `refined` mark.  `CostsCorrect` and `ReachesCorrect` follow; `DecideNoDearer` is the step
  that matters, refine's decision from three costs, two of them read earlier.
* `Padded`: a lookup with `operator[]` inserts nothing but constants, from which
  `DefaultsCorrect`.
* `GenInv`: the walk meets only functions that the searches know; it gives
  `Refinement` and `ExtractCorrect`, as for bddextract.
* `CoversCorrect`: what the walk would emit by the decisions stored is the solution of a
  recursion over children, and `EntryOK` bounds it bottom-up.  `CubesWithinCostCorrect`
  carries that solution along the walk as the cost of the ledger: the lookups of
  `genPSDKRO` insert into the table but change no decision.
* `FullBoundCorrect`: with a bound that large no activation but `fullExpand`'s ever waits
  (`FullInv`), so all entries are least and marked refined, and refine returns at once.

`IsfExtractProofs` (also assumes that care functions are functions):

* `IsfTypeCorrect`, `MemoCorrect`, `CombinesCorrect`: both variants of the first pass.  The heart is
  `GoodResult`, what a call for F under C owes its caller: a function that agrees with F on
  C, depends on no earlier variable, and costs 0 exactly if it is 0, as it must if F is 0
  where it is cared about.  `NegativeResult`, `PositiveResult` and `ShannonResult` show that the
  three expansions of results that are owed are owed again; `ChosenDiffer`, that two equal
  results would cost 0 somewhere and the expansion not be the cheapest.  `SearchInv` is the
  induction: every entry of the table is owed (`TableOK`), each activation works on
  the call the one before waits for, further down than all before, with results that
  are owed and can be found again (`ChainUpTo`).
* `ClosedOK`: what firstPass stores for a pair is put together from what it stored for
  exactly the pairs that the second pass will visit.  firstPassNaive gives no such
  fact, and this is where `-n` fails.
* `LookupCorrect`, `IsfRefinement`, `EsopCorrectOnCare`: without `-n`.  `W` is the module of proofs about
  `Psdkro` under the refinement mapping, so `GenInv` carries its invariant (`W!GInv`) along the walk:
  the cubes XOR to the function chosen for the root, which agrees with the root on the
  care set.  A skipped variable leaves the mapped walk where it is, because the
  pair and the one it is replaced by have the same result.
* `CostIsCubeCountCorrect`: `CostsOK` is the ledger of `PsdkroProofs` with the costs of the pairs on
  the walk's stack: what is emitted and what the open calls still owe is the cost of the
  root's pair.  `ClosedOK` gives the step: a pair costs what the two pairs cost that its
  decision leads to.
* `FullCareCorrect`: with nothing left open the three halves of a pair have nothing open
  either (`FullHalves`), the XOR of the results is the XOR of the functions (`XorResults`), and
  the cheapest of three least prices is the least price (`CheapestIsLeast`).  `Least` is part of
  what a call owes its caller, so `SearchInv` carries it, for both variants.
* `FullCareRight`: the invariant of the second pass is stated for the runs that are
  `Followed`, without `-n` or with everything cared about.  In those the walk visits only
  stored pairs, so what fails with `-n` needs a don't-care.

`XorBidecProofs`:

* `TypeCorrect`, `HalvesCorrect`, `ProperCorrect`.  The inductive invariant `Inv` says, besides
  the types, that the core is unsatisfiable in every loop over it (`CoreOK`), that the
  partition read off so far puts an input into XC if both controls are in
  the core, leaves XB out if only alpha is missing, and so on (`PartitionOK`), and that
  the best partition makes the formula unsatisfiable and has both sides
  (`BestOK`).
* `SatisfiedMonotone`: tying more inputs never makes the formula satisfiable.  So the
  core may be extended to the partition.
* `Decomposes`: if no X, X', X'', X''' tied by the partition satisfy the formula, then
  f = f[XB := 0] XOR f[XA := 0] XOR f[XA, XB := 0]; the four copies are
  instantiated with a minterm and its three restrictions.
* That both sides have an input is proved from the seed (neither control of the two
  seed inputs ties them) and the balancing.

`DcFlowProofs`:

* `DivideTypeCorrect`: types, and every open division found no more cubes in the list
  than there are now (`BeforeInList`), so the range it will mark is in the list.
* `DivideLedgerCorrect`: the ledger of the recursion.  `Balanced` is `DivideLedger` with the state
  as parameters; there is one lemma per action.  `MarkedCubes` says what writing a
  literal into the cubes of a half does to the minterms they contain, `OddShift` that
  a set split in two has the XOR of the parities.  bddextract enters only by
  `ExtractedAssumption`.
* `FileCorrect`: at the end no division is open, so the ledger is the claim.

`DcFlowProofs`, of dcmin:

* `MinimizeTypeCorrect`, `GroupsLedgerCorrect`.  `Keeps` says that one ESOP may take the place of
  another (same parity at every minterm, not longer); `ResultFacts` gets it from what
  exorcism promises, `FlattenKeeps` carries it from one group to the join of all,
  `GroupsFacts` shows that cutting and joining again gives the same list for every group
  size, `TextOfLits` that reading and writing a cube are inverse.  Joins are defined by
  recursion on the list; the inductions are made by hand, as the least number
  at which a claim fails (`Upwards`).
* `FlowCorrect`: with `FileCorrect`, the file that dcmin writes is an ESOP of the output
  that dcextract started from.

`ExorcismScanProofs` and `ExorcismProofs` (for every number of inputs and outputs, every starting
cover, quality and cost option).  `ExorcismAssumption` names what the sizes must satisfy:
`LastID` and `CubePairFactor` are positive, and `CubePairFactor` is at most the square of
`AdditionalCubes` (in the program 20 and 33), so that the queues have at least one place; nothing
is assumed of how many cubes or pairs fit, or of how soon IDs are used again.

* `GroupSwap`: the tables.  A point meets the cube made by a rule in a column exactly as it
  meets the side of the pair that the rule names (`Side`); `Groups2`, `Groups3` and `Groups4` are then
  propositional facts about the 2, 6 and 24 groups, and `Columns` brings them to the
  positions where a pair differs, whatever they are.
* `InductiveInvariant`: the five invariants of the run are not inductive, and IInv ties
  them together.  `PlacesInv` says of every cell whether it is in the list, free or
  in hand, and which cells of the running ExorLink still are (`Held`): a cell that was merged or
  inserted has left the hand.  `PhaseInv` says what `link` and `chk` know of each other at each `pc`.
  `QueueInv` is why a pair whose IDs still match is a pair of cubes in use: every place
  between a queue's ends was written, or all of them were, and no written place has
  an ID of 0; without it `ExorLinkCubeIteratorStart` could link a cell that was never used, and
  it holds although a full queue overwrites itself.
* `LedgerInv` is `CoverLedger`; `ParCancel`, `ParMerge` and `GroupSwap` are the three ways in which the
  code exchanges cubes.  `VainInv` says what a group that was not touched may rely on: that the
  list, and with the pair also its function, is as it was.
* `UndoInv` is the part that is hard to see in the code: as long as a group has gained
  exactly one cube, taking back the cell freed last and changing `p` back would
  lead to a list for which `VainInv` holds.  A merge establishes it, checks that find nothing
  keep it (`UndoFrame`), a second gain ends it, and `UndoStep` uses it.  `TriedInVain` and
  `LiteralsCounted` follow.
* `ApartInv` is `NoClosePairs`.  A check that ends without a hit has seen the whole list; a pair
  given back was far from it before (`Vain`); for the last group of an ExorLink-2, which is inserted
  unchecked, `TwoInv` keeps that both of its cubes were checked against the list that is
  there now, and the two are at distance 2 from each other.
* `SizeInv` counts: how many cubes the list owes, and what was gained, is never more than what was
  saved.  The refinement needs it at the end of an ExorLink (`EndedMapped`).
* `ImplementsEsopCoverCorrect`: a step from outside (`Stays`, `Grows`, `Shrinks`) leaves the abstract state
  alone, is a `Read`, or is an `Exchange`.  The steps that are not stutters are the last step of a
  check that adds a cube (`AddedMapped`) and the three ends of an ExorLink (`EndedMapped`).
* `ResultCorrect`: at the end all cubes are read and nothing is owed: the list is an ESOP of
  the function given, of no more cubes.

Only model-checked: termination and all liveness, which need fairness and so are out of the
prover's reach.  Every safety invariant that a passing run checks has a theorem.

## 5. Plan

Done: all modules of section 2 and the proofs above.

Left: reference counts of the nodes that the three managers hold, with garbage
collection at every operation.

## 6. Not modelled

The drivers around the managers (global BDDs, printing, reading AIGs), the
commented-out ZDD and exact variants, and the components marked `not_modelled` in
`PROJECT.json` with their reasons.  Reference counting: the models take a function
to be its own address, so a node that dies too early cannot be seen.  The command
layer: straight-line code whose hazards (who deletes the network, one file for
all outputs) are listed and are visible by reading.  exorcism's file formats,
statistics and time measurement.  The SAT solver, CUDD and the AIG package are
vendored.  `easy/` and the rest of ABC are vendored third-party code, which is by far
the most of the repository: no model here claims anything about it.  The benchmark
generators are one-shot programs.
