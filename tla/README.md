# Verification of egraph-mlir

TLA+ models of the e-graph engine under `src/lib/EGraph`, TLC configurations that check
them on small instances, and TLAPS proofs about them for every instance.

## 1. The system and its parts

An `egraph.egraph` operation holds one block: `egraph.input` operations, `egraph.eclass`
operations, and an `egraph.return` of names. An e-class lists *candidates*: an operation
candidate applies one operation to the payloads it references by name, an alias candidate
yields the payload it references. The library turns an ordinary block into such a graph,
lets patterns add candidates and unite classes, and extracts an ordinary block again.

| Part | Code | State | Operations | Hard |
|---|---|---|---|---|
| Union-find | `EGraph.cpp:1091`, `1534` | `symbolicUnionParents` | leader lookup, link | lookup spins on a cycle; a pair may be stale |
| Facade | `EGraph.cpp` | the IR, union map, hash-cons table, `touchedSymbolNames` | `unionValues`, `unionValueTuples`, `intern`, `rebuild`, `indexEGraph` | stale table between union and rebuild; fixed point of rebuild; erasing e-classes; reusing names |
| Index | `EGraphIndex` | occurrences, generations, parent lists, ownership | register, mark dead, lookups | handles that outlive a rebuild; lists keyed by former leaders |
| Verifiers | `IR/EGraphOps.cpp` | none | verify a body | every pass must keep the body acceptable |
| Transaction | `Pattern.cpp:600-1000` | scratch operations, events | build, record, validate, commit, discard | a commit that fails halfway; other transactions and rebuilds in between |
| Match driver | `Pattern.cpp:1019-1250` | worklist, pending transactions, limits | one round of match, commit, rebuild | staleness, batches, limits, saturation, termination |
| Block import | `Pattern.cpp:93-361` | names claimed so far, the e-graph so far | import | stops midway; names that collide |
| Greedy extraction | `GreedyExtract.cpp` | two memos, active lists | `run` | cycles, memoised partial answers, overflow |
| LP extraction | `OrToolsExtract.cpp`, `Z3Extract.cpp` | program nodes | `run` | self-supporting cycles, ties, overflow |
| Materializer | `Extract.cpp` | values made so far, the block | `extractEGraph`, `materializeEGraphExtractInfo` | sharing, order, stale selections, rollback |

They interact by calls on one thread. A client (or the importer) makes a body; an `EGraph`
indexes it; the driver calls patterns, which record in a transaction only; the driver
commits the transactions of a round, each of which calls `intern` and one
`unionValueTuples`, and then calls `rebuild`; the extractors read the clean graph through
the leaders and the hash-cons keys; the materializer clones what they selected. What is hard
here is not threads but order: calls on a graph that is *touched* but not yet rebuilt, a
value computed before an earlier union of the same batch and used after it, handles and
selections kept across rebuilds, and recursion over cyclic graphs.

What makes each part correct:

* union-find: the parent map is a forest, and linking moves one class and nothing else;
* facade: unions and congruence are the only reasons two names become equal, no node or
  result is lost, the verifiers accept the IR throughout, rebuild ends, and ends settled;
  in every algebra, clients that unite equal values only get a graph true to the values;
* index: a handle never comes to denote another occurrence; lookups are right on a touched
  graph and miss nothing on a clean one;
* transactions: a commit succeeds exactly if all it needs is current, then does all of it,
  and otherwise leaves the classes there were alone;
* driver: it uses the facade as a client may, shows patterns live candidates of clean
  graphs only, commits a batch as a whole, ends clean, ends saturated unless limited, ends;
* import: exactly the importable blocks are imported, names are distinct, terms are kept;
* extraction: what is selected is a finite term for each root; one is found if there is one;
  the cost is what is claimed and least where it is claimed;
* materializer: it ends, fails only on selections that are no extraction, leaves the block
  as it was when it fails, and a valid block with the requested results when it does not.

## 2. Modules

| Module | What it is |
|---|---|
| `UnionFind` | leaders as a recursive function over the parent map, the forest condition, the link |
| `EGraph` | the facade: state, one action per call or step of a call, its properties |
| `CongruenceGraph` | abstract specification: classes, nodes, results, and who may unite |
| `EGraphRefinement` | the refinement mapping from `EGraph` to `CongruenceGraph` |
| `EGraphExtractable` | what the facade leaves for extractors to find |
| `EGraphMeaning` | `EGraph` under an interpretation: sound clients, and what the graph then promises |
| `EGraphIndex` | occurrences, lookups and kept handles, composed with `EGraph` |
| `Transaction` | a transaction and what committing it does, over `EGraph` |
| `OpenTransactions` | several transactions open at once, among clients that unite and rebuild |
| `MatchDriver` | the driver, composed with `Transaction` and `EGraph` |
| `Block` | blocks of operations, eligibility, naming, and what their values denote |
| `BlockImport` | the import of a block, step by step |
| `ExtractGraph` | a clean graph as an extractor sees it, and reference definitions of extraction and cost |
| `ExtractCall` | what the backends share: the request, the recursion in progress, the result |
| `GreedyExtract` | greedy extraction, one action per step of its two recursions |
| `LpExtract` | the extractors with an integer program: its construction, its best assignments, and the recursion that assembles one |
| `Extract` | `runExtract`: calls of the backends, one after another, and what they promise |
| `ExtractBlock` | extraction into a block whose operations take the block arguments in another order |
| `BlockRewrite` | a block from import to extraction: `EGraphMeaning`, `Block` and the materializer step by step |
| `*Theorems`, `EGraphCongruence` | the proofs |
| `MC*` | instances for TLC |

### EGraph and the code

`defined`, `terms`, `aliases` and `targets` are the IR; `parent` is `symbolicUnionParents`
as a total function, a missing key being its own parent; `hashcons` is the table of the
index; `touched` is `touchedSymbolNames`; a graph is clean when it is empty. `pc`, `work`
and `changed` are what a call in progress has on its stack.

* `UnionValueTuples(P)` validates and orients all pairs before the first is united, so that
  `UnionLeaderSymbols`, one step per pair, finds pairs chosen before earlier steps. The pairs
  are a set: every order is explored.
* `Intern` is a hash-cons miss. A hit changes nothing and is not an action; nor is a call
  that fails, because the code validates before it writes. The fresh name is any name unknown
  to the block and to the union map, as `makeFreshSymbolName` demands.
* `RebuildRound` is one iteration of the loop of `rebuild` up to the collisions: operands
  and return targets go to leaders, alias candidates keep their names, the index is built
  anew. `RebuildFinish` is the tail: absorb, erase what is dead, index, clear `touched`. A
  rebuild whose root is null fails before it does anything, and is no action.

Abstractions. Candidates of an e-class form a set, because `isDuplicateCandidate` makes a
second equal row redundant. The order of the block matters to one choice, which occurrence
owns a key, and is the constant `First`. A candidate is one operation that takes the block
arguments in order (`ExtractBlock` models other orders). Operand types that `intern` is given are
valid, as the C++ operation it is given is. Bodies in `Graphs` pass the verifiers and hold no
empty e-class; congruent twins are allowed, since an import makes them.

`EGraphMeaning` adds the history `means`, a value for each name, to `EGraph`: a union is
called for names of one value only (`SoundUnion`), and a fresh e-class means what its
operation computes. No action of the library looks at it.

### EGraphIndex and the code

`occurrences` is the vector of the same name, an occurrence being an operation candidate
with its e-class, `live` flag and `generation`; `roots` and `parents` are
`candidateRootsByResultSymbol` and `parentCandidatesByChildSymbol`, whose keys are the leaders
of the moment an occurrence was added; `next` is `nextGeneration`, which `clear` keeps, modulo
`2^Bits`. `entries` is the other half of the hash-cons table: `hashcons` of `EGraph` has the
symbol of an entry, `entries` the place of its operation. `addStructuralEntry` fills it for
one occurrence after the other and keeps the entry that is there (`EntryPlaces`, `Entered`);
`DuplicatesDead` is the comparison of each occurrence with the entry of its key. A walk over
the block is a sequence `Listed(C)` of its candidates, e-class by e-class in the order that
`First` stands for (`Visits`). A handle `held` is `EOpRefBase`, a place and a generation;
`serial` and `issued` count without wrapping and are history. Each action is an action of
`EGraph` and what it does to the index.

`EntriesAgree` says that the table, filled by one operator in the order of the walk, and the
one of the facade, which takes the owner by `First`, name the same e-class; that the operation
of an entry is never dead; and that on a settled clean graph both lookups find the operations
of the table and no twin of them. On a touched graph `LookupsExact` asks for right answers
only, not for all: the lists of an absorbed leader are not looked at until the rebuild, and
the code runs no pattern before it. The overload of `getCandidateRoots` that takes an `EClassOp`,
a list of the live candidates of that one operation without regard to leaders, is not
modelled; greedy extraction reads it on clean graphs, and `ExtractGraph` takes the candidates of
an e-class as given.

### Transactions and the code

`sessions` are the open transactions, their scratch operations and events; `registered` are
the scratch operations in `operationLookup`, of which `clear` drops all. A value is a name of
the graph, a scratch result of this transaction (`scratch`) or another (`other`), or an
`alien` one, a block argument of another graph that `isLegalAliasValue` lets pass. `Begin` to
`Return` is `commit`: validation, one `CommitIntern` per scratch operation, one union call,
and with `rebuildNow` a rebuild; `Blocked` are the operations that `intern` or `resolveValue`
refuses halfway. Between the steps of a client anything may happen to the graph, nothing
between the steps of a commit: one thread. A scratch operation that was built before an index
was cleared has no entry any more and counts as `IllegalExternal`. Client precondition: who
uses the scratch result of another transaction in an event keeps that transaction open until
the commit (`Begin`), since the code would read an erased operation otherwise.

### MatchDriver and the code

`mode` is where `runEGraphMatchDriver` is; `worklist` is the part of the vector not yet
dispatched, as a set; `pending` is `pendingCommits`; `interned` is the map of results of the
transaction being committed; `batchChanged` is `changedInRound`. A commit is a step per
interned operation (`CommitIntern`), one for the union call (`CommitUnion`), and the steps of
that call (`Unite`), or `CommitFails`. Patterns and folds are constants that read the graph
and return transactions, which is all a pattern can do to it. A successful fold suppresses
the patterns of its root, as in the code; `Saturates` therefore asks of a root that folds what
the fold records, and of any other what its patterns record. `generation` is one number per indexing, where the
code numbers each occurrence (`EGraphIndex` does, too); refs are compared for being of the
current index only. Iterations are counted only when they are limited. `Client` lets a caller
unite values before it runs the driver, so that runs start dirty, too. `EventsFit` bounds the
events of a transaction by `MaxPairs`, the bound of a union call.

### Import and the code

A block is a record of operations in order; an operation has what import asks of it: is it
`plain` (pure, without regions, calls and control flow), how many `outputs`, does a result
escape the block. `reserved` and `suffixes` are the two maps of `DeterministicSymbolNamer`; a
name is a stem and the suffixes that follow it, so that stems may look like suffixed names.
`ImportArgument` and `ImportOperation` are one iteration each; a failed import destroys the
temporary module, and the block is never written.

### Extraction and the code

A graph is a record with ordered choices, since order decides ties. `stack` holds a frame per
call of the recursion in progress, `root` is where the loop over the roots is, `info` the
`EGraphExtractInfo` that is filled; `overflowed` is history. `RunExtract` starts a backend
with nothing; any backend may be called any number of times.

* Greedy. `computeBest` and `computeBestPreservingSymbol` are one recursion over keys,
  `<<"leader", s>>` and `<<"raw", s>>`, each with its memo and its active list: an alias is
  followed to the very name it holds, an operand to its leader. A frame is at an operand
  (`child`) of a candidate (`choice`), with the sum so far (`cost`), what is yet to be tried
  (`left`) and the best so far (`best`). `Search` enters a key, `CutCycle` meets an active one,
  `TryChoice` takes the next candidate, `AddChild` adds the cost of an operand or finds that it
  does not fit, `KeepBest` compares, `Memoize` and `GiveUp` are the two returns; failures are
  not remembered, as in the code. `SkipCollected`, `CollectSelected` and `EmitSelected` are
  `collectSelected`, in which both kinds of keys share the lists of symbols.
* Integer programming. `PopulateNode` and `PopulatedNode` are the recursion of `populateNode`,
  `Solve` and `SolveFails` the program. The constraints and the sequence of objectives are
  stated as they are built; the solvers are external and may return any best assignment.
  `AssembleInput`, `Assemble`, `AddCost`, `Assembled` and `AssembledRoot` are the recursion that
  turns an assignment into a result, with the cost of each root's term.

`Materialize` of `ExtractBlock` is the materializer as one recursive operator, for bodies
whose arguments are permuted.

### BlockRewrite and the code

The materializer is modelled as steps: `active` is `activeSymbols`, the stack of the recursion
of `materializeSymbol`; `values` is `materializedValues`; `Enter` is a recursive call,
`MaterializeInput`, `MaterializeAlias` and `MaterializeOperation` its three returns,
`MaterializeFails` and `MaterializeEnds` the two ends of the entry point. `held` is an
`EGraphExtractInfo` that a client keeps, `live` whether the references in it are of the
current index (a rebuild ends that; `EGraphIndex` has the generations in full). `Callers` and
`Asked` say which entry points and which explicit roots the clients of a block use. *Any*
selection of candidates may be handed over, including cyclic and incomplete ones: what
backends select is the business of `Extract`, and nothing here depends on it. The input
values of `materializeEGraphExtractInfo` are the arguments of the block. `computed` is what
the operations of the block compute, as history: `BlockValid` ties it to the reference
`Evaluated`. `Grounded`, the names with a finite term in a selection, is the least set closed
under the selection, as `HasTerm` of `EGraphExtractable` is the least set closed under the
candidates: a definition that neither says how it is computed nor how deep terms are.

## 3. Runs

| Run | Bounds | States | Shows |
|---|---|---|---|
| `unions` | three bodies, 1 name to give, one pair per call | 67,939 | `EClassLeads`, `HashConsSound`, `TargetsExtractable`, `RebuildSettles`, `ImplementsCongruenceGraph`, `CallsReturn` |
| `index` | 3-bit generations, 9 occurrences issued, 1 handle, 2 pairs per call | 159,839 | `Inv`, `HandlesExact`, `LookupsExact`, `EntriesAgree` |
| `tx_two` | two transactions at once, clients in between | 339,098 | `CommitsExactlyCurrent` |
| `tx_one` | one transaction with longer events | 21,939 | `FailureKeepsGraph`, `CommitDoesAll`, `UsesFacade` |
| `driver_saturates` | 3 patterns and a fold, 5 names to give, a graph left dirty or not, no limits | 93,445 | `DispatchesLive`, `Saturates`, `UsesFacade`, `RunReturns` |
| `driver_limits` | 3 patterns and a fold, 2 iterations, 2 candidates per class | 6,386 | `DriverTypeOK`, `FailsOnlyByPattern`, `ReturnsClean` |
| `driver_stale` | the graph of a driver test | violated | `TailBecomesStale` (finding) |
| `import_blocks` | two operations, each flawed or not, and four with colliding stems | 70,142 | `ImportsExactly`, `NamesDistinct`, `TermsKept` |
| `extract_backends` | four families of 3 e-classes, 5,290 graphs, largest cost 5, solver sums up to 4 | 403,535 | `SelectsExtraction`, `RootCostsExact`, `GreedyComplete`, `GreedyCheapest`, `LpComplete`, `LpCheapest`, `LpStable`, `ExtractReturns` |
| `extract_costs` | two graphs with an alias of an e-class | violated | `RootCostsTotal` (finding) |
| `extract_permuted` | bodies with permuted arguments | violated | `OperandsFollowReferences` (finding) |
| `rewrite` | three blocks, a two-valued algebra, 5 operations ever made | 104,410 | `MeaningSound`, `BlockValid`, `MaterializedSound`, `ClonesCurrent`, `FailsOnlyUngrounded`, `ResultsAsRequested`, `FailureLeavesBlock`, `MaterializeReturns` |

Why the bounds suffice.

* `unions`: `Chain` has two levels, so that a rebuild has a second round, and inputs under
  both, so that orientation matters; `Aliased` has two types and an alias candidate; `Twins`
  repeats an operation, as an import may. One fresh name, because the hazard is a name given
  twice.
* `index`: eight generations and nine occurrences let the counter go round once, which is the
  case that `HandlesExact` excludes, and no more than that. Two pairs are the smallest call in
  which an earlier pair moves the leader of a later one.
* `tx_two`: two transactions are enough for one to be in the way of another; they are
  symmetric, with one operation and one event each. `tx_one` has two of both: events that
  reach scratch operations below scratch operations, and one that `intern` refuses.
* Driver: in `driver_saturates` the patterns feed each other: `expand` creates what `project`
  matches, and `involution` unites an e-class with an input, over three rounds. On the body
  `Tagged` the root folds, in every round again, and `expand`, which matches it too, is never
  tried on it: the run saturates because the fold leaves an `h` that `expand` finds. In
  `driver_limits` the limit of 2 iterations can fall at the end of a batch and inside it.
* `import_blocks`: every failure of an operation can come first or second. Stems may be what
  another stem is with a suffix, once or twice, or the name of an argument, in every order of
  four operations.
* Extraction: the families are all graphs of a shape, `Cyclic` with cycles through operands and
  aliases, `Towers` where sums of three costs overflow, `Shared` with ties and free operations,
  `Aliased` with an alias of an e-class that is searched while its leader is. An input may have
  an e-class as its leader, with the alias that rebuild makes. The largest cost and solver sum are small so that terms of three operations pass them;
  2^64-1 and 2^63-1 differ from 5 and 4 in nothing the code looks at.
* `rewrite`: `Twice` and `Sum` are extracted into, `Kept` is a block with a selection that a
  client keeps. Two values are the least an algebra needs to tell a wrong value from a right
  one. `MaxId` bounds the operations the block ever had: two old ones, and as many clones as
  there are names for e-classes.

Deadlock is checked in `unions`, `index`, `rewrite`, `extract_*` and the driver runs. It is not
in `import_blocks`, `tx_one` and `tx_two`: an import ends, and transactions are committed or
dropped once. A backend may be called again whenever it has returned, so that a deadlock of
an extraction run would be a call that is stuck.

For each property of a run there is a mutation of the code that violates it there; the
mutated operators stand in the modules, before the definition they change, and are used by
nothing.

### Fairness

`FairSpec` assumes that a call in progress goes on (`Running`), never that a client calls.
`FairDriverSpec` assumes that `runEGraphMatchDriver` goes on once called, and `RewriteFairSpec`
that the materializer does. All are calls on one thread without blocking. `CallsReturn` and
`MaterializeReturns` need no assumption about clients or selections; `RunReturns` holds for
patterns that saturate, as those of the run do: nothing makes a driver without limits end on
patterns that grow the graph for ever. `ExtractSpec` assumes that a backend, once called, takes
its next step (`GreedyStep \/ LpStep`), never that one is called; `ExtractReturns` needs nothing
else, whatever the cycles of the graph. That a solver returns is part of the assumption.

## 4. Proofs

All theorems hold for every value of the constants that satisfies the named assumptions,
which TLC evaluates in every run: `ConstantsOK` and `FirstOK` (bodies verify, `First` picks a
member), `BlockOrder` (it picks the first in one order), `SymbolNotEmpty`, `DriverConstantsOK`, `BodiesFinite` (a body has finitely many e-classes
and candidates), `BlocksWellFormed` (an operation is in a block once, stems are sequences),
`ArgNamesDistinct` (the names `arg0`, `arg1`, ... that arguments ask for differ), `WidthsOK` (there
are at least two generations), `EvalOK` (operations compute values), `TransactionsOK` (a scratch
operation that `intern` accepts has the operands and the type its name says), `BlocksOK`
(blocks are importable, and their imports are bodies), `NamesFinite` and `GraphsClean` (a
graph has finitely many names, its roots and operands are leaders, an alias has one target and
no cost), `BackendsKnown`, and `MaxCostOK` and `MaxSolverCostOK` (the bounds are naturals).

* `EGraphTheorems`: in a forest the recursive function `FindLeader` is the root reached
  (`LeaderIsRoot`), and a link of two roots keeps a forest and moves exactly the class of the
  member (`LinkMovesOneClass`). All later proofs reason about leaders through these.
  `Safety` proves `Inv == TypeOK /\ UnionForest /\ LeadersSound /\
  PendingPairsValid /\ IRVerifies`. None of the five is inductive alone. A leader is
  well-typed because pending pairs are valid; a pending pair stays valid because leaders keep
  op and type; a reference is not left dangling because `IsDead` looks at every use *after*
  absorption; and collisions are valid pairs because the IR verifies. One lemma per action.
  `EClassAlwaysLeads` assumes `MaxPairs = 1`, which is `unionValues`; without it it is false
  (section 5).
* `EGraphCongruence`: `RebuildAlwaysSettles` rests on `RoundInv`: in a round that has united
  nothing, every candidate is canonical and in the table, and its class is that of its entry
  or the pair still waits in `work`. When `work` is empty the collisions are gone, and the
  absorption of `RebuildFinish` then keeps what it moved. `SettledStays` covers `intern` on a
  clean graph. `HashConsAlwaysSound` goes through every action because the table is stale
  in between: congruence of an entry is preserved by any later link.
  `FacadeImplementsCongruence` is the refinement of `CongruenceGraph`: initial states map to
  initial states, and each action maps to one of its steps or to a stutter. The links of a
  rebuild map to merges of congruent nodes by `CollisionsCongruent` (a collision that waits is
  of two congruent nodes, and stays so), and the end of a rebuild to a closed partition by
  `RoundInv`. `TargetsStayExtractable` takes as hypothesis that the targets of the body have
  terms. Its invariant speaks of sets of leaders that contain the inputs and are closed under
  the candidates, taken with leaders on both sides: these only grow coarser with a union and
  do not change when rebuild moves candidates, whereas the terms that an extractor sees do
  change, and come back, between a union and a rebuild.
* `EGraphIndexTheorems`: `HandlesAlwaysExact`, from `HandleInv`: generations are the serial
  numbers modulo the width, and the occurrence at a place is never older than a handle to
  it. Two serial numbers with one generation then are equal or a whole turn apart. TLAPS knows
  nothing of remainders but their definition; the first lemmas say what is needed.
  `LookupsAlwaysExact` adds `PlacesSound` and `PlacesFull`: the lists were filled under the
  leaders of the last index and classes have only grown since, so they are right on a touched
  graph; a graph that nothing touched has the leaders of its index, so they are complete. The
  second half is where duplicates matter: a dead occurrence is stood for by a live one with
  its key. `EntriesAlwaysAgree` is about that one. `EntriesSound` says that the two halves of
  the table have the same keys, and that an entry's operation is live, of the e-class of the
  entry, and has the entry's key under today's leaders: a union keeps this because keys that
  agree do so under coarser leaders, an `intern` because it enters new keys only. `OwnEntries`,
  that a live occurrence is the entry of its own key, holds where nothing is touched. The two
  meet at the rebuild: by `BlockOrder` the walk comes to the owner, which `First` picks, before
  any other that has its key, and `IndexFinish` kills the others.
* `TransactionTheorems`: transactions as they are in `OpenTransactions`, any number at once.
  `SessionsHold` says of each that what it recorded was at hand in the graph or its own, and
  that what it holds of an older index is known to be stale. `CommitHolds` says of the commit
  under way that the verdict on its soundness, taken when it began, is still right after each
  operation it interned, so that `CommitsAlwaysExactlyCurrent` and `FailureAlwaysKeepsGraph`
  follow. For `CommitAlwaysDoesAll`, `UnionHolds` says that each event is united or that a
  pair that waits will unite its two classes, whichever pairs were linked before it
  (`WillUnite`), and that the rebuild a commit asks for settles.
* `BlockImportTheorems`: `NamesAlwaysDistinct` needs that the namer finds a free suffix, by
  counting: the candidates up to the number of reserved names are one more than these. Then
  `ImportInv` says that the values named so far are exactly those before the place the import
  has reached, so that an operand without a name is one that is defined later, and
  `ImportsAlwaysExactly` follows. `TermsAlwaysKept` compares two recursive functions, the terms
  of the block and those of its e-graph: by `CopyInv` the k-th e-class is the k-th operation
  applied to the names of its operands, and the least place at which the two could differ
  leads to a contradiction.
* `MatchDriverTheorems`: `DriverUsesFacade` shows that every driver step is a step of `Spec`
  or leaves the graph alone, so all theorems above hold during a run (`DriverKeepsIR`,
  `DriverRebuildsSettle`). `ReturnsCleanAlways` needs `BatchInv`: while a batch commits and is
  not marked as changed, nothing is touched, and each pair that still waits has one
  leader on both sides already, so that uniting it is void. `DispatchesLiveAlways` adds
  `LiveInv`: the refs of worklist and pending transactions are of the current index, and
  interning only adds candidates, so none dies before its commit. `DriverTypeAlways` counts: the
  worklist is made of finitely many candidates, and those of a class are enqueued up to the
  cap. `FailsAlwaysByPattern` has a hypothesis about patterns, which are constants here:
  `PatternsUseGraph`, that what they offer for a live root replaces it with a value of the
  graph or of their own transaction, and that operations have the type their name says.
  `recordEquivalence` refuses other values, `replaceOp` leaves them to `validateEvents`, where
  they fail the run, and operations are made by their builders; TLC finds the hypothesis true
  of the patterns of both driver runs. `PendingInv` then keeps it until the commit: commits
  before it only add names and move leaders, which do not change types.
  `RunsAlwaysSaturate` assumes in addition that the cap on candidates is off, and that
  patterns decide (`PatternsDecide`): what they record for a root is a function of the graph,
  where the model may leave a choice open, and operations have the operands their name says;
  TLC finds this true of the patterns of `driver_saturates`. `SaturationInv` says that while a
  batch has united nothing, each root that was shown waits or holds. The point to prove is that
  a batch that ends unchanged has *interned* nothing new, or else there would be candidates no
  pattern was shown: new e-classes are operands of new ones only (`Grown`), what is interned is
  reached from a replacement, so one replacement would be new and its union a change.
* `BlockRewriteTheorems`: in every algebra, if clients unite equal values only, the leaders, the
  candidates, the table and the waiting pairs respect the values of names
  (`MeaningAlwaysSound`). The invariant adds `KeysInBlock`: without it `intern` could give a
  name that a stale key still holds. No step changes the value of a return target
  (`ResultsAlwaysKeepValue`). With sound clients, any selection, and any client that keeps one,
  what is materialized means what its name means, and the block has the results it had.
  `RewriteInv` rests on `Known`: a name that the block or the union map knows is never given to
  another value, so a selection that is kept stays *true* even where it is not current, and a
  clone of it is at worst of an operation that was there before. `ClonesAlwaysCurrent`
  is what the check of `buildSelectionMap`, that
  every reference is live, then gives. `FailureAlwaysLeavesBlock` is the
  rollback. `BlockAlwaysValid` goes by `ValidInv`: operations use earlier ones, and clones
  (`ClonesApart`) use arguments and clones only, so that the erasure of the old operations
  or of the clones leaves a block that stands alone. `FailsAlwaysUngrounded` goes by
  `StackInv`: the stack starts at a root, and each name on it is a payload of the one below,
  so that a cycle or a missing selection at its top is something the root needs.
* `ExtractTheorems`: all backends, on every finite clean graph, cyclic or not, after any
  sequence of calls. TLAPS has no induction over data here, so each fact about terms, sums and
  orders is a least counterexample, a largest set or a fact about all closed sets.
  * `ExtractSelects` follows from `ExtractInv`: each frame is about the operand at which the
    one below stands, and what is remembered or emitted has operands remembered or emitted
    before it. What is emitted therefore has a finite term, whatever was searched.
  * `ExtractCosts`: by `SearchCosts` keys on the stack differ, so that a key is remembered
    once and the sums of frames below remain exact; `CollectOnce` and `LpCosts` carry the sums to
    what is emitted. Aliases of e-classes are excluded (section 5).
  * `GreedyExtractComplete`: the hard part is that a search that cuts a cycle drops a
    candidate which, with other symbols active, has a term. By `SearchTries`, as long as an
    e-class has no term yet, what it dropped has none *without the symbols being computed*
    (`SolvableWithout`), and that is enough: an e-class with a term has one in which it does not
    occur below itself, and the roots are searched with nothing active. Collecting meets no cycle
    because by `SearchOrder` the memo has none (`IsFounded`), and by `CollectOnce` emits a name
    once.
  * `GreedyExtractCheapest`: on a graph without cycles no candidate with a priced term
    that is cheaper than the best so far was dropped. This holds after an overflow, too: what
    did not fit would exceed the largest cost.
  * `LpExtractComplete`: `populateNode` visits all that choices need. Of the selections with
    ranks, take one that ranks the most e-classes; what it leaves out has no term, so the
    constraints are feasible exactly if the roots have terms. Of finitely many assignments one
    is best, and `LpOutcome` says that its ranks fall along the stack of the assembly, which
    therefore meets no cycle and no unselected name.
  * `LpExtractCheapest` and `LpExtractStable`: an extraction of the roots is an assignment that
    satisfies the constraints, so the best one costs no more; the assembled part satisfies
    them itself, with no more nodes, so it is all of the best one; and the objectives
    after the first three tell any two assignments apart.

Model-checked only. Liveness under fairness is out of reach of TLAPS: `CallsReturn`,
`RunReturns`, `MaterializeReturns` and `ExtractReturns`. `OperandsFollowReferences`,
`RootCostsTotal` and `TailBecomesStale` are violated. Every other property of the runs is a
theorem.

## 5. What was learned

* **Finding, `driver_stale`.** A comment of `egraph-worklist-driver.mlir` expects a stale
  candidate in the worklist. The driver enqueues only right after an indexing and rebuilds
  only when the worklist is empty, so that the branch for stale roots is dead for patterns
  that write only to their transaction.
* **Finding, `extract_permuted`.** `materializeChoice` maps block argument `i` to operand `i`
  of the operation. The verifier accepts a body `(%0, %1) { op %1, %0 }`, the structural key
  resolves operands by argument number, and the materialized operation gets its operands
  exchanged. Bodies made by import and by `intern` are not affected, hand-written ones are.
* **Finding, `extract_costs`.** An alias of an e-class `b` is searched under its own name, with a
  memo and an active list apart from those of the leaders. Met while an operand `a` of `b` is
  being computed, the alias remembers `b` without the candidates that need `a`; the search of
  `b` itself finds one of them. `collectSelected` emits `b` once, whichever came first, and the
  cost reported for the roots is that of the other. `Extract.h` calls it the total cost of the
  root. Rebuild makes aliases of inputs only, hand-written bodies may have others.
* `EClassLeads` is false for calls with two pairs, `(E, I1), (I2, I1)`: orientation is
  decided per pair, before the first link, and an input may end up leading an e-class, whose
  candidates rebuild then leaves where they are. `unions` has one pair per call and checks it,
  `index` has two and omits it.
* An alias of an e-class that is absorbed later is neither resolved nor given the
  candidates: the name stays, empty. A target that needs it cannot be extracted. The guard
  `StaleAliases = {}` of `TargetsExtractable` is exactly this case; without it TLC finds
  `union(a, b)` on the body `Aliased` within seconds.
* Greedy extraction may fail although a term exists when an e-class has an alias of another:
  the memo of leaders and that of raw names may hold different choices for one name, each
  with a term, and `collectSelected`, which follows both, goes round in a circle, or emits the
  name as an operation and as an alias, which `buildSelectionMap` refuses. Hence the premise
  `AliasesOfInputs` of `GreedyComplete`. Its result is the cheapest term of each root on
  acyclic graphs (`GreedyCheapest`), not on cyclic ones.
* CP-SAT extraction fails when the sum of *all* costs in reach exceeds int64, although the
  cheapest selection would fit; Z3 has no such bound. Either fails when the cost of a root's
  term, in which shared operations count repeatedly, exceeds uint64, although the program
  counts them once. `LpComplete` states this.
* A kept selection of aliases and inputs only has no reference that could be found dead, and is
  materialized after any rebuild. It is still true (`MaterializedSound`), though no longer what
  a backend would select today. `ClonesCurrent` therefore speaks of operations.
* A scratch operation that was created before a rebuild (or any other `indexEGraph`) of the
  graph is refused by every later event, also in transactions that had nothing to do with
  it. The driver is not affected, since it rebuilds when no transaction is open.
* A transaction that uses the scratch result of another may outlive it; the code then reads
  an erased operation. The model states this as a precondition of clients and does not go past
  it. The driver never mixes transactions.

## 6. Not modelled, and the plan

Not modelled: assembly syntax, printing and registration; tools, examples and test passes
(clients of the library); the interior of the solvers; memory ownership; statistics; which
operations fold (`Folds` is a constant of the driver); the shapes of regions and blocks that the
verifiers demand; the walk of `runBlockMatches` over several blocks; and the union map keyed by
values (`findLeaderKey`, `getUnionKeyPair`, `unionLeaderKeyPairs`), which nothing calls.

Left of the plan:

1. Proofs: the converse of `FailsAlwaysUngrounded`, joined with `ExtractSelects`, would be a
   statement about extraction and materialization as a whole; it needs one module for both
   graphs, that of `EGraph` and the ordered one of `Extract`.
2. Region shapes of the verifiers, so that what `ConstantsOK` says of bodies becomes a
   theorem about them.
3. A walk over several blocks, with a failure in one of them.
