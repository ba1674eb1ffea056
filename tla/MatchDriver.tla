----------------------------- MODULE MatchDriver -----------------------------
(***************************************************************************)
(* runEGraphMatchDriver (lib/EGraph/Pattern.cpp): rounds of matching.  A   *)
(* round shows every live candidate to every pattern, then commits the     *)
(* transactions that matched, then rebuilds; the rebuild enqueues all      *)
(* candidates again, under new generations.                                *)
(*                                                                         *)
(* The worklist is a set: the order of the block is left open.  Patterns   *)
(* read the graph and write only their transaction.                        *)
(***************************************************************************)
EXTENDS Transaction

CONSTANTS
  Patterns,                  \* the patterns, by benefit
  Rewrites(_, _, _, _),      \* what pattern p may record for a root; {}: no match
  Folds(_, _, _),            \* what tryFoldCandidate may record for a root
  MaxIterations,             \* EGraphMatchConfig::maxIterations, 0: no limit
  MaxCandidatesPerEClass,    \* likewise
  ClientCalls                \* calls of unionValueTuples a client may make before

ASSUME DriverConstantsOK ==
  /\ Patterns \in Seq({Patterns[i] : i \in DOMAIN Patterns})
  /\ MaxIterations \in Nat
  /\ MaxCandidatesPerEClass \in Nat
  /\ \A P \in ClientCalls :
       \E calls \in [1..MaxPairs -> Symbol \X Symbol] : P = {calls[i] : i \in 1..MaxPairs}

\* A body is a block, which lists finitely many operations and candidates.
ASSUME BodiesFinite ==
  \A g \in Graphs : IsFiniteSet(g.defined) /\ \A s \in Symbol : IsFiniteSet(g.terms[s])

VARIABLES
  mode,          \* where the driver is
  worklist,      \* worklist from worklistIndex on
  pending,       \* pendingCommits
  interned,      \* scratchResultValues of the transaction being committed
  batchChanged,  \* changedInRound
  iterations,    \* EGraphMatchStats::iterations
  enqueued,      \* enqueuedByEClass
  limitReached,  \* EGraphMatchStats::limitReached
  skippedStale   \* whether EGraphMatchStats::skippedStaleRefs is not 0

stats      == <<iterations, enqueued, limitReached, skippedStale>>
driverVars == <<mode, worklist, pending, interned, batchChanged, stats>>
allVars    == <<vars, generation, driverVars>>

Returned == mode \in {"ready", "done", "failed"}

DriverInit ==
  /\ Init
  /\ generation = 1
  /\ mode = "ready"
  /\ worklist = {} /\ pending = <<>> /\ interned = <<>> /\ batchChanged = FALSE
  /\ iterations = 0 /\ enqueued = [s \in Symbol |-> 0]
  /\ limitReached = FALSE /\ skippedStale = FALSE

(***************************************************************************)
(* enqueueRefs: of the refs of one class, no more than the cap leaves room *)
(* for in this run of the driver.                                          *)
(***************************************************************************)
OfClass(refs, s) == {r \in refs : Leader[r.owner] = s}

\* Mutation of Room: what was enqueued in earlier rounds is forgotten.
RoomPerRound(refs, counts, s) ==
  LET n == Cardinality(OfClass(refs, s))
  IN  IF n <= MaxCandidatesPerEClass THEN n ELSE MaxCandidatesPerEClass

Room(refs, counts, s) ==
  LET n == Cardinality(OfClass(refs, s))
      room == MaxCandidatesPerEClass - counts[s]
  IN  IF n <= room THEN n ELSE IF room <= 0 THEN 0 ELSE room

EnqueueRefs(refs, counts) ==
  IF MaxCandidatesPerEClass = 0
  THEN worklist' = refs /\ enqueued' = counts
  ELSE \E W \in SUBSET refs :
         /\ \A s \in Symbol : Cardinality(OfClass(W, s)) = Room(refs, counts, s)
         /\ worklist' = W
         /\ enqueued' = [s \in Symbol |-> counts[s] + Cardinality(OfClass(W, s))]

\* newCandidateRoots of a rebuild are all live refs, so the parents add none.
EnqueueAll(counts) ==
  /\ EnqueueRefs(LiveRefs, counts)
  /\ mode' = IF worklist' = {} THEN "done" ELSE "dispatch"

-----------------------------------------------------------------------------
\* What clients do before they call the driver.
Client ==
  /\ Returned
  /\ \/ \E P \in ClientCalls : UnionValueTuples(P)
     \/ \E p \in work : UnionLeaderSymbols(p)
  /\ UNCHANGED <<generation, driverVars>>

\* Mutation of Start: whether the graph is clean is not asked.
StartDirty ==
  /\ Returned /\ pc = "idle"
  /\ pending' = <<>> /\ interned' = <<>> /\ batchChanged' = FALSE
  /\ iterations' = 0 /\ limitReached' = FALSE /\ skippedStale' = FALSE
  /\ EnqueueAll([s \in Symbol |-> 0])
  /\ UNCHANGED <<vars, generation>>

\* A graph that is not clean is rebuilt before the first dispatch.
Start ==
  /\ Returned /\ pc = "idle"
  /\ pending' = <<>> /\ interned' = <<>> /\ batchChanged' = FALSE
  /\ iterations' = 0 /\ limitReached' = FALSE /\ skippedStale' = FALSE
  /\ IF touched = {}
     THEN /\ EnqueueAll([s \in Symbol |-> 0])
          /\ UNCHANGED <<vars, generation>>
     ELSE /\ RebuildRound
          /\ generation' = generation + 1
          /\ mode' = "rebuild"
          /\ worklist' = {}
          /\ enqueued' = [s \in Symbol |-> 0]

(***************************************************************************)
(* recordRewriteEvent refuses a root that is not live.  A transaction      *)
(* without an event is discarded.                                          *)
(***************************************************************************)
Recorded(found) ==
  {tr \in found : tr.events # <<>> /\ \A e \in DOMAIN tr.events : IsLive(tr.events[e].root)}

\* The k-th of a set of pattern indices.
Nth(M, k) == CHOOSE i \in M : Cardinality({j \in M : j <= i}) = k

(***************************************************************************)
(* What one root may add to pendingCommits: the fold alone when it         *)
(* recorded an event, else one transaction for each pattern that did.      *)
(***************************************************************************)
Offers(root) ==
  LET folds == Recorded(Folds(root, terms, Leader))
      found(i) == Rewrites(Patterns[i], root, terms, Leader)
      silent == {i \in DOMAIN Patterns : found(i) = {} \/ found(i) # Recorded(found(i))}
  IN  IF folds # {}
      THEN {<<tr>> : tr \in folds}
      ELSE UNION {{s \in [1..Cardinality(M) -> UNION {Recorded(found(i)) : i \in M}] :
                     \A k \in DOMAIN s : s[k] \in Recorded(found(Nth(M, k)))} :
                  M \in {N \in SUBSET DOMAIN Patterns : DOMAIN Patterns \ silent \subseteq N}}

(***************************************************************************)
(* One iteration of the loop.  A stale root is skipped, and when it is the *)
(* last one the loop ends without committing what is pending.  Iterations  *)
(* are counted only when they are limited.                                 *)
(***************************************************************************)
Dispatch(root) ==
  /\ mode = "dispatch"
  /\ MaxIterations = 0 \/ iterations < MaxIterations
  /\ worklist' = worklist \ {root}
  /\ iterations' = IF MaxIterations = 0 THEN 0 ELSE iterations + 1
  /\ IF IsLive(root)
     THEN /\ \E choices \in Offers(root) : pending' = pending \o choices
          /\ mode' = IF worklist' = {} THEN "commit" ELSE "dispatch"
          /\ UNCHANGED skippedStale
     ELSE /\ skippedStale' = TRUE
          /\ pending' = IF worklist' = {} THEN <<>> ELSE pending
          /\ mode' = IF worklist' = {} THEN "done" ELSE "dispatch"
  /\ UNCHANGED <<vars, generation, interned, batchChanged, enqueued, limitReached>>

\* Mutation of StopAtLimit: the limit is checked between commits, too.
StopAtLimitBetweenCommits ==
  /\ mode \in {"dispatch", "commit"} /\ pc = "idle"
  /\ MaxIterations # 0 /\ iterations >= MaxIterations
  /\ limitReached' = TRUE
  /\ pending' = <<>>
  /\ mode' = "done"
  /\ UNCHANGED <<vars, generation, worklist, interned, batchChanged, iterations, enqueued, skippedStale>>

\* The iteration limit drops the transactions of the round.
StopAtLimit ==
  /\ mode = "dispatch"
  /\ MaxIterations # 0 /\ iterations >= MaxIterations
  /\ limitReached' = TRUE
  /\ pending' = <<>>
  /\ mode' = "done"
  /\ UNCHANGED <<vars, generation, worklist, interned, batchChanged, iterations, enqueued, skippedStale>>

-----------------------------------------------------------------------------
\* finalizePendingCommits: the transactions are committed one after the other.
Committing == mode = "commit" /\ pc = "idle" /\ pending # <<>>

\* Bound: the events of a transaction fit into one call of unionValueTuples.
EventsFit(tr) == \E n \in 1..MaxPairs : DOMAIN tr.events = 1..n

CommitIntern ==
  /\ Committing
  /\ LET tr == Head(pending) IN
     /\ ValidEvents(tr)
     /\ \E i \in Ready(tr, interned), r \in Symbol :
          /\ tr.ops[i].op \in Op
          /\ InternScratch(ScratchTerm(tr, i, interned), r)
          /\ interned' = [j \in DOMAIN interned \cup {i} |-> IF j = i THEN r ELSE interned[j]]
  /\ UNCHANGED <<generation, mode, worklist, pending, batchChanged, stats>>

\* Mutation of CommitUnion: refs die with every commit that changed the graph.
CommitUnionRefsDie ==
  /\ Committing
  /\ LET tr == Head(pending)
         P  == EventPairs(tr, interned)
     IN  /\ EventsFit(tr)
         /\ Reachable(tr) \subseteq DOMAIN interned
         /\ ~CommitRefused(tr, interned)
         /\ UnionValueTuples(P)
         /\ batchChanged' = (batchChanged \/ Unites(P))
         /\ generation' = IF Unites(P) THEN generation + 1 ELSE generation
  /\ pending' = Tail(pending)
  /\ interned' = <<>>
  /\ UNCHANGED <<mode, worklist, stats>>

CommitUnion ==
  /\ Committing
  /\ LET tr == Head(pending)
         P  == EventPairs(tr, interned)
     IN  /\ EventsFit(tr)
         /\ Reachable(tr) \subseteq DOMAIN interned
         /\ ~CommitRefused(tr, interned)
         /\ UnionValueTuples(P)
         /\ batchChanged' = (batchChanged \/ Unites(P))
  /\ pending' = Tail(pending)
  /\ interned' = <<>>
  /\ UNCHANGED <<generation, mode, worklist, stats>>

\* A commit that fails ends the run; what earlier commits united stays united.
CommitFails ==
  /\ Committing
  /\ CommitRefused(Head(pending), interned)
  /\ mode' = "failed"
  /\ UNCHANGED <<vars, generation, worklist, pending, interned, batchChanged, stats>>

\* The rest of a facade call that the driver made.
Unite ==
  /\ mode = "commit"
  /\ \E p \in work : UnionLeaderSymbols(p)
  /\ UNCHANGED <<generation, driverVars>>

\* Mutation of EndUnchangedBatch: a round that changed nothing is followed by another.
EndUnchangedBatchEnqueues ==
  /\ mode = "commit" /\ pc = "idle" /\ pending = <<>> /\ ~batchChanged
  /\ EnqueueAll(enqueued)
  /\ UNCHANGED <<vars, generation, pending, interned, batchChanged, iterations, limitReached, skippedStale>>

EndUnchangedBatch ==
  /\ mode = "commit" /\ pc = "idle" /\ pending = <<>> /\ ~batchChanged
  /\ mode' = "done"
  /\ UNCHANGED <<vars, generation, worklist, pending, interned, batchChanged, stats>>

RebuildBatch ==
  /\ mode = "commit" /\ pc = "idle" /\ pending = <<>> /\ batchChanged
  /\ RebuildRound
  /\ generation' = generation + 1
  /\ mode' = "rebuild"
  /\ batchChanged' = FALSE
  /\ UNCHANGED <<worklist, pending, interned, stats>>

Rebuild ==
  /\ mode = "rebuild"
  /\ \/ (\E p \in work : UnionLeaderSymbols(p)) /\ UNCHANGED generation
     \/ pc = "collide" /\ RebuildRound  /\ generation' = generation + 1
     \/ pc = "collide" /\ RebuildFinish /\ generation' = generation + 1
  /\ UNCHANGED driverVars

\* Mutation of NextRound: only classes that have been united are matched again.
NextRoundUnited ==
  /\ mode = "rebuild" /\ pc = "idle"
  /\ EnqueueRefs({r \in LiveRefs : Cardinality(terms[r.owner]) > 1}, enqueued)
  /\ mode' = IF worklist' = {} THEN "done" ELSE "dispatch"
  /\ UNCHANGED <<vars, generation, pending, interned, batchChanged, iterations, limitReached, skippedStale>>

NextRound ==
  /\ mode = "rebuild" /\ pc = "idle"
  /\ EnqueueAll(enqueued)
  /\ UNCHANGED <<vars, generation, pending, interned, batchChanged, iterations, limitReached, skippedStale>>

-----------------------------------------------------------------------------
DriverStep ==
  \/ \E root \in worklist : Dispatch(root)
  \/ StopAtLimit
  \/ CommitIntern
  \/ CommitUnion
  \/ CommitFails
  \/ Unite
  \/ EndUnchangedBatch
  \/ RebuildBatch
  \/ Rebuild
  \/ NextRound

DriverNext == Client \/ Start \/ DriverStep

DriverSpec == DriverInit /\ [][DriverNext]_allVars

\* applyEGraphPatterns runs to its end on the thread of its caller.
FairDriverSpec == DriverSpec /\ WF_allVars(DriverStep)

-----------------------------------------------------------------------------
DriverTypeOK ==
  /\ mode \in {"ready", "dispatch", "commit", "rebuild", "done", "failed"}
  /\ generation \in Nat
  /\ \A r \in worklist : r.owner \in Symbol /\ r.term \in Term /\ r.generation \in Nat
  /\ \A i \in DOMAIN interned : interned[i] \in Symbol
  /\ batchChanged \in BOOLEAN /\ limitReached \in BOOLEAN /\ skippedStale \in BOOLEAN
  /\ iterations \in 0..MaxIterations
  /\ \A s \in Symbol : enqueued[s] \in 0..MaxCandidatesPerEClass

(***************************************************************************)
(* Patterns are shown only live candidates of a clean graph, the assertion *)
(* at the head of the dispatch, and every root of a transaction is still   *)
(* live when its commit begins, though the commits before it interned      *)
(* operations and united classes.                                          *)
(***************************************************************************)
DispatchesLive ==
  /\ mode = "dispatch" => touched = {} /\ \A r \in worklist : IsLive(r)
  /\ mode \in {"dispatch", "commit"} =>
       \A i \in DOMAIN pending : \A e \in DOMAIN pending[i].events :
         IsLive(pending[i].events[e].root)

(***************************************************************************)
(* A run that succeeds leaves a clean graph, also when it stops at the     *)
(* iteration limit: a batch is committed and rebuilt as a whole or not at  *)
(* all.                                                                    *)
(***************************************************************************)
ReturnsClean ==
  [][mode # "done" /\ mode' = "done"
     => pc' = "idle" /\ touched' = {} /\ pending' = <<>>]_allVars

(***************************************************************************)
(* The commits of a batch never spoil each other: a run fails only on a    *)
(* transaction that no graph would accept, because a replacement has       *)
(* another type than its root or intern refuses the operation as such.     *)
(***************************************************************************)
Acceptable(tr) ==
  /\ \A e \in DOMAIN tr.events :
       ValueType(tr, tr.events[e].by) = ResultType[tr.events[e].root.term.op]
  /\ \A i \in Reachable(tr) : tr.ops[i].op \in Op

FailsOnlyByPattern == mode = "failed" => ~Acceptable(Head(pending))

(***************************************************************************)
(* A run that returns without a limit is saturated: whatever a fold, or a  *)
(* pattern on a root that does not fold, still matches is already in the   *)
(* graph, with the replacement in the class of its root.                   *)
(***************************************************************************)
Holds(tr) ==
  \E found \in [Reachable(tr) -> Symbol] :
    /\ \A i \in Reachable(tr) :
         LET key == Canon(Leader, ScratchTerm(tr, i, found))
         IN  key \in DOMAIN hashcons /\ found[i] = hashcons[key]
    /\ \A e \in DOMAIN tr.events :
         Leader[Resolve(tr.events[e].by, found)] = Leader[tr.events[e].root.owner]

IsSaturated ==
  \A root \in LiveRefs : \A choices \in Offers(root) :
    \A i \in DOMAIN choices : Holds(choices[i])

Saturates ==
  [][mode # "done" /\ mode' = "done" /\ ~limitReached'
     => IsSaturated]_allVars

\* The driver calls the facade as any client may: its steps are steps of EGraph.
UsesFacade == Spec

(***************************************************************************)
(* A run comes to an end, with patterns that saturate: every round that    *)
(* does not end it has united two classes.                                 *)
(***************************************************************************)
RunReturns == ~Returned ~> Returned
=============================================================================
