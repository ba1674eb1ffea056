----------------------------- MODULE BlockRewrite -----------------------------
(***************************************************************************)
(* applyEGraphPatternsAndExtract on a block, from end to end: the block is *)
(* imported, sound clients rewrite the e-graph, and a selection of a       *)
(* backend is made into operations of the block (lib/EGraph/Extract.cpp).  *)
(* Nothing is assumed of a selection but that it takes, for some names,    *)
(* one candidate each: backends are modelled in Extract.                   *)
(*                                                                         *)
(* A candidate is <<"op", term>> or <<"alias", name>>.                     *)
(***************************************************************************)
EXTENDS EGraphMeaning, Block

CONSTANTS
  Blocks,      \* the blocks that may be rewritten
  Callers(_),  \* the entry points clients of a block use: "state", "info"
  Asked(_),    \* the roots they may ask an entry point for, a name for each slot
  MaxId        \* bound: operations in the block at one time

VARIABLES
  block,
  computed,  \* history: what the operations of the block compute
  held,      \* the EGraphExtractInfo of the last selection
  call,      \* who is materializing: "none", "state" or "info"
  oldOps,    \* the operations of the block when the call began
  active,    \* activeSymbols
  values,    \* materializedValues: name -> value of the block
  extracted  \* GraphMatchState::extracted

frame == <<oldOps, active, values>>
rewriteVars == <<meaningVars, block, computed, held, call, frame, extracted>>

-----------------------------------------------------------------------------
\* importBlockToMatchGraph, step by step in BlockImport: the names claimed for
\* the arguments, then for the operations, and the e-graph they make.
Named(b) ==
  LET stem(k) == IF k <= b.args THEN ArgName(k) ELSE b.ops[k - b.args].stem
      count == b.args + Len(b.ops)
      claims[k \in 0..count] ==
        IF k = 0 THEN [reserved |-> {}, suffixes |-> [s \in {stem(j) : j \in 1..count} |-> 0],
                       names |-> <<>>]
        ELSE LET before == claims[k-1]
                 claim == Claim(stem(k), before.reserved, before.suffixes)
             IN  [reserved |-> before.reserved \cup {claim.name}, suffixes |-> claim.suffixes,
                  names |-> Append(before.names, claim.name)]
  IN  claims[count].names

NameOf(b, value) ==
  IF value[1] = "arg" THEN Named(b)[value[2]]
  ELSE Named(b)[b.args + CHOOSE k \in DOMAIN b.ops : b.ops[k].id = value[2]]

Imported(b) ==
  LET term(o) == [op |-> o.op, args |-> [i \in DOMAIN o.operands |-> NameOf(b, o.operands[i])]]
      made(s) == {k \in DOMAIN b.ops : NameOf(b, <<"op", b.ops[k].id>>) = s}
  IN  [defined |-> {Named(b)[k] : k \in DOMAIN Named(b)},
       terms   |-> [s \in Symbol |-> {term(b.ops[k]) : k \in made(s)}],
       aliases |-> [s \in Symbol |-> {}],
       targets |-> [i \in DOMAIN b.results |-> NameOf(b, b.results[i])]]

BlockValue == {"arg", "op", "outer"} \X Nat

Stems == {<<>>} \cup UNION {{b.ops[k].stem : k \in DOMAIN b.ops} : b \in Blocks}

Operation ==
  [id : Nat, op : Op, operands : Seq(BlockValue), stem : Stems,
   plain : BOOLEAN, outputs : Nat, escapes : BOOLEAN]

ASSUME BlocksOK ==
  \A b \in Blocks :
    /\ b \in [args : Nat, ops : Seq(Operation), results : [Slot -> BlockValue]]
    /\ IsImportable(b)
    /\ \A i \in 1..b.args : ArgName(i) \in Input /\ NameOf(b, <<"arg", i>>) = ArgName(i)
    /\ \A k \in DOMAIN b.ops : NameOf(b, <<"op", b.ops[k].id>>) \in Symbol
    /\ Imported(b) \in Graphs
    /\ Ids(b) \subseteq 1..MaxId /\ Cardinality(Ids(b)) = Len(b.ops)

-----------------------------------------------------------------------------
NoSelection == [live |-> FALSE, explicit |-> FALSE, roots |-> <<>>, map |-> <<>>]

RewriteInit ==
  /\ block \in Blocks
  /\ MeaningInit
  /\ ir = LET g == Imported(block) IN <<g.defined, g.terms, g.aliases, g.targets>>
  /\ computed = [n \in Ids(block) |-> means[NameOf(block, <<"op", n>>)]]
  /\ held = NoSelection
  /\ call = "none"
  /\ oldOps = <<>> /\ active = <<>> /\ values = <<>>
  /\ extracted = FALSE

(***************************************************************************)
(* Clients rewrite the graph between calls.  Interning adds occurrences to *)
(* the index; a rebuild indexes anew, and no reference taken before lives. *)
(***************************************************************************)
Grow ==
  /\ call = "none"
  /\ \/ SoundUnion
     \/ \E p \in work : UnionLeaderSymbols(p) /\ UNCHANGED means
     \/ \E t \in Term, s \in Symbol : MeaningIntern(t, s)
  /\ UNCHANGED <<block, computed, held, call, frame, extracted>>

Reindex ==
  /\ call = "none"
  /\ RebuildRound \/ RebuildFinish
  /\ held' = [held EXCEPT !.live = FALSE]
  /\ UNCHANGED <<means, block, computed, call, frame, extracted>>

-----------------------------------------------------------------------------
Candidates(s) ==
  {<<"op", t>> : t \in terms[s]} \cup {<<"alias", m>> : m \in aliases[s]}

Selections ==
  LET nonempty == {s \in defined : Candidates(s) # {}}
      among(S) == [S -> UNION {Candidates(s) : s \in S}]
  IN  UNION {{sel \in among(S) : \A s \in S : sel[s] \in Candidates(s)} : S \in SUBSET nonempty}

IsClean == pc = "idle" /\ touched = {}

(***************************************************************************)
(* buildExtractRequest: the roots a client asks for, or the targets of the *)
(* return, are normalized to leaders, which must have the result types.    *)
(***************************************************************************)
RunExtract(explicit, roots, sel) ==
  /\ IsClean
  /\ \A i \in Slot : TypeOf[Leader[roots[i]]] = TypeOf[targets[i]]
  /\ held' = [live |-> TRUE, explicit |-> explicit, map |-> sel,
              roots |-> [i \in Slot |-> Leader[roots[i]]]]

\* extractEGraph(EGraph &, ...) hands the selection to the client.
ExtractInfo(explicit, roots, sel) ==
  /\ "info" \in Callers(block)
  /\ call = "none"
  /\ RunExtract(explicit, roots, sel)
  /\ UNCHANGED <<meaningVars, block, computed, call, frame, extracted>>

Start(how, selection) ==
  /\ call = "none"
  /\ Len(block.ops) + Cardinality(DOMAIN selection.map) <= MaxId
  /\ call' = how
  /\ oldOps' = block.ops /\ active' = <<>> /\ values' = <<>>

\* extractEGraph(GraphMatchState &, ...), up to the materializer.
ExtractIntoBlock(explicit, roots, sel) ==
  /\ "state" \in Callers(block)
  /\ ~extracted
  /\ RunExtract(explicit, roots, sel)
  /\ Start("state", held')
  /\ UNCHANGED <<meaningVars, block, computed, extracted>>

\* Mutation of IsCurrent: liveness is not asked for.
IsCurrentAlways(selection) == TRUE

\* buildSelectionMap: every candidate root is live.
IsCurrent(selection) ==
  \A s \in DOMAIN selection.map : selection.map[s][1] = "op" => selection.live

(***************************************************************************)
(* materializeEGraphExtractInfo, on a selection the client has kept since  *)
(* some extraction, with the arguments of the block as input values.       *)
(***************************************************************************)
MaterializeInfo ==
  /\ held # NoSelection
  /\ IsClean /\ IsCurrent(held)
  /\ Start("info", held)
  /\ UNCHANGED <<meaningVars, block, computed, held, extracted>>

-----------------------------------------------------------------------------
\* run() and the recursion of materializeSymbol, one step at a time.

Top == active[Len(active)]

IsActive(s) == \E i \in DOMAIN active : active[i] = s

MayEnter(s) == ~IsActive(s)

Payloads(candidate) ==
  IF candidate[1] = "alias" THEN <<candidate[2]>> ELSE candidate[2].args

\* The names that are asked for: the roots, or the payloads of the name on top.
Names ==
  IF active = <<>> THEN held.roots
  ELSE IF Top \in DOMAIN held.map THEN Payloads(held.map[Top]) ELSE <<>>

IsMade(i) == Names[i] \in DOMAIN values

AllMade == \A i \in DOMAIN Names : IsMade(i)

\* They are gone through in order, and the next one is the first without a value.
Needed ==
  {Names[i] : i \in {j \in DOMAIN Names : ~IsMade(j) /\ \A k \in DOMAIN Names : k < j => IsMade(k)}}

\* materializeSymbol of a root or a payload that is neither cached nor active.
Enter ==
  /\ call # "none"
  /\ \E s \in Needed : MayEnter(s) /\ active' = Append(active, s)
  /\ UNCHANGED <<meaningVars, block, computed, held, call, oldOps, values, extracted>>

\* The name on top of the stack has its value, and goes.
Return(value) ==
  /\ values' = [s \in DOMAIN values \cup {Top} |-> IF s = Top THEN value ELSE values[s]]
  /\ active' = SubSeq(active, 1, Len(active) - 1)
  /\ UNCHANGED <<meaningVars, held, call, oldOps, extracted>>

\* Mutation of Inputs: the last argument is forgotten.
InputsButLast == {i \in 1..(block.args - 1) : ArgName(i) = Top}

\* inputValueMap, at the name on top.
Inputs == {i \in 1..block.args : ArgName(i) = Top}

MaterializeInput ==
  /\ call # "none" /\ active # <<>> /\ Top \notin DOMAIN held.map
  /\ \E i \in Inputs : Return(<<"arg", i>>)
  /\ UNCHANGED <<block, computed>>

Ready(kind) ==
  /\ call # "none" /\ active # <<>> /\ Top \in DOMAIN held.map
  /\ AllMade
  /\ held.map[Top][1] = kind

\* Mutation of MaterializeAlias: the value is returned but not remembered.
MaterializeAliasUncached ==
  /\ Ready("alias")
  /\ active' = SubSeq(active, 1, Len(active) - 1)
  /\ UNCHANGED <<meaningVars, held, call, oldOps, values, extracted, block, computed>>

MaterializeAlias ==
  /\ Ready("alias")
  /\ Return(values[held.map[Top][2]])
  /\ UNCHANGED <<block, computed>>

ValueOf(value) == IF value[1] = "arg" THEN means[ArgName(value[2])] ELSE computed[value[2]]

IsNextId(n) == n \notin Ids(block) /\ \A m \in 1..(n-1) : m \in Ids(block)

\* Mutation of Operands: the mapping of the first argument serves for all.
OperandsFirst(t) == [i \in 1..Arity[t.op] |-> values[t.args[1]]]

Operands(t) == [i \in 1..Arity[t.op] |-> values[t.args[i]]]

Clone(t, n) ==
  [id |-> n, op |-> t.op, operands |-> Operands(t), stem |-> <<>>,
   plain |-> TRUE, outputs |-> 1, escapes |-> FALSE]

\* The body of the candidate is cloned in front of the terminator.
MaterializeOperation ==
  /\ Ready("op")
  /\ \E n \in 1..MaxId : LET t == held.map[Top][2] IN
       /\ IsNextId(n)
       /\ block' = [block EXCEPT !.ops = Append(@, Clone(t, n))]
       /\ computed' = [m \in DOMAIN computed \cup {n} |->
                         IF m = n
                         THEN Eval(t.op, [i \in 1..Arity[t.op] |-> ValueOf(Operands(t)[i])])
                         ELSE computed[m]]
       /\ Return(<<"op", n>>)

\* The recursion cannot go on: a name depends on itself, or nothing was selected for it.
IsStuck ==
  \/ \E s \in Needed : ~MayEnter(s)
  \/ active # <<>> /\ Top \notin DOMAIN held.map /\ Inputs = {}

\* GraphMatchState keeps no selection; the client of the info API does.
Finish ==
  /\ call' = "none"
  /\ computed' = [n \in Ids(block') |-> computed[n]]
  /\ held' = IF call = "state" THEN NoSelection ELSE held
  /\ oldOps' = <<>> /\ active' = <<>> /\ values' = <<>>

\* Mutation of Rollback: one clone stays.
RollbackButFirst ==
  IF block.ops = oldOps THEN oldOps ELSE SubSeq(block.ops, 1, Len(oldOps) + 1)

\* From the terminator back to the old tail.
Rollback == SubSeq(block.ops, 1, Len(oldOps))

\* Extraction into a block erases the clones; the info API leaves them to its client.
MaterializeFails ==
  /\ call # "none" /\ IsStuck
  /\ block' = IF call = "state" THEN [block EXCEPT !.ops = Rollback] ELSE block
  /\ Finish
  /\ UNCHANGED <<meaningVars, extracted>>

\* Mutation of Rewritten: the first clone is erased with the old operations.
RewrittenLate ==
  [block EXCEPT !.results = [i \in Slot |-> values[held.roots[i]]],
                !.ops = SubSeq(@, Len(oldOps) + 2, Len(@))]

\* Mutation of Rewritten: the operands of the terminator are all the first root.
RewrittenFirst ==
  [block EXCEPT !.results = [i \in Slot |-> values[held.roots[1]]],
                !.ops = SubSeq(@, Len(oldOps) + 1, Len(@))]

\* The terminator takes the values of the roots, and the old operations go.
Rewritten ==
  [block EXCEPT !.results = [i \in Slot |-> values[held.roots[i]]],
                !.ops = SubSeq(@, Len(oldOps) + 1, Len(@))]

MaterializeEnds ==
  /\ call # "none" /\ active = <<>> /\ AllMade
  /\ block' = IF call = "state" THEN Rewritten ELSE block
  /\ extracted' = (extracted \/ call = "state")
  /\ Finish
  /\ UNCHANGED meaningVars

Materializing ==
  \/ Enter
  \/ MaterializeInput
  \/ MaterializeAlias
  \/ MaterializeOperation
  \/ MaterializeFails
  \/ MaterializeEnds

Requests(how) ==
  {<<FALSE, targets>>} \cup {<<TRUE, roots>> : roots \in Asked(how) \cap [Slot -> defined]}

RewriteNext ==
  \/ Grow
  \/ Reindex
  \/ \E r \in Requests("info"), sel \in Selections : ExtractInfo(r[1], r[2], sel)
  \/ \E r \in Requests("state"), sel \in Selections : ExtractIntoBlock(r[1], r[2], sel)
  \/ MaterializeInfo
  \/ Materializing

RewriteSpec == RewriteInit /\ [][RewriteNext]_rewriteVars

\* The materializer is a function that returns.
RewriteFairSpec == RewriteSpec /\ WF_rewriteVars(Materializing)

-----------------------------------------------------------------------------
(***************************************************************************)
(* The block stays one that could be imported, in the middle of a call     *)
(* too: every operand is there before its user, and whatever is erased, by *)
(* a rollback or after a rewrite, has no user left.  The history is what   *)
(* the operations of the block compute.                                    *)
(***************************************************************************)
BlockValid ==
  /\ IsImportable(block)
  /\ Cardinality(Ids(block)) = Len(block.ops)
  /\ computed = Evaluated(block, Eval, [i \in 1..block.args |-> means[ArgName(i)]])

(***************************************************************************)
(* What is cloned is a candidate of the graph now: the operation of a      *)
(* selection that a rebuild has made stale may be gone.  (A stale alias is *)
(* let through.)                                                           *)
(***************************************************************************)
ClonesCurrent ==
  call # "none" =>
    \A s \in DOMAIN held.map : held.map[s][1] = "op" => held.map[s] \in Candidates(s)

(***************************************************************************)
(* A name is made into a value that means what the name means, though the  *)
(* selection may be stale, and unions and rebuilds have passed over it.    *)
(***************************************************************************)
MaterializedSound == \A s \in DOMAIN values : ValueOf(values[s]) = means[s]

(***************************************************************************)
(* Rewriting and extraction keep the results of the block, unless a client *)
(* asks for other roots, which it then gets.                               *)
(***************************************************************************)
ResultValue(i) == ValueOf(block.results[i])

ResultsAsRequested ==
  [][\A i \in Slot :
       ResultValue(i)' = IF extracted' # extracted /\ held.explicit
                         THEN means[held.roots[i]] ELSE ResultValue(i)]_rewriteVars

\* extractEGraph into a block that fails leaves the block as it was.
FailureLeavesBlock ==
  [][call = "state" /\ call' = "none" /\ ~extracted' =>
       block' = [block EXCEPT !.ops = oldOps]]_rewriteVars

(***************************************************************************)
(* The names a selection gives a finite term: those in every set that has  *)
(* the arguments and, with the payloads of a selected candidate, its name. *)
(***************************************************************************)
Arguments == {ArgName(i) : i \in 1..block.args}

Needs(s) == {Payloads(held.map[s])[i] : i \in DOMAIN Payloads(held.map[s])}

IsGroundedBy(C) ==
  /\ Arguments \ DOMAIN held.map \subseteq C
  /\ \A s \in DOMAIN held.map : Needs(s) \subseteq C => s \in C

Grounded(s) == \A C \in SUBSET Symbol : IsGroundedBy(C) => s \in C

\* The materializer gives up only on selections that are no extraction.
FailsOnlyUngrounded ==
  call # "none" /\ IsStuck => \E i \in Slot : ~Grounded(held.roots[i])

\* Every call comes to an end, whatever was selected.
MaterializeReturns == call # "none" ~> call = "none"
=============================================================================
