----------------------------- MODULE EGraphIndex -----------------------------
(***************************************************************************)
(* EGraphIndex (lib/EGraph/EGraph.cpp): the numbered occurrences of the    *)
(* operation candidates, the lists by which they are found, and the        *)
(* handles, EOpRefBase, that clients keep across unions and rebuilds.      *)
(*                                                                         *)
(* The index moves with the facade: every action here is an action of      *)
(* EGraph and what it does to the index.  An occurrence is known to a      *)
(* client by its place and its generation only; serial, the number of its  *)
(* issue without wrap-around, and issued are there for the properties.     *)
(***************************************************************************)
EXTENDS EGraph, Sequences

CONSTANTS
  Listed(_),   \* candidates <<e-class, term>> in the order of the block
  Bits,        \* width of EOpRefBase::generation, an unsigned
  MaxHeld,     \* bound: handles a client keeps
  MaxIssued    \* bound: no call begins once so many occurrences were issued

\* The values of a generation.
Generations == 2^Bits

\* The last conjunct follows from the first, but by induction.
ASSUME WidthsOK ==
  /\ Bits \in Nat \ {0} /\ MaxHeld \in Nat /\ MaxIssued \in Nat
  /\ Generations \in Nat \ {0, 1}

Candidates(candidates) == UNION {{<<s, t>> : t \in candidates[s]} : s \in Symbol}

\* First and the walk follow one order, that of the e-classes in the block.
Before(s, t) == First({s, t}) = s

ASSUME BlockOrder == \A S \in SUBSET Symbol : \A s \in S : Before(First(S), s)

\* The walk over the block comes to each candidate once, e-class by e-class.
Visits(listed, C) ==
  /\ listed \in Seq(C)
  /\ \A c \in C : \E i \in DOMAIN listed : listed[i] = c
  /\ \A i, j \in DOMAIN listed : listed[i] = listed[j] => i = j
  /\ \A i, j \in DOMAIN listed : i < j => Before(listed[i][1], listed[j][1])

VARIABLES
  occurrences,   \* EGraphIndex::occurrences
  roots,         \* candidateRootsByResultSymbol: leader -> places
  parents,       \* parentCandidatesByChildSymbol: leader -> places
  entries,       \* structuralHashCons once more: key -> place of the entry's operation
  next,          \* nextGeneration
  issued,        \* history: occurrences issued so far
  held           \* handles some client keeps

indexVars == <<occurrences, roots, parents, entries, next, issued, held>>
allVars   == <<vars, indexVars>>

(***************************************************************************)
(* addOperationOccurrence, for the candidates of a sequence one after the  *)
(* other; n of them were issued before.                                    *)
(***************************************************************************)
Issue(listed, n, generation) ==
  [i \in DOMAIN listed |->
     [owner |-> listed[i][1], term |-> listed[i][2], live |-> TRUE,
      serial |-> n + i,
      generation |-> (generation + i - 1) % Generations]]

\* addCandidateRootForSymbol and addParentCandidate: lists under today's leaders.
RootPlaces(leader, occs) ==
  [s \in Symbol |-> {i \in DOMAIN occs : leader[occs[i].owner] = s}]

ParentPlaces(leader, occs) ==
  [s \in Symbol |-> {i \in DOMAIN occs : \E c \in Uses(occs[i].term) : leader[c] = s}]

(***************************************************************************)
(* addStructuralEntry, for one occurrence after the other: insert keeps    *)
(* the entry that has the key already.                                     *)
(***************************************************************************)
EntryPlaces(leader, occs) ==
  LET key(i) == Canon(leader, occs[i].term)
  IN  [k \in {key(i) : i \in DOMAIN occs} |->
         CHOOSE i \in DOMAIN occs : key(i) = k /\ \A j \in 1..(i-1) : key(j) # k]

\* Mutation of DuplicatesDead: the e-class of the entry is compared.
DuplicatesDeadByClass(leader, occs, table) ==
  [i \in DOMAIN occs |->
     LET entry == occs[table[Canon(leader, occs[i].term)]]
     IN  [occs[i] EXCEPT !.live = leader[entry.owner] = leader[occs[i].owner]]]

(***************************************************************************)
(* markDuplicateOccurrencesDead: an occurrence whose operation is not that *)
(* of the entry of its key dies.  A key without an entry would fail the    *)
(* rebuild; every occurrence has just brought its key to the table.        *)
(***************************************************************************)
DuplicatesDead(leader, occs, table) ==
  [i \in DOMAIN occs |->
     [occs[i] EXCEPT !.live = table[Canon(leader, occs[i].term)] = i]]

\* Mutation of Fresh: clear starts to number from the beginning.
FreshFromOne(listed) == Issue(listed, issued, 1)

Fresh(listed) == Issue(listed, issued, next)

(***************************************************************************)
(* indexEGraph: clear drops everything but nextGeneration, and the walk    *)
(* over the block fills the lists again.                                   *)
(***************************************************************************)
Reindex(leader, listed) ==
  /\ Visits(listed, Candidates(terms'))
  /\ roots' = RootPlaces(leader, Fresh(listed))
  /\ parents' = ParentPlaces(leader, Fresh(listed))
  /\ entries' = EntryPlaces(leader, Fresh(listed))
  /\ issued' = issued + Len(listed)
  /\ next' = (next + Len(listed)) % Generations

-----------------------------------------------------------------------------
IndexInit ==
  /\ Init
  /\ Visits(Listed(Candidates(terms)), Candidates(terms))
  /\ occurrences = Issue(Listed(Candidates(terms)), 0, 1)
  /\ roots = RootPlaces(FindLeader(NoUnions), occurrences)
  /\ parents = ParentPlaces(FindLeader(NoUnions), occurrences)
  /\ entries = EntryPlaces(FindLeader(NoUnions), occurrences)
  /\ issued = Len(occurrences)
  /\ next = (1 + Len(occurrences)) % Generations
  /\ held = {}

\* Unions leave the index alone: its lists keep the leaders of its day.
IndexUnion ==
  /\ \/ ClientUnion
     \/ \E p \in work : UnionLeaderSymbols(p)
  /\ UNCHANGED indexVars

\* The entries with one more; an entry the key has already is kept.
Entered(k, place) ==
  [h \in DOMAIN entries \cup {k} |-> IF h \in DOMAIN entries THEN entries[h] ELSE place]

\* Mutation of IndexIntern: the new occurrence is a parent of nothing.
IndexInternNoParents(t, s) ==
  /\ issued < MaxIssued
  /\ Intern(t, s)
  /\ LET new == Issue(<< <<s, Canon(Leader, t)>> >>, issued, next)
     IN  /\ occurrences' = occurrences \o new
         /\ roots' = [roots EXCEPT ![s] = @ \cup {Len(occurrences) + 1}]
         /\ entries' = Entered(Canon(Leader, t), Len(occurrences) + 1)
  /\ parents' = parents
  /\ issued' = issued + 1
  /\ next' = (next + 1) % Generations
  /\ UNCHANGED held

\* indexSymbolicEClass, called by intern for the e-class it has made.
IndexIntern(t, s) ==
  /\ issued < MaxIssued
  /\ Intern(t, s)
  /\ LET new   == Issue(<< <<s, Canon(Leader, t)>> >>, issued, next)
         place == Len(occurrences) + 1
     IN  /\ occurrences' = occurrences \o new
         /\ roots' = [roots EXCEPT ![s] = @ \cup {place}]
         /\ parents' = [c \in Symbol |->
              IF \E u \in Uses(t) : Leader[u] = c THEN parents[c] \cup {place} ELSE parents[c]]
         /\ entries' = Entered(Canon(Leader, t), place)
  /\ issued' = issued + 1
  /\ next' = (next + 1) % Generations
  /\ UNCHANGED held

IndexRound ==
  /\ pc = "idle" => issued < MaxIssued
  /\ RebuildRound
  /\ LET listed == Listed(Candidates(terms'))
     IN  Reindex(Leader, listed) /\ occurrences' = Fresh(listed)
  /\ UNCHANGED held

\* The tail of rebuild indexes once more and marks the duplicates.
IndexFinish ==
  /\ RebuildFinish
  /\ LET listed == Listed(Candidates(terms'))
     IN  /\ Reindex(Leader, listed)
         /\ occurrences' = DuplicatesDead(Leader, Fresh(listed), entries')
  /\ UNCHANGED held

\* EGraphIndex::lookup finds it, and it is live.
IsLivePlace(i) == i \in DOMAIN occurrences /\ occurrences[i].live

(***************************************************************************)
(* Handles.  A client gets them for live occurrences (getOpRefs,           *)
(* lookupOpRef, getCandidateRoots, getParentCandidates) and keeps them.    *)
(***************************************************************************)
RefTo(i) ==
  [id |-> i, generation |-> occurrences[i].generation, serial |-> occurrences[i].serial]

OpRefs == {RefTo(i) : i \in {j \in DOMAIN occurrences : IsLivePlace(j)}}

Hold ==
  /\ pc = "idle"
  /\ Cardinality(held) < MaxHeld
  /\ \E ref \in OpRefs : held' = held \cup {ref}
  /\ UNCHANGED <<vars, occurrences, roots, parents, entries, next, issued>>

\* isLive.
IsLiveRef(ref) ==
  /\ IsLivePlace(ref.id)
  /\ occurrences[ref.id].generation = ref.generation

\* getCandidateRoots(EValue): the list of the leader, without the dead.
CandidateRoots(s) == {i \in roots[Leader[s]] : IsLivePlace(i)}

\* getParentCandidates(EValue).
ParentCandidates(s) == {i \in parents[Leader[s]] : IsLivePlace(i)}

IndexNext ==
  \/ IndexUnion
  \/ \E t \in Term, s \in Symbol : IndexIntern(t, s)
  \/ IndexRound
  \/ IndexFinish
  \/ Hold

IndexSpec == IndexInit /\ [][IndexNext]_allVars

-----------------------------------------------------------------------------
(***************************************************************************)
(* A handle never comes to denote another occurrence than the one it was   *)
(* made for, whatever was united, interned and rebuilt since, until the    *)
(* counter has gone all the way round: "refs from before a rebuild stay    *)
(* stale" for as many occurrences as there are generations.                *)
(***************************************************************************)
HandlesExact ==
  \A ref \in held :
    IsLiveRef(ref) => \/ occurrences[ref.id].serial = ref.serial
                      \/ issued - ref.serial >= Generations

\* The occurrence i is a candidate of the IR.
IsCandidate(i) == occurrences[i].term \in terms[occurrences[i].owner]

\* Each root is a candidate of the class that was asked for, each parent has
\* an operand in it.
LookupsSound ==
  \A s \in defined :
    /\ \A i \in CandidateRoots(s) :
         IsCandidate(i) /\ Leader[occurrences[i].owner] = Leader[s]
    /\ \A i \in ParentCandidates(s) :
         IsCandidate(i) /\ \E c \in Uses(occurrences[i].term) : Leader[c] = Leader[s]

\* Every candidate of the class is found, or one of the class with its key, and
\* so is every candidate with an operand in it.
LookupsComplete ==
  LET finds(places, c) ==
        \E i \in places : /\ Leader[occurrences[i].owner] = Leader[c[1]]
                          /\ Canon(Leader, occurrences[i].term) = Canon(Leader, c[2])
  IN  \A s \in defined, c \in Candidates(terms) :
        /\ Leader[c[1]] = Leader[s] => finds(CandidateRoots(s), c)
        /\ (\E u \in Uses(c[2]) : Leader[u] = Leader[s]) => finds(ParentCandidates(s), c)

(***************************************************************************)
(* What lookups return is in the IR and right even between a union and the *)
(* rebuild, and on a clean graph they miss no node: a duplicate is dead    *)
(* only where another occurrence stands for it.  (On a touched graph the   *)
(* lists of the absorbed leader are not looked at: patterns are never run  *)
(* then.)                                                                  *)
(***************************************************************************)
LookupsExact ==
  /\ pc \in {"idle", "union"} => LookupsSound
  /\ pc = "idle" /\ touched = {} => LookupsComplete

(***************************************************************************)
(* The table and the lookups agree on which occurrence of a key lives.     *)
(* Whatever was united since, the operation of an entry is live, is a      *)
(* candidate of the e-class that intern hands out for the key, and is      *)
(* congruent to the key.  And on a settled clean graph the occurrences     *)
(* that are found by e-class or by operand are those of the table, none    *)
(* more: twins remain in classes that an input leads, and the lists hold   *)
(* both.                                                                   *)
(***************************************************************************)
EntriesAgree ==
  LET L == Leader IN
  /\ \A k \in DOMAIN hashcons :
       LET i == entries[k]
       IN  /\ IsLivePlace(i)
           /\ occurrences[i].owner = hashcons[k]
           /\ Canon(L, occurrences[i].term) = Canon(L, k)
  /\ pc = "idle" /\ touched = {} /\ Settled =>
       \A s \in defined :
         /\ CandidateRoots(s) = {entries[k] : k \in {h \in DOMAIN hashcons : L[hashcons[h]] = L[s]}}
         /\ ParentCandidates(s) =
              {entries[k] : k \in {h \in DOMAIN hashcons : \E u \in Uses(h) : L[u] = L[s]}}
=============================================================================
