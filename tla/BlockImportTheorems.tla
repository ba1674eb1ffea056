------------------------- MODULE BlockImportTheorems -------------------------
(***************************************************************************)
(* Import takes the importable blocks and gives distinct names, for every  *)
(* set of blocks.                                                          *)
(***************************************************************************)
EXTENDS BlockImport, FiniteSetTheorems, WellFoundedInduction, TLAPS

-----------------------------------------------------------------------------
\* Sequences and numbers.

\* The order on the naturals, as a relation.
Less == {p \in Nat \X Nat : p[1] < p[2]}

\* A set of numbers that is not empty has a least one.
LEMMA LeastNatural ==
  ASSUME NEW T \in SUBSET Nat, T # {}
  PROVE  \E n \in T : \A m \in T : ~(m < n)
PROOF
  <1>1. IsWellFoundedOn(Less, Nat)
    BY NatLessThanWellFounded DEF OpToRel, Less
  <1>2. PICK x \in T : \A y \in T : ~(<<y, x>> \in Less)
    BY <1>1, WFMin, Zenon
  <1> QED BY <1>2 DEF Less

\* A sequence of no given type is one of some type.
LEMMA SequenceType ==
  ASSUME NEW s, IsSequence(s), NEW e
  PROVE  s \in Seq({s[i] : i \in 1..Len(s)} \cup {e})
PROOF
  <1> DEFINE T == {s[i] : i \in 1..Len(s)} \cup {e}
  <1>1. [i \in 1..Len(s) |-> s[i]] \in Seq(T)
    BY DEF IsSequence
  <1> QED BY <1>1 DEF IsSequence

\* What appending an element to a sequence gives.
LEMMA AppendSequence ==
  ASSUME NEW s, IsSequence(s), NEW e
  PROVE  /\ IsSequence(Append(s, e))
         /\ Len(Append(s, e)) = Len(s) + 1
         /\ \A k \in 1..Len(s) : Append(s, e)[k] = s[k]
         /\ Append(s, e)[Len(s) + 1] = e
PROOF
  <1> DEFINE T == {s[i] : i \in 1..Len(s)} \cup {e}
  <1>1. s \in Seq(T) /\ e \in T
    BY SequenceType
  <1> HIDE DEF T
  <1>2. Append(s, e) \in Seq(T) /\ Len(s) \in Nat
    BY <1>1
  <1>3. IsSequence(Append(s, e))
    <2> DEFINE t == Append(s, e)
    <2>1. t \in Seq(T)
      BY <1>2
    <2> HIDE DEF t
    <2>2. t = [i \in 1..Len(t) |-> t[i]] /\ Len(t) \in Nat
      BY <2>1
    <2> QED BY <2>2 DEF IsSequence, t
  <1> QED BY <1>1, <1>3

\* The empty sequence is one.
LEMMA EmptySequence == IsSequence(<<>>) /\ Len(<<>>) = 0 /\ DOMAIN <<>> = {}
PROOF BY DEF IsSequence

-----------------------------------------------------------------------------
\* Naming.

(***************************************************************************)
(* More suffixes are tried than names are taken, and suffixed names differ *)
(* when the suffixes do: one of them is free.                              *)
(***************************************************************************)
LEMMA FreeSuffix ==
  ASSUME NEW stem, IsSequence(stem), NEW taken, IsFiniteSet(taken), NEW lo \in Nat
  PROVE  \E n \in lo..(lo + Cardinality(taken)) : Append(stem, n) \notin taken
PROOF
  <1> DEFINE c == Cardinality(taken)
             tried == lo..(lo + c)
             named == [n \in tried |-> Append(stem, n)]
  <1>1. c \in Nat
    BY FS_CardinalityType
  <1>2. IsFiniteSet(tried) /\ Cardinality(tried) = c + 1
    BY <1>1, FS_Interval
  <1>3. \A m, n \in tried : Append(stem, m) = Append(stem, n) => m = n
    BY AppendSequence DEF IsSequence
  <1>4. SUFFICES ASSUME \A n \in tried : Append(stem, n) \in taken PROVE FALSE
    OBVIOUS
  <1>5. named \in [tried -> taken]
    BY <1>4
  <1>6. \E m, n \in tried : m # n /\ named[m] = named[n]
    <2> HIDE DEF named, tried, c
    <2>1. Cardinality(taken) < Cardinality(tried)
      BY <1>1, <1>2 DEF c
    <2> QED BY <1>2, <1>5, <2>1, FS_PigeonHole
  <1> QED BY <1>3, <1>6

\* DeterministicSymbolNamer::claim returns a name that is not taken.
LEMMA ClaimIsNew ==
  ASSUME NEW stem, IsSequence(stem), NEW taken, IsFiniteSet(taken),
         NEW S, NEW counts \in [S -> Nat], stem \in S
  PROVE  /\ Claim(stem, taken, counts).name \notin taken
         /\ Claim(stem, taken, counts).suffixes \in [S -> Nat]
PROOF
  <1> DEFINE free(n) == Append(stem, n) \notin taken
             tried == counts[stem]..(counts[stem] + Cardinality(taken))
             first(n) == free(n) /\ \A m \in counts[stem]..(n-1) : ~free(m)
             least == CHOOSE n \in tried : first(n)
  <1>1. counts[stem] \in Nat /\ Cardinality(taken) \in Nat
    BY FS_CardinalityType
  <1>2. \E n \in tried : free(n)
    BY <1>1, FreeSuffix
  <1>3. \E n \in tried : first(n)
    <2> DEFINE T == {n \in tried : free(n)}
    <2>1. T \in SUBSET Nat /\ T # {}
      BY <1>1, <1>2
    <2>2. PICK n \in T : \A m \in T : ~(m < n)
      BY <2>1, LeastNatural
    <2>3. \A m \in counts[stem]..(n-1) : m \in tried /\ m < n
      BY <1>1, <2>2
    <2> QED BY <2>2, <2>3
  <1>4. least \in tried /\ first(least)
    BY <1>3
  <1>5. CASE stem \notin taken
    BY <1>5 DEF Claim
  <1>6. CASE stem \in taken
    <2>1. Claim(stem, taken, counts) =
            [name |-> Append(stem, least), suffixes |-> [counts EXCEPT ![stem] = least + 1]]
      BY <1>6 DEF Claim
    <2>2. least + 1 \in Nat
      BY <1>1, <1>4
    <2> HIDE DEF least
    <2> QED BY <1>4, <2>1, <2>2
  <1> QED BY <1>5, <1>6

-----------------------------------------------------------------------------
(***************************************************************************)
(* The invariant.  After n arguments and k operations, the values that     *)
(* have names are the arguments so far and the results of the operations   *)
(* so far; operations begin when the arguments are through.                *)
(***************************************************************************)
Reached(n, k) == {<<"arg", i>> : i \in 1..n} \cup {<<"op", block.ops[j].id>> : j \in 1..k}

IsProgress(n) ==
  /\ n \in 0..block.args
  /\ eclasses # <<>> => n = block.args
  /\ DOMAIN symbols = Reached(n, Len(eclasses))

NamesInv ==
  /\ IsFiniteSet(reserved)
  /\ suffixes \in [Stems(block) -> Nat]
  /\ \A v \in DOMAIN symbols : symbols[v] \in reserved
  /\ \A v, w \in DOMAIN symbols : symbols[v] = symbols[w] => v = w

EClassesInv ==
  /\ IsSequence(eclasses)
  /\ Len(eclasses) <= Len(block.ops)
  /\ \A k \in 1..Len(eclasses) :
       /\ eclasses[k].name = symbols[<<"op", block.ops[k].id>>]
       /\ block.ops[k].outputs = 1
       /\ \A i \in DOMAIN block.ops[k].operands : block.ops[k].operands[i] \in Before(block, k)

ImportInv ==
  /\ block \in Blocks
  /\ stage \in {"import", "done"} => IsEligible(block)
  /\ \E n \in Nat : IsProgress(n)
  /\ NamesInv
  /\ EClassesInv
  /\ ImportsExactly

\* The parts of the block are well-formed.
LEMMA BlockFacts ==
  ASSUME block \in Blocks
  PROVE  /\ block.args \in Nat
         /\ Len(block.ops) \in Nat /\ DOMAIN block.ops = 1..Len(block.ops)
         /\ \A j, k \in 1..Len(block.ops) : block.ops[j].id = block.ops[k].id => j = k
         /\ \A s \in Stems(block) : IsSequence(s)
PROOF
  <1>1. IsSequence(block.ops)
    BY BlocksWellFormed
  <1>2. Len(block.ops) \in Nat /\ DOMAIN block.ops = 1..Len(block.ops)
    BY <1>1, Zenon DEF IsSequence
  <1> QED BY <1>2, BlocksWellFormed

\* The count of named arguments is the number of arguments that have a name.
LEMMA ArgumentCount ==
  ASSUME block \in Blocks, NEW n \in Nat, IsProgress(n)
  PROVE  NextArgument = n + 1
PROOF
  <1> DEFINE N == {v \in DOMAIN symbols : v[1] = "arg"}
             f == [i \in 1..n |-> <<"arg", i>>]
  <1>1. N = {<<"arg", i>> : i \in 1..n}
    BY DEF IsProgress, Reached
  <1>2. f \in Bijection(1..n, N)
    <2>1. f \in [1..n -> N] /\ \A i, j \in 1..n : f[i] = f[j] => i = j
      BY <1>1
    <2>2. \A v \in N : \E i \in 1..n : f[i] = v
      BY <1>1
    <2> HIDE DEF f, N
    <2>3. f \in Injection(1..n, N)
      BY <2>1 DEF Injection, IsInjective
    <2>4. f \in Surjection(1..n, N)
      BY <2>1, <2>2 DEF Surjection
    <2> QED BY <2>3, <2>4 DEF Bijection
  <1>3. Cardinality(N) = n
    <2> HIDE DEF f, N
    <2> QED BY <1>2, FS_CountingElements DEF ExistsBijection
  <1> QED BY <1>3 DEF NextArgument

-----------------------------------------------------------------------------
\* Verification refuses only what has no e-graph.
LEMMA OnlyEligible ==
  ASSUME NEW b, IsImportable(b)
  PROVE  IsEligible(b)
PROOF
  <1>1. \A k : \A v \in Before(b, k) : IsLocal(v)
    BY DEF Before, IsLocal
  <1> QED BY <1>1 DEF IsImportable, IsEligible

\* Nothing is named before the import.
LEMMA ImportInitInv == ImportInit => ImportInv
PROOF
  <1> SUFFICES ASSUME ImportInit PROVE ImportInv
    OBVIOUS
  <1>1. block \in Blocks /\ symbols = <<>> /\ eclasses = <<>> /\ stage = "verify" /\ reserved = {}
    BY DEF ImportInit
  <1>2. Len(block.ops) \in Nat /\ block.args \in Nat
    BY <1>1, BlockFacts
  <1>3. IsProgress(0)
    BY <1>1, <1>2, EmptySequence DEF IsProgress, Reached
  <1>4. NamesInv
    BY <1>1, FS_EmptySet, EmptySequence DEF ImportInit, NamesInv
  <1>5. EClassesInv
    BY <1>1, <1>2, EmptySequence DEF EClassesInv
  <1> QED BY <1>1, <1>3, <1>4, <1>5 DEF ImportInv, ImportsExactly

\* verifyEligibleBlock names nothing.
LEMMA VerifyInv ==
  ASSUME ImportInv, Verify
  PROVE  ImportInv'
PROOF
  <1> USE DEF Verify
  <1>1. IsProgress(0)' <=> IsProgress(0)
    BY DEF IsProgress, Reached
  <1>2. (\E n \in Nat : IsProgress(n))'
    BY DEF ImportInv, IsProgress, Reached
  <1>3. NamesInv'
    BY DEF ImportInv, NamesInv
  <1>4. EClassesInv'
    BY DEF ImportInv, EClassesInv
  <1>5. (stage' = "failed" => ~IsImportable(block)) /\ stage' # "done"
    BY OnlyEligible
  <1> QED BY <1>2, <1>3, <1>4, <1>5 DEF ImportInv, ImportsExactly

\* A value that gets its name keeps the names distinct.
LEMMA NameInv ==
  ASSUME block \in Blocks, block' = block, NamesInv, NEW stem \in Stems(block), NEW value,
         Name(stem, value)
  PROVE  /\ NamesInv'
         /\ DOMAIN symbols' = DOMAIN symbols \cup {value}
         /\ symbols'[value] = Claim(stem, reserved, suffixes).name
         /\ \A v \in DOMAIN symbols \ {value} : symbols'[v] = symbols[v]
PROOF
  <1> DEFINE name == Claim(stem, reserved, suffixes).name
  <1>1. IsSequence(stem)
    BY BlockFacts
  <1>2. name \notin reserved /\ suffixes' \in [Stems(block) -> Nat]
    BY <1>1, ClaimIsNew DEF NamesInv, Name
  <1>3. symbols' = [v \in DOMAIN symbols \cup {value} |-> IF v = value THEN name ELSE symbols[v]]
    BY DEF Name
  <1>4. reserved' = reserved \cup {name}
    BY DEF Name
  <1>5. IsFiniteSet(reserved')
    BY <1>4, FS_AddElement DEF NamesInv
  <1> HIDE DEF name
  <1>6. NamesInv'
    BY <1>2, <1>3, <1>4, <1>5 DEF NamesInv
  <1> QED BY <1>3, <1>6 DEF name

\* Importing an argument keeps the invariant.
LEMMA ImportArgumentInv ==
  ASSUME ImportInv, ImportArgument
  PROVE  ImportInv'
PROOF
  <1> PICK n \in Nat : IsProgress(n)
    BY DEF ImportInv
  <1>1. block \in Blocks /\ block' = block /\ stage' = stage /\ eclasses' = eclasses
    BY DEF ImportInv, ImportArgument
  <1>2. NextArgument = n + 1
    BY <1>1, ArgumentCount
  <1>3. n + 1 \in 1..block.args
    BY <1>1, <1>2, BlockFacts DEF ImportArgument
  <1> DEFINE value == <<"arg", n + 1>>
             stem == ArgName(n + 1)
  <1>4. stem \in Stems(block)
    BY <1>3 DEF Stems
  <1>5. Name(stem, value)
    BY <1>2 DEF ImportArgument
  <1>6. /\ NamesInv'
        /\ DOMAIN symbols' = DOMAIN symbols \cup {value}
        /\ \A v \in DOMAIN symbols \ {value} : symbols'[v] = symbols[v]
    <2> HIDE DEF value, stem
    <2> QED BY <1>1, <1>4, <1>5, NameInv DEF ImportInv
  <1>7. eclasses = <<>>
    BY <1>3, BlockFacts, <1>1 DEF IsProgress
  <1>8. IsProgress(n + 1)'
    <2>1. Reached(n + 1, Len(eclasses)) = Reached(n, Len(eclasses)) \cup {value}
      BY <1>7, EmptySequence DEF Reached
    <2> QED BY <1>1, <1>3, <1>6, <1>7, <2>1, BlockFacts DEF IsProgress, Reached
  <1>9. EClassesInv'
    BY <1>1, <1>7, EmptySequence DEF ImportInv, EClassesInv
  <1> QED BY <1>1, <1>6, <1>8, <1>9 DEF ImportInv, ImportsExactly

\* Where the operations begin, all arguments have names.
LEMMA PendingFacts ==
  ASSUME ImportInv, stage = "import", NextArgument > block.args
  PROVE  /\ IsProgress(block.args)
         /\ DOMAIN symbols = Before(block, Len(eclasses) + 1)
         /\ Len(eclasses) \in Nat
PROOF
  <1> PICK n \in Nat : IsProgress(n)
    BY DEF ImportInv
  <1>1. block \in Blocks /\ Len(eclasses) \in Nat
    BY DEF ImportInv, EClassesInv, IsSequence
  <1>2. n = block.args
    BY <1>1, ArgumentCount, BlockFacts DEF IsProgress
  <1>3. (Len(eclasses) + 1) - 1 = Len(eclasses)
    BY <1>1
  <1>4. Reached(block.args, Len(eclasses)) = Before(block, Len(eclasses) + 1)
    BY <1>3 DEF Reached, Before
  <1> QED BY <1>1, <1>2, <1>4 DEF IsProgress

\* Importing an operation keeps the invariant.
LEMMA ImportOperationInv ==
  ASSUME ImportInv, ImportOperation
  PROVE  ImportInv'
PROOF
  <1> DEFINE k == Len(eclasses) + 1
             o == block.ops[k]
             value == <<"op", o.id>>
             made == [name |-> Claim(o.stem, reserved, suffixes).name, op |-> o.op,
                      args |-> [i \in DOMAIN o.operands |-> symbols[o.operands[i]]]]
  <1>1. block \in Blocks /\ block' = block /\ stage' = stage /\ IsSequence(eclasses)
    BY DEF ImportInv, EClassesInv, ImportOperation
  <1>2. /\ IsProgress(block.args)
        /\ DOMAIN symbols = Before(block, k)
        /\ Len(eclasses) \in Nat /\ Len(eclasses) < Len(block.ops)
    BY PendingFacts DEF ImportOperation, Pending
  <1>3. k \in 1..Len(block.ops) /\ k \in DOMAIN block.ops
    BY <1>1, <1>2, BlockFacts
  <1>4. eclasses' = Append(eclasses, made) /\ Name(o.stem, value)
    BY DEF ImportOperation, NextOp
  <1>5. o.outputs = 1 /\ \A i \in DOMAIN o.operands : o.operands[i] \in Before(block, k)
    BY <1>2 DEF ImportOperation, NextOp, IsResolvable
  <1>6. o.stem \in Stems(block)
    BY <1>3 DEF Stems
  <1>7. /\ NamesInv'
        /\ DOMAIN symbols' = DOMAIN symbols \cup {value}
        /\ symbols'[value] = made.name
        /\ \A v \in DOMAIN symbols \ {value} : symbols'[v] = symbols[v]
    <2>1. made.name = Claim(o.stem, reserved, suffixes).name
      OBVIOUS
    <2> HIDE DEF value, made, o
    <2> QED BY <1>1, <1>4, <1>6, <2>1, NameInv DEF ImportInv
  <1>8. /\ IsSequence(eclasses') /\ Len(eclasses') = k
        /\ \A j \in 1..Len(eclasses) : eclasses'[j] = eclasses[j]
        /\ eclasses'[k] = made
    <2> HIDE DEF made
    <2> QED BY <1>1, <1>4, AppendSequence
  <1> HIDE DEF made
  <1>9. IsProgress(block.args)'
    <2>1. 1..k = 1..Len(eclasses) \cup {k}
      BY <1>2
    <2>2. Reached(block.args, k) = Reached(block.args, Len(eclasses)) \cup {value}
      BY <2>1 DEF Reached
    <2>3. DOMAIN symbols' = Reached(block.args, k)
      BY <1>2, <1>7, <2>2 DEF IsProgress
    <2> QED BY <1>1, <1>2, <1>8, <2>3, BlockFacts DEF IsProgress, Reached
  <1>10. EClassesInv'
    <2>1. \A j \in 1..Len(eclasses) :
            <<"op", block.ops[j].id>> \in DOMAIN symbols \ {value}
      <3> TAKE j \in 1..Len(eclasses)
      <3>1. <<"op", block.ops[j].id>> \in DOMAIN symbols
        BY <1>2 DEF Before
      <3>2. j \in 1..Len(block.ops) /\ j # k
        BY <1>2, <1>3
      <3>3. block.ops[j].id # o.id
        BY <1>1, <1>3, <3>2, BlockFacts
      <3> QED BY <3>1, <3>3
    <2>2. \A j \in 1..Len(eclasses) :
            /\ eclasses'[j].name = symbols'[<<"op", block.ops[j].id>>]
            /\ block.ops[j].outputs = 1
            /\ \A i \in DOMAIN block.ops[j].operands :
                 block.ops[j].operands[i] \in Before(block, j)
      <3> HIDE DEF value, o
      <3> QED BY <1>7, <1>8, <2>1 DEF ImportInv, EClassesInv
    <2>3. 1..k = 1..Len(eclasses) \cup {k}
      BY <1>2
    <2>4. eclasses'[k].name = symbols'[<<"op", block.ops[k].id>>]
      BY <1>7, <1>8
    <2> HIDE DEF value
    <2> QED BY <1>1, <1>3, <1>5, <1>8, <2>2, <2>3, <2>4 DEF EClassesInv
  <1>11. stage' = "import"
    BY <1>1 DEF ImportOperation, Pending
  <1>12. block.args \in Nat
    BY <1>1, BlockFacts
  <1> QED BY <1>1, <1>7, <1>9, <1>10, <1>11, <1>12 DEF ImportInv, ImportsExactly

\* Only stage has changed.
LEMMA StageInv ==
  ASSUME ImportInv, UNCHANGED <<block, reserved, suffixes, symbols, eclasses>>, ImportsExactly',
         stage' \in {"import", "done"} => IsEligible(block)
  PROVE  ImportInv'
PROOF
  <1>1. (\E n \in Nat : IsProgress(n))'
    BY DEF ImportInv, IsProgress, Reached
  <1>2. NamesInv' /\ EClassesInv'
    BY DEF ImportInv, NamesInv, EClassesInv
  <1> QED BY <1>1, <1>2 DEF ImportInv

\* An import that fails is of a block that cannot be imported.
LEMMA ImportFailsInv ==
  ASSUME ImportInv, ImportFails
  PROVE  ImportInv'
PROOF
  <1> DEFINE k == Len(eclasses) + 1
             o == block.ops[k]
  <1>1. block \in Blocks
    BY DEF ImportInv
  <1>2. DOMAIN symbols = Before(block, k) /\ k \in DOMAIN block.ops
    BY <1>1, PendingFacts, BlockFacts DEF ImportFails, Pending
  <1>3. o.outputs # 1 \/ \E i \in DOMAIN o.operands : o.operands[i] \notin Before(block, k)
    BY <1>2 DEF ImportFails, NextOp, IsResolvable
  <1>4. ~IsImportable(block)
    BY <1>2, <1>3 DEF IsImportable
  <1> QED BY <1>4, StageInv DEF ImportFails, ImportsExactly

\* An import that returns is of a block that can be.
LEMMA ImportReturnInv ==
  ASSUME ImportInv, ImportReturn
  PROVE  ImportInv'
PROOF
  <1> DEFINE there == \A i \in DOMAIN block.results : block.results[i] \in DOMAIN symbols
  <1>1. block \in Blocks /\ IsEligible(block)
    BY DEF ImportInv, ImportReturn
  <1>2. DOMAIN symbols = Before(block, Len(block.ops) + 1)
    BY PendingFacts DEF ImportReturn
  <1>3. IsImportable(block) <=> there
    <2>1. \A k \in DOMAIN block.ops :
            /\ block.ops[k].plain /\ block.ops[k].outputs = 1 /\ ~block.ops[k].escapes
            /\ \A i \in DOMAIN block.ops[k].operands :
                 block.ops[k].operands[i] \in Before(block, k)
      BY <1>1, BlockFacts DEF ImportInv, EClassesInv, ImportReturn, IsEligible
    <2> QED BY <1>2, <2>1 DEF IsImportable
  <1>4. ImportsExactly'
    BY <1>3 DEF ImportsExactly, ImportReturn
  <1> QED BY <1>1, <1>4, StageInv DEF ImportReturn

\* Every step keeps the invariant.
LEMMA ImportNextInv ==
  ASSUME ImportInv, [ImportNext]_importVars
  PROVE  ImportInv'
PROOF
  <1>1. CASE UNCHANGED importVars
    BY <1>1, StageInv DEF importVars, ImportInv, ImportsExactly
  <1>2. CASE ImportNext
    BY <1>2, VerifyInv, ImportArgumentInv, ImportOperationInv, ImportFailsInv, ImportReturnInv
    DEF ImportNext
  <1> QED BY <1>1, <1>2

\* At any moment of any import, the values before the place it has reached have
\* names, all different.
THEOREM ImportAlways == ImportSpec => []ImportInv
PROOF
  <1>1. ImportInit => ImportInv
    BY ImportInitInv
  <1>2. ImportInv /\ [ImportNext]_importVars => ImportInv'
    BY ImportNextInv
  <1> QED BY <1>1, <1>2, PTL DEF ImportSpec

-----------------------------------------------------------------------------
(***************************************************************************)
(* For every set of blocks: an import that is done was of an importable    *)
(* block, and one that failed was of none.                                 *)
(***************************************************************************)
THEOREM ImportsAlwaysExactly == ImportSpec => []ImportsExactly
PROOF BY ImportAlways, PTL DEF ImportInv

(***************************************************************************)
(* DeterministicSymbolNamer gives no name twice, whatever the stems are,   *)
(* and the e-classes made have the names of the values they stand for.     *)
(***************************************************************************)
THEOREM NamesAlwaysDistinct == ImportSpec => []NamesDistinct
PROOF
  <1>1. ImportInv => NamesDistinct
    <2> SUFFICES ASSUME ImportInv PROVE NamesDistinct
      OBVIOUS
    <2>1. \A j \in DOMAIN eclasses :
            /\ j \in 1..Len(eclasses) /\ j \in 1..Len(block.ops)
            /\ <<"op", block.ops[j].id>> \in DOMAIN symbols
      <3>1. DOMAIN eclasses = 1..Len(eclasses)
        BY Zenon DEF ImportInv, EClassesInv, IsSequence
      <3>2. Len(eclasses) \in Nat /\ Len(block.ops) \in Nat /\ Len(eclasses) <= Len(block.ops)
        BY BlockFacts DEF ImportInv, EClassesInv, IsSequence
      <3> QED BY <3>1, <3>2 DEF ImportInv, IsProgress, Reached
    <2>2. \A j, k \in DOMAIN eclasses : eclasses[j].name = eclasses[k].name => j = k
      <3> TAKE j, k \in DOMAIN eclasses
      <3> HAVE eclasses[j].name = eclasses[k].name
      <3>1. symbols[<<"op", block.ops[j].id>>] = symbols[<<"op", block.ops[k].id>>]
        BY <2>1 DEF ImportInv, EClassesInv
      <3>2. block.ops[j].id = block.ops[k].id
        BY <2>1, <3>1 DEF ImportInv, NamesInv
      <3> QED BY <2>1, <3>2, BlockFacts DEF ImportInv
    <2> QED BY <2>2 DEF ImportInv, NamesInv, NamesDistinct
  <1> QED BY <1>1, ImportAlways, PTL

-----------------------------------------------------------------------------
(***************************************************************************)
(* Terms.  Arguments are named first and keep the names they ask for; the  *)
(* k-th e-class is the k-th operation, applied to the names of its         *)
(* operands, which all come before it.                                     *)
(***************************************************************************)
IsCopy(e, o, names) ==
  e.op = o.op /\ e.args = [i \in DOMAIN o.operands |-> names[o.operands[i]]]

CopyInv ==
  /\ \A v \in DOMAIN symbols : v[1] = "arg" => symbols[v] = ArgName(v[2])
  /\ \A r \in reserved : \E v \in DOMAIN symbols : symbols[v] = r
  /\ \A k \in 1..Len(eclasses) : IsCopy(eclasses[k], block.ops[k], symbols)
  /\ stage = "done" => /\ Len(eclasses) = Len(block.ops)
                       /\ DOMAIN symbols = Before(block, Len(block.ops) + 1)

\* An argument gets the name it asks for.
LEMMA ArgumentCopied ==
  ASSUME ImportInv, CopyInv, ImportArgument
  PROVE  CopyInv'
PROOF
  <1> PICK n \in Nat : IsProgress(n)
    BY DEF ImportInv
  <1>1. /\ block \in Blocks /\ stage = "import"
        /\ UNCHANGED <<block, stage, eclasses>>
    BY DEF ImportInv, ImportArgument
  <1>2. NextArgument = n + 1
    BY <1>1, ArgumentCount
  <1>3. n + 1 \in 1..block.args
    BY <1>1, <1>2, BlockFacts DEF ImportArgument
  <1>4. eclasses = <<>>
    BY <1>1, <1>3, BlockFacts DEF IsProgress
  <1>5. DOMAIN symbols = {<<"arg", i>> : i \in 1..n}
    BY <1>4, EmptySequence DEF IsProgress, Reached
  <1> DEFINE value == <<"arg", n + 1>>
             stem == ArgName(n + 1)
  <1>6. stem \notin reserved
    <2> SUFFICES ASSUME stem \in reserved PROVE FALSE
      OBVIOUS
    <2>1. PICK v \in DOMAIN symbols : symbols[v] = stem
      BY DEF CopyInv
    <2>2. PICK i \in 1..n : v = <<"arg", i>>
      BY <1>5
    <2>3. ArgName(i) = ArgName(n + 1)
      BY <2>1, <2>2 DEF CopyInv
    <2>4. i \in 1..block.args /\ i # n + 1
      BY <1>1, <1>3, BlockFacts
    <2> QED BY <1>1, <1>3, <2>3, <2>4, ArgNamesDistinct
  <1>7. /\ reserved' = reserved \cup {stem}
        /\ symbols' = [v \in DOMAIN symbols \cup {value} |-> IF v = value THEN stem ELSE symbols[v]]
    BY <1>2, <1>6 DEF ImportArgument, Name, Claim
  <1>8. value[1] = "arg" /\ ArgName(value[2]) = stem
    OBVIOUS
  <1> HIDE DEF value, stem
  <1>9. \A v \in DOMAIN symbols' : v[1] = "arg" => symbols'[v] = ArgName(v[2])
    BY <1>7, <1>8 DEF CopyInv
  <1>10. \A r \in reserved' : \E v \in DOMAIN symbols' : symbols'[v] = r
    <2>1. value \notin DOMAIN symbols
      BY <1>5 DEF value
    <2> QED BY <1>7, <2>1 DEF CopyInv
  <1> QED BY <1>1, <1>4, <1>9, <1>10, EmptySequence DEF CopyInv

\* An operation is applied to the names of its operands.
LEMMA OperationCopied ==
  ASSUME ImportInv, CopyInv, ImportOperation
  PROVE  CopyInv'
PROOF
  <1> DEFINE k == Len(eclasses) + 1
             o == block.ops[k]
             value == <<"op", o.id>>
             name == Claim(o.stem, reserved, suffixes).name
             args == [i \in DOMAIN o.operands |-> symbols[o.operands[i]]]
             made == [name |-> name, op |-> o.op, args |-> args]
  <1>1. /\ block \in Blocks /\ stage = "import" /\ IsSequence(eclasses)
        /\ UNCHANGED <<block, stage>>
    BY DEF ImportInv, EClassesInv, ImportOperation, Pending
  <1>2. /\ DOMAIN symbols = Before(block, k)
        /\ Len(eclasses) \in Nat /\ Len(eclasses) < Len(block.ops)
    BY PendingFacts DEF ImportOperation, Pending
  <1>3. k \in 1..Len(block.ops) /\ k \in DOMAIN block.ops
    BY <1>1, <1>2, BlockFacts
  <1>4. /\ eclasses' = Append(eclasses, made)
        /\ reserved' = reserved \cup {name}
        /\ symbols' = [v \in DOMAIN symbols \cup {value} |-> IF v = value THEN name ELSE symbols[v]]
    BY DEF ImportOperation, NextOp, Name
  <1>5. \A i \in DOMAIN o.operands : o.operands[i] \in DOMAIN symbols
    BY DEF ImportOperation, NextOp, IsResolvable
  <1>6. value \notin DOMAIN symbols
    <2> SUFFICES ASSUME value \in DOMAIN symbols PROVE FALSE
      OBVIOUS
    <2>1. PICK j \in 1..(k-1) : value = <<"op", block.ops[j].id>>
      BY <1>2 DEF Before
    <2>2. j \in 1..Len(block.ops) /\ j # k /\ block.ops[j].id = block.ops[k].id
      BY <1>2, <1>3, <2>1
    <2> QED BY <1>1, <1>3, <2>2, BlockFacts
  <1>7. value[1] # "arg"
    OBVIOUS
  <1>8. made.op = o.op /\ made.args = args
    OBVIOUS
  <1> HIDE DEF value, name, made
  <1>9. /\ Len(eclasses') = k
        /\ \A j \in 1..Len(eclasses) : eclasses'[j] = eclasses[j]
        /\ eclasses'[k] = made
    BY <1>1, <1>4, AppendSequence
  <1>10. \A v \in DOMAIN symbols : v \in DOMAIN symbols' /\ symbols'[v] = symbols[v]
    BY <1>4, <1>6
  <1>11. \A v \in DOMAIN symbols' : v[1] = "arg" => symbols'[v] = ArgName(v[2])
    BY <1>4, <1>7, <1>10 DEF CopyInv
  <1>12. \A r \in reserved' : \E v \in DOMAIN symbols' : symbols'[v] = r
    <2>1. value \in DOMAIN symbols' /\ symbols'[value] = name
      BY <1>4
    <2> QED BY <1>4, <1>10, <2>1 DEF CopyInv
  <1>13. ASSUME NEW j \in 1..Len(eclasses)
         PROVE  IsCopy(eclasses'[j], block.ops[j], symbols')
    <2> DEFINE p == block.ops[j]
    <2>1. j \in 1..(k-1) /\ eclasses'[j] = eclasses[j]
      BY <1>2, <1>9
    <2>2. \A v \in Before(block, j) : v \in DOMAIN symbols
      BY <1>2, <2>1 DEF Before
    <2>3. \A i \in DOMAIN p.operands : symbols'[p.operands[i]] = symbols[p.operands[i]]
      BY <1>10, <2>2 DEF ImportInv, EClassesInv
    <2>4. [i \in DOMAIN p.operands |-> symbols'[p.operands[i]]]
            = [i \in DOMAIN p.operands |-> symbols[p.operands[i]]]
      BY <2>3
    <2> QED BY <1>1, <2>1, <2>4 DEF CopyInv, IsCopy
  <1>14. IsCopy(eclasses'[k], block.ops[k], symbols')
    <2>1. \A i \in DOMAIN o.operands : symbols'[o.operands[i]] = symbols[o.operands[i]]
      BY <1>5, <1>10
    <2>2. args = [i \in DOMAIN o.operands |-> symbols'[o.operands[i]]]
      BY <2>1
    <2> QED BY <1>1, <1>8, <1>9, <2>2 DEF IsCopy
  <1>15. 1..k = 1..Len(eclasses) \cup {k}
    BY <1>2
  <1>16. \A j \in 1..Len(eclasses') : IsCopy(eclasses'[j], block.ops[j], symbols')
    <2> HIDE DEF k
    <2> QED BY <1>9, <1>13, <1>14, <1>15
  <1> QED BY <1>1, <1>11, <1>12, <1>16 DEF CopyInv

\* Every step keeps it so.
LEMMA CopyNext ==
  ASSUME ImportInv, CopyInv, [ImportNext]_importVars
  PROVE  CopyInv'
PROOF
  <1>1. ASSUME UNCHANGED <<block, reserved, symbols, eclasses>>,
               stage' # "done" \/ stage = "done"
        PROVE  CopyInv'
    BY <1>1 DEF CopyInv, IsCopy
  <1>2. CASE UNCHANGED importVars
    BY <1>1, <1>2 DEF importVars
  <1>3. CASE Verify \/ ImportFails
    BY <1>1, <1>3 DEF Verify, ImportFails
  <1>4. CASE ImportReturn
    <2>1. UNCHANGED <<block, reserved, symbols, eclasses>> /\ Len(eclasses) = Len(block.ops)
      BY <1>4 DEF ImportReturn
    <2>2. DOMAIN symbols = Before(block, Len(block.ops) + 1)
      BY <1>4, PendingFacts DEF ImportReturn
    <2> QED BY <2>1, <2>2 DEF CopyInv, IsCopy
  <1> QED
    BY <1>2, <1>3, <1>4, ArgumentCopied, OperationCopied DEF ImportNext

-----------------------------------------------------------------------------
\* The recursion of NameTerms: the terms of the arguments, then those with one
\* e-class more.

ArgumentTerms == [v \in {ArgName(i) : i \in 1..block.args} |-> <<v>>]

WithClass(e, before) ==
  [s \in DOMAIN before \cup {e.name} |->
     IF s = e.name THEN Term(e.op, [i \in DOMAIN e.args |-> before[e.args[i]]]) ELSE before[s]]

AreTerms(f, n) ==
  f = [k \in 0..n |-> IF k = 0 THEN ArgumentTerms ELSE WithClass(eclasses[k], f[k-1])]

\* There are terms for any number of e-classes.
LEMMA TermsExist ==
  ASSUME NEW n \in Nat
  PROVE  \E f : AreTerms(f, n)
PROOF
  <1> DEFINE T == {m \in Nat : ~\E f : AreTerms(f, m)}
  <1>1. ASSUME T # {}
        PROVE  FALSE
    <2>1. T \in SUBSET Nat
      OBVIOUS
    <2> HIDE DEF T
    <2>2. PICK m \in T : \A l \in T : ~(l < m)
      BY <1>1, <2>1, LeastNatural
    <2> USE DEF T
    <2>3. m \in Nat /\ ~\E f : AreTerms(f, m)
      BY <2>2
    <2>4. m # 0
      <3> DEFINE f == [k \in 0..0 |-> ArgumentTerms]
      <3>1. f = [k \in 0..0 |-> IF k = 0 THEN ArgumentTerms ELSE WithClass(eclasses[k], f[k-1])]
        OBVIOUS
      <3> HIDE DEF f
      <3>2. AreTerms(f, 0)
        BY <3>1 DEF AreTerms
      <3> QED BY <2>3, <3>2
    <2>5. m - 1 \in Nat /\ m - 1 < m
      BY <2>3, <2>4
    <2>6. PICK g : AreTerms(g, m - 1)
      BY <2>2, <2>5
    <2> DEFINE last == WithClass(eclasses[m], g[m-1])
               f == [k \in 0..m |-> IF k = m THEN last ELSE g[k]]
    <2>7. \A k \in 0..(m-1) :
            g[k] = IF k = 0 THEN ArgumentTerms ELSE WithClass(eclasses[k], g[k-1])
      BY <2>6 DEF AreTerms
    <2>8. \A k \in 0..m : f[k] = IF k = 0 THEN ArgumentTerms ELSE WithClass(eclasses[k], f[k-1])
      <3> SUFFICES ASSUME NEW k \in 0..m
                   PROVE  f[k] = IF k = 0 THEN ArgumentTerms ELSE WithClass(eclasses[k], f[k-1])
        OBVIOUS
      <3>1. CASE k = 0
        <4>1. k # m /\ k \in 0..(m-1)
          BY <2>3, <2>4, <3>1
        <4> QED BY <2>7, <3>1, <4>1
      <3>2. CASE k # 0
        <4>1. k - 1 \in 0..m /\ k - 1 # m /\ f[k-1] = g[k-1]
          BY <2>3, <3>2
        <4>2. CASE k = m
          BY <3>2, <4>1, <4>2
        <4>3. CASE k # m
          <5>1. k \in 0..(m-1)
            BY <2>3, <4>3
          <5> QED BY <2>7, <3>2, <4>1, <4>3, <5>1
        <4> QED BY <4>2, <4>3
      <3> QED BY <3>1, <3>2
    <2>9. AreTerms(f, m)
      <3>1. f = [k \in 0..m |-> f[k]]
        OBVIOUS
      <3> HIDE DEF f
      <3> QED BY <2>8, <3>1 DEF AreTerms
    <2> QED BY <2>3, <2>9
  <1> QED BY <1>1

\* The names of the values before an operation, and their terms.
KnownAt(f, k) ==
  /\ DOMAIN f[k] = {symbols[v] : v \in Before(block, k + 1)}
  /\ \A i \in 1..block.args : f[k][symbols[<<"arg", i>>]] = <<ArgName(i)>>
  /\ \A j \in 1..k : LET o == block.ops[j] IN
       f[k][symbols[<<"op", o.id>>]]
         = Term(o.op, [i \in DOMAIN o.operands |-> f[k][symbols[o.operands[i]]]])

\* One e-class more leaves the terms of the others alone.
LEMMA KnownNext ==
  ASSUME ImportInv, CopyInv, stage = "done",
         NEW k \in 1..Len(block.ops), NEW f,
         f[k] = WithClass(eclasses[k], f[k-1]), KnownAt(f, k - 1)
  PROVE  KnownAt(f, k)
PROOF
  <1> DEFINE e == eclasses[k]
             o == block.ops[k]
             value == <<"op", o.id>>
             all == Before(block, Len(block.ops) + 1)
  <1>1. /\ block \in Blocks /\ Len(eclasses) = Len(block.ops) /\ DOMAIN symbols = all
        /\ Len(block.ops) \in Nat
    BY BlockFacts DEF ImportInv, CopyInv
  <1>2. /\ e.name = symbols[value] /\ IsCopy(e, o, symbols)
        /\ \A j \in 1..Len(block.ops) : \A i \in DOMAIN block.ops[j].operands :
             block.ops[j].operands[i] \in Before(block, j)
    BY <1>1 DEF ImportInv, EClassesInv, CopyInv
  <1>3. \A v, w \in all : symbols[v] = symbols[w] => v = w
    BY <1>1 DEF ImportInv, NamesInv
  <1>4. /\ Before(block, k + 1) = Before(block, k) \cup {value}
        /\ Before(block, k + 1) \subseteq all
        /\ \A j \in 1..k : Before(block, j) \subseteq Before(block, k)
    <2>1. 1..((k + 1) - 1) = 1..(k - 1) \cup {k}
      OBVIOUS
    <2>2. 1..((k + 1) - 1) \subseteq 1..((Len(block.ops) + 1) - 1)
      BY <1>1
    <2>3. \A j \in 1..k : 1..(j - 1) \subseteq 1..(k - 1)
      OBVIOUS
    <2> QED BY <2>1, <2>2, <2>3 DEF Before
  <1>5. value \notin Before(block, k)
    <2> SUFFICES ASSUME value \in Before(block, k) PROVE FALSE
      OBVIOUS
    <2>1. PICK j \in 1..(k-1) : value = <<"op", block.ops[j].id>>
      BY DEF Before
    <2>2. j \in 1..Len(block.ops) /\ j # k /\ block.ops[j].id = block.ops[k].id
      BY <1>1, <2>1
    <2> QED BY <1>1, <2>2, BlockFacts
  <1>6. DOMAIN f[k-1] = {symbols[v] : v \in Before(block, k)}
    <2>1. (k - 1) + 1 = k
      OBVIOUS
    <2> QED BY <2>1 DEF KnownAt
  <1> HIDE DEF value, all
  <1>7. \A v \in Before(block, k) : f[k][symbols[v]] = f[k-1][symbols[v]]
    <2> SUFFICES ASSUME NEW v \in Before(block, k)
                 PROVE  f[k][symbols[v]] = f[k-1][symbols[v]]
      OBVIOUS
    <2>1. symbols[v] # e.name
      BY <1>2, <1>3, <1>4, <1>5
    <2>2. symbols[v] \in DOMAIN f[k-1]
      BY <1>6
    <2> QED BY <2>1, <2>2 DEF WithClass
  <1>8. f[k][symbols[value]] = Term(e.op, [i \in DOMAIN e.args |-> f[k-1][e.args[i]]])
    BY <1>2 DEF WithClass
  <1>9. DOMAIN f[k] = {symbols[v] : v \in Before(block, k + 1)}
    BY <1>2, <1>4, <1>6 DEF WithClass
  <1>10. \A i \in 1..block.args : f[k][symbols[<<"arg", i>>]] = <<ArgName(i)>>
    BY <1>7 DEF KnownAt, Before
  <1>11. ASSUME NEW j \in 1..k
         PROVE  LET p == block.ops[j] IN
                f[k][symbols[<<"op", p.id>>]]
                  = Term(p.op, [i \in DOMAIN p.operands |-> f[k][symbols[p.operands[i]]]])
    <2> DEFINE p == block.ops[j]
               now == [i \in DOMAIN p.operands |-> f[k][symbols[p.operands[i]]]]
               before == [i \in DOMAIN p.operands |-> f[k-1][symbols[p.operands[i]]]]
    <2>1. \A i \in DOMAIN p.operands : p.operands[i] \in Before(block, k)
      BY <1>1, <1>2, <1>4
    <2>2. now = before
      BY <1>7, <2>1
    <2>3. f[k][symbols[<<"op", p.id>>]] = Term(p.op, before)
      <3>1. CASE j = k
        <4>1. [i \in DOMAIN e.args |-> f[k-1][e.args[i]]] = before
          BY <1>2, <3>1 DEF IsCopy
        <4>2. e.op = p.op
          BY <1>2, <3>1 DEF IsCopy
        <4> HIDE DEF before
        <4> QED BY <1>8, <3>1, <4>1, <4>2 DEF value
      <3>2. CASE j # k
        <4>1. j \in 1..(k-1)
          BY <3>2
        <4>2. <<"op", p.id>> \in Before(block, k)
          BY <4>1 DEF Before
        <4>3. f[k-1][symbols[<<"op", p.id>>]] = Term(p.op, before)
          BY <4>1 DEF KnownAt
        <4> QED BY <1>7, <4>2, <4>3
      <3> QED BY <3>1, <3>2
    <2> HIDE DEF now, before
    <2>4. f[k][symbols[<<"op", p.id>>]] = Term(p.op, now)
      BY <2>2, <2>3
    <2> QED BY <2>4 DEF now
  <1> QED BY <1>9, <1>10, <1>11 DEF KnownAt

\* When the import is done, every value of the block has its term.
LEMMA NameTermsKnown ==
  ASSUME ImportInv, CopyInv, stage = "done"
  PROVE  \E f : NameTerms = f[Len(block.ops)] /\ KnownAt(f, Len(block.ops))
PROOF
  <1>1. /\ block \in Blocks /\ Len(eclasses) = Len(block.ops)
        /\ DOMAIN symbols = Before(block, Len(block.ops) + 1)
        /\ Len(block.ops) \in Nat /\ block.args \in Nat
    BY BlockFacts DEF ImportInv, CopyInv
  <1> DEFINE f == CHOOSE g : AreTerms(g, Len(eclasses))
  <1>2. NameTerms = f[Len(eclasses)]
    BY DEF NameTerms, AreTerms, ArgumentTerms, WithClass, Term
  <1>3. AreTerms(f, Len(eclasses))
    BY <1>1, TermsExist
  <1> HIDE DEF f
  <1>4. \A k \in 0..Len(block.ops) :
          f[k] = IF k = 0 THEN ArgumentTerms ELSE WithClass(eclasses[k], f[k-1])
    BY <1>1, <1>3 DEF AreTerms
  <1>5. KnownAt(f, 0)
    <2>1. f[0] = ArgumentTerms
      BY <1>1, <1>4
    <2>2. Before(block, 0 + 1) = {<<"arg", i>> : i \in 1..block.args}
      BY DEF Before
    <2>3. \A i \in 1..block.args : symbols[<<"arg", i>>] = ArgName(i)
      <3> TAKE i \in 1..block.args
      <3>1. <<"arg", i>> \in DOMAIN symbols
        BY <1>1 DEF Before
      <3> QED BY <3>1 DEF CopyInv
    <2>4. DOMAIN f[0] = {symbols[v] : v \in Before(block, 0 + 1)}
      <3>1. DOMAIN f[0] = {ArgName(i) : i \in 1..block.args}
        BY <2>1 DEF ArgumentTerms
      <3>2. {ArgName(i) : i \in 1..block.args} = {symbols[<<"arg", i>>] : i \in 1..block.args}
        BY <2>3
      <3> QED BY <2>2, <3>1, <3>2
    <2>5. \A i \in 1..block.args : f[0][symbols[<<"arg", i>>]] = <<ArgName(i)>>
      BY <2>1, <2>3 DEF ArgumentTerms
    <2> QED BY <2>4, <2>5 DEF KnownAt
  <1>6. \A k \in 0..Len(block.ops) : KnownAt(f, k)
    <2> DEFINE T == {k \in 0..Len(block.ops) : ~KnownAt(f, k)}
    <2>1. ASSUME T # {}
          PROVE  FALSE
      <3>1. T \in SUBSET Nat
        OBVIOUS
      <3> HIDE DEF T
      <3>2. PICK k \in T : \A j \in T : ~(j < k)
        BY <2>1, <3>1, LeastNatural
      <3> USE DEF T
      <3>3. k \in 1..Len(block.ops)
        BY <1>5, <3>2
      <3>4. k - 1 \in 0..Len(block.ops) /\ k - 1 < k
        BY <1>1, <3>3
      <3>5. KnownAt(f, k - 1)
        BY <3>2, <3>4
      <3>6. f[k] = WithClass(eclasses[k], f[k-1])
        BY <1>1, <1>4, <3>3
      <3>7. KnownAt(f, k)
        BY <3>3, <3>5, <3>6, KnownNext
      <3> QED BY <3>2, <3>7
    <2> QED BY <2>1
  <1> QED BY <1>1, <1>2, <1>6

\* The step of the recursion of Evaluated, for terms.
EvalTerm(arguments, f, n) ==
  LET o == OpOf(block, n) IN
  Term(o.op, [i \in DOMAIN o.operands |->
                IF o.operands[i][1] = "arg" THEN arguments[o.operands[i][2]]
                ELSE f[o.operands[i][2]]])

ResultTerms(terms) == [n \in Ids(block) |-> terms[symbols[<<"op", n>>]]]

(***************************************************************************)
(* Operands come before their users, so only one function computes every   *)
(* operation from its operands: that of the e-graph and that of the block  *)
(* agree on the first operation, the second, and so on.                    *)
(***************************************************************************)
LEMMA TermsEvaluated ==
  ASSUME ImportInv, CopyInv, stage = "done", NEW f, KnownAt(f, Len(block.ops))
  PROVE  ResultTerms(f[Len(block.ops)])
           = Evaluated(block, Term, [a \in 1..block.args |-> <<ArgName(a)>>])
PROOF
  <1> DEFINE arguments == [a \in 1..block.args |-> <<ArgName(a)>>]
             terms == f[Len(block.ops)]
             c == ResultTerms(terms)
             g == CHOOSE h : h = [n \in Ids(block) |-> EvalTerm(arguments, h, n)]
  <1>1. Evaluated(block, Term, arguments) = g
    BY DEF Evaluated, EvalTerm
  <1>2. /\ block \in Blocks
        /\ Len(block.ops) \in Nat /\ DOMAIN block.ops = 1..Len(block.ops)
        /\ \A j, k \in DOMAIN block.ops : block.ops[j].id = block.ops[k].id => j = k
    BY BlockFacts DEF ImportInv
  <1>3. \A k \in DOMAIN block.ops : OpOf(block, block.ops[k].id) = block.ops[k]
    BY <1>2 DEF OpOf
  <1>4. ASSUME NEW k \in DOMAIN block.ops, NEW i \in DOMAIN block.ops[k].operands
        PROVE  LET v == block.ops[k].operands[i] IN
               \/ v[1] = "arg" /\ terms[symbols[v]] = arguments[v[2]]
               \/ /\ v[1] # "arg" /\ v[2] \in Ids(block) /\ terms[symbols[v]] = c[v[2]]
                  /\ \E j \in 1..(k-1) : v[2] = block.ops[j].id
    <2> DEFINE v == block.ops[k].operands[i]
    <2>1. v \in Before(block, k)
      BY <1>2 DEF ImportInv, EClassesInv, CopyInv
    <2>2. CASE \E a \in 1..block.args : v = <<"arg", a>>
      <3>1. PICK a \in 1..block.args : v = <<"arg", a>>
        BY <2>2
      <3>2. terms[symbols[v]] = <<ArgName(a)>>
        BY <3>1 DEF KnownAt
      <3>3. arguments[a] = <<ArgName(a)>>
        OBVIOUS
      <3>4. v[1] = "arg" /\ v[2] = a
        BY <3>1
      <3> HIDE DEF v, terms, arguments
      <3> QED BY <3>2, <3>3, <3>4 DEF v
    <2>3. CASE \E j \in 1..(k-1) : v = <<"op", block.ops[j].id>>
      <3>1. PICK j \in 1..(k-1) : v = <<"op", block.ops[j].id>>
        BY <2>3
      <3>2. j \in DOMAIN block.ops
        BY <1>2, <1>4
      <3>3. v[1] # "arg" /\ v[2] = block.ops[j].id /\ v = <<"op", v[2]>> /\ v[2] \in Ids(block)
        BY <3>1, <3>2 DEF Ids
      <3> HIDE DEF v
      <3>4. terms[symbols[v]] = c[v[2]]
        BY <3>3 DEF ResultTerms
      <3> QED BY <3>3, <3>4 DEF v
    <2> QED BY <2>1, <2>2, <2>3 DEF Before
  <1>5. ASSUME NEW k \in DOMAIN block.ops
        PROVE  c[block.ops[k].id] = EvalTerm(arguments, c, block.ops[k].id)
    <2> DEFINE o == block.ops[k]
               v == [i \in DOMAIN o.operands |-> terms[symbols[o.operands[i]]]]
               w == [i \in DOMAIN o.operands |->
                       IF o.operands[i][1] = "arg" THEN arguments[o.operands[i][2]]
                       ELSE c[o.operands[i][2]]]
    <2>1. v = w
      <3> HIDE DEF arguments, terms, c
      <3> QED BY <1>4
    <2>2. c[o.id] = Term(o.op, v)
      BY <1>2 DEF KnownAt, ResultTerms, Ids
    <2>3. EvalTerm(arguments, c, o.id) = Term(o.op, w)
      <3> HIDE DEF arguments, terms, c
      <3>1. OpOf(block, o.id) = o
        BY <1>3
      <3> QED BY <3>1 DEF EvalTerm
    <2> HIDE DEF v, w
    <2> QED BY <2>1, <2>2, <2>3
  <1> HIDE DEF arguments, terms
  <1>6. c = [n \in Ids(block) |-> EvalTerm(arguments, c, n)]
    <2>1. \A n \in Ids(block) : c[n] = EvalTerm(arguments, c, n)
      BY <1>5 DEF Ids
    <2>2. c = [n \in Ids(block) |-> c[n]]
      BY DEF ResultTerms
    <2> HIDE DEF c
    <2> QED BY <2>1, <2>2
  <1> HIDE DEF c
  <1>7. g = [n \in Ids(block) |-> EvalTerm(arguments, g, n)]
    BY <1>6
  <1> HIDE DEF g
  <1>8. ASSUME NEW k \in DOMAIN block.ops,
               \A j \in 1..(k-1) : c[block.ops[j].id] = g[block.ops[j].id]
        PROVE  c[block.ops[k].id] = g[block.ops[k].id]
    <2> DEFINE o == block.ops[k]
               v(h) == [i \in DOMAIN o.operands |->
                          IF o.operands[i][1] = "arg" THEN arguments[o.operands[i][2]]
                          ELSE h[o.operands[i][2]]]
    <2>1. v(c) = v(g)
      BY <1>4, <1>8
    <2>2. EvalTerm(arguments, c, o.id) = Term(o.op, v(c))
      BY <1>3 DEF EvalTerm
    <2>3. EvalTerm(arguments, g, o.id) = Term(o.op, v(g))
      BY <1>3 DEF EvalTerm
    <2>4. o.id \in Ids(block)
      BY DEF Ids
    <2>5. g[o.id] = EvalTerm(arguments, g, o.id)
      BY <1>7, <2>4
    <2> HIDE DEF v
    <2> QED BY <1>5, <2>1, <2>2, <2>3, <2>5
  <1>9. \A k \in DOMAIN block.ops : c[block.ops[k].id] = g[block.ops[k].id]
    <2> DEFINE T == {k \in DOMAIN block.ops : c[block.ops[k].id] # g[block.ops[k].id]}
    <2>1. T \in SUBSET Nat
      BY <1>2
    <2>2. ASSUME T # {}
          PROVE  FALSE
      <3> HIDE DEF T
      <3>1. PICK k \in T : \A j \in T : ~(j < k)
        BY <2>1, <2>2, LeastNatural
      <3> USE DEF T
      <3>2. \A j \in 1..(k-1) : j \in DOMAIN block.ops /\ j < k
        BY <1>2
      <3>3. \A j \in 1..(k-1) : c[block.ops[j].id] = g[block.ops[j].id]
        BY <3>1, <3>2
      <3> QED BY <1>8, <3>3
    <2> QED BY <2>2
  <1>10. \A n \in Ids(block) : c[n] = g[n]
    BY <1>9 DEF Ids
  <1>11. c = g
    BY <1>6, <1>7, <1>10
  <1> QED BY <1>1, <1>11 DEF arguments, c, terms

(***************************************************************************)
(* For every set of blocks and whatever the stems: the e-graph of an       *)
(* import returns the names of the terms that the block returned.          *)
(***************************************************************************)
THEOREM TermsAlwaysKept == ImportSpec => []TermsKept
PROOF
  <1>1. ImportInit => CopyInv
    BY EmptySequence DEF ImportInit, CopyInv
  <1>2. ImportInv /\ CopyInv /\ [ImportNext]_importVars => (ImportInv /\ CopyInv)'
    BY ImportNextInv, CopyNext
  <1>3. ASSUME ImportInv, CopyInv
        PROVE  TermsKept
    <2> SUFFICES ASSUME stage = "done", NEW i \in DOMAIN block.results
                 PROVE  NameTerms[symbols[block.results[i]]]
                          = Denotes(block, Term, [a \in 1..block.args |-> <<ArgName(a)>>],
                                    block.results[i])
      BY <1>3 DEF TermsKept
    <2> DEFINE v == block.results[i]
               arguments == [a \in 1..block.args |-> <<ArgName(a)>>]
    <2>1. v \in Before(block, Len(block.ops) + 1) /\ Len(block.ops) \in Nat
      BY <1>3, BlockFacts DEF ImportInv, ImportsExactly, IsImportable
    <2>2. PICK f : NameTerms = f[Len(block.ops)] /\ KnownAt(f, Len(block.ops))
      BY <1>3, NameTermsKnown
    <2>3. ResultTerms(NameTerms) = Evaluated(block, Term, arguments)
      BY <1>3, <2>2, TermsEvaluated
    <2>4. CASE \E a \in 1..block.args : v = <<"arg", a>>
      <3>1. PICK a \in 1..block.args : v = <<"arg", a>>
        BY <2>4
      <3>2. NameTerms[symbols[v]] = <<ArgName(a)>>
        BY <2>2, <3>1 DEF KnownAt
      <3>3. Denotes(block, Term, arguments, v) = arguments[v[2]]
        BY <3>1 DEF Denotes
      <3> QED BY <3>1, <3>2, <3>3
    <2>5. CASE \E j \in 1..Len(block.ops) : v = <<"op", block.ops[j].id>>
      <3>1. PICK j \in 1..Len(block.ops) : v = <<"op", block.ops[j].id>>
        BY <2>5
      <3>2. block.ops[j].id \in Ids(block)
        BY <1>3, BlockFacts DEF ImportInv, Ids
      <3>3. ResultTerms(NameTerms)[block.ops[j].id] = NameTerms[symbols[v]]
        BY <3>1, <3>2 DEF ResultTerms
      <3>4. v[1] # "arg" /\ v[2] = block.ops[j].id
        BY <3>1
      <3>5. Denotes(block, Term, arguments, v) = Evaluated(block, Term, arguments)[block.ops[j].id]
        <4> HIDE DEF arguments, v
        <4> QED BY <3>4 DEF Denotes
      <3> QED BY <2>3, <3>3, <3>5
    <2>6. (Len(block.ops) + 1) - 1 = Len(block.ops)
      BY <2>1
    <2> QED BY <2>1, <2>4, <2>5, <2>6 DEF Before
  <1> QED
    BY <1>1, <1>2, <1>3, ImportInitInv, PTL DEF ImportSpec
=============================================================================
