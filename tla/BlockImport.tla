----------------------------- MODULE BlockImport -----------------------------
(***************************************************************************)
(* importBlockToMatchGraph (lib/EGraph/Pattern.cpp): a temporary e-graph   *)
(* is made of a block, an e-class for each operation.  The block is only   *)
(* read, and an e-graph that is not finished is erased.                    *)
(***************************************************************************)
EXTENDS Block

CONSTANT Blocks   \* the blocks that may be asked for

VARIABLES
  block,
  stage,     \* where the import is
  reserved,  \* reservedNames of the namer, and the symbols of the e-graph
  suffixes,  \* nextSuffixByStem
  symbols,   \* importedSymbols: value -> name
  eclasses   \* the e-classes made: name, op, and the payloads it references

importVars == <<block, stage, reserved, suffixes, symbols, eclasses>>

Stems(b) == {ArgName(i) : i \in 1..b.args} \cup {b.ops[k].stem : k \in DOMAIN b.ops}

ASSUME BlocksWellFormed ==
  \A b \in Blocks :
    /\ b.args \in Nat
    /\ IsSequence(b.ops)
    /\ \A j, k \in DOMAIN b.ops : b.ops[j].id = b.ops[k].id => j = k
    /\ \A s \in Stems(b) : IsSequence(s)

\* Sanitizing leaves "arg" and an index as they are.
ASSUME ArgNamesDistinct ==
  \A b \in Blocks : \A i, j \in 1..b.args : ArgName(i) = ArgName(j) => i = j

ImportInit ==
  /\ block \in Blocks
  /\ stage = "verify"
  /\ reserved = {}
  /\ suffixes = [s \in Stems(block) |-> 0]
  /\ symbols = <<>>
  /\ eclasses = <<>>

Verify ==
  /\ stage = "verify"
  /\ stage' = IF IsEligible(block) THEN "import" ELSE "failed"
  /\ UNCHANGED <<block, reserved, suffixes, symbols, eclasses>>

\* A name is claimed and stands for the value from now on.
Name(stem, value) ==
  LET claim == Claim(stem, reserved, suffixes)
  IN  /\ reserved' = reserved \cup {claim.name}
      /\ suffixes' = claim.suffixes
      /\ symbols' = [v \in DOMAIN symbols \cup {value} |->
                       IF v = value THEN claim.name ELSE symbols[v]]

NextArgument == Cardinality({v \in DOMAIN symbols : v[1] = "arg"}) + 1

\* One egraph.input for each argument, before any operation.
ImportArgument ==
  /\ stage = "import"
  /\ NextArgument <= block.args
  /\ Name(ArgName(NextArgument), <<"arg", NextArgument>>)
  /\ UNCHANGED <<block, stage, eclasses>>

NextOp == block.ops[Len(eclasses) + 1]

IsResolvable(o) == \A i \in DOMAIN o.operands : o.operands[i] \in DOMAIN symbols

Pending == stage = "import" /\ NextArgument > block.args /\ Len(eclasses) < Len(block.ops)

\* Mutation of ImportOperation: the number of results is not looked at.
ImportOperationAnyResults ==
  /\ Pending
  /\ IsResolvable(NextOp)
  /\ Name(NextOp.stem, <<"op", NextOp.id>>)
  /\ eclasses' = Append(eclasses,
       [name |-> Claim(NextOp.stem, reserved, suffixes).name, op |-> NextOp.op,
        args |-> [i \in DOMAIN NextOp.operands |-> symbols[NextOp.operands[i]]]])
  /\ UNCHANGED <<block, stage>>

\* Mutation of ImportOperation: the payloads are listed backwards.
ImportOperationBackwards ==
  /\ Pending
  /\ NextOp.outputs = 1 /\ IsResolvable(NextOp)
  /\ Name(NextOp.stem, <<"op", NextOp.id>>)
  /\ LET n == Len(NextOp.operands) IN
     eclasses' = Append(eclasses,
       [name |-> Claim(NextOp.stem, reserved, suffixes).name, op |-> NextOp.op,
        args |-> [i \in 1..n |-> symbols[NextOp.operands[n + 1 - i]]]])
  /\ UNCHANGED <<block, stage>>

(***************************************************************************)
(* importOperationToEClass: the candidate is a clone whose operand i is    *)
(* the block argument for the i-th payload.                                *)
(***************************************************************************)
ImportOperation ==
  /\ Pending
  /\ NextOp.outputs = 1 /\ IsResolvable(NextOp)
  /\ Name(NextOp.stem, <<"op", NextOp.id>>)
  /\ eclasses' = Append(eclasses,
       [name |-> Claim(NextOp.stem, reserved, suffixes).name, op |-> NextOp.op,
        args |-> [i \in DOMAIN NextOp.operands |-> symbols[NextOp.operands[i]]]])
  /\ UNCHANGED <<block, stage>>

\* The e-graph goes with the OwningOpRef.
ImportFails ==
  /\ Pending
  /\ NextOp.outputs # 1 \/ ~IsResolvable(NextOp)
  /\ stage' = "failed"
  /\ UNCHANGED <<block, reserved, suffixes, symbols, eclasses>>

ImportReturn ==
  /\ stage = "import" /\ NextArgument > block.args /\ Len(eclasses) = Len(block.ops)
  /\ stage' = IF \A i \in DOMAIN block.results : block.results[i] \in DOMAIN symbols
              THEN "done" ELSE "failed"
  /\ UNCHANGED <<block, reserved, suffixes, symbols, eclasses>>

ImportNext ==
  \/ Verify
  \/ ImportArgument
  \/ ImportOperation
  \/ ImportFails
  \/ ImportReturn

ImportSpec == ImportInit /\ [][ImportNext]_importVars

-----------------------------------------------------------------------------
(***************************************************************************)
(* A block is imported exactly if every operation of it is pure, has one   *)
(* result that no other block uses, and takes values that come before it   *)
(* in the block: extraction is going to erase the operation.               *)
(***************************************************************************)
ImportsExactly ==
  /\ stage = "done" => IsImportable(block)
  /\ stage = "failed" => ~IsImportable(block)

(***************************************************************************)
(* No two values get one name, whatever names the operations ask for:      *)
(* stems may look like the suffixed names of others.                       *)
(***************************************************************************)
NamesDistinct ==
  /\ \A v, w \in DOMAIN symbols : symbols[v] = symbols[w] => v = w
  /\ \A j, k \in DOMAIN eclasses : eclasses[j].name = eclasses[k].name => j = k

\* The term a name stands for in the e-graph, and a value in the block.
NameTerms ==
  LET terms[k \in 0..Len(eclasses)] ==
        IF k = 0 THEN [v \in {ArgName(i) : i \in 1..block.args} |-> <<v>>]
        ELSE LET e == eclasses[k] IN
             [s \in DOMAIN terms[k-1] \cup {e.name} |->
                IF s = e.name THEN <<e.op>> \o [i \in DOMAIN e.args |-> terms[k-1][e.args[i]]]
                ELSE terms[k-1][s]]
  IN  terms[Len(eclasses)]

Term(o, terms) == <<o>> \o terms

(***************************************************************************)
(* The targets of the e-graph stand for the terms that the terminator of   *)
(* the block returned.                                                     *)
(***************************************************************************)
TermsKept ==
  stage = "done" =>
    \A i \in DOMAIN block.results :
      NameTerms[symbols[block.results[i]]]
        = Denotes(block, Term, [a \in 1..block.args |-> <<ArgName(a)>>], block.results[i])
=============================================================================
