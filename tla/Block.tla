-------------------------------- MODULE Block --------------------------------
(***************************************************************************)
(* Blocks of payload operations, as block import and extraction see them.  *)
(*                                                                         *)
(* A value is <<"arg", i>>, an argument of the block, <<"op", n>>, the     *)
(* result of the operation n, or <<"outer", n>>, a value of another block. *)
(* An operation has an id, an op (its name with attributes and types), the *)
(* operands, the stem of its name, and what import asks of it: whether it  *)
(* is pure, free of regions, calls and control flow (plain), how many      *)
(* results it has, and whether another block uses them (escapes).          *)
(*                                                                         *)
(* A name is the sequence of a stem and the suffixes that follow it.       *)
(***************************************************************************)
EXTENDS Integers, Sequences, FiniteSets

CONSTANT ArgName(_)   \* what sanitizing "arg" and an index gives

\* A sequence, whatever its elements are.
IsSequence(s) ==
  /\ Len(s) \in Nat
  /\ s = [i \in 1..Len(s) |-> s[i]]

Ids(b) == {b.ops[k].id : k \in DOMAIN b.ops}

OpOf(b, n) == b.ops[CHOOSE k \in DOMAIN b.ops : b.ops[k].id = n]

\* verifyOperandIsBlockLocal.
IsLocal(value) == value[1] # "outer"

(***************************************************************************)
(* verifyBlockIsEligibleForImport.  Its order decides only which errors    *)
(* are reported.                                                           *)
(***************************************************************************)
IsEligible(b) ==
  /\ \A k \in DOMAIN b.ops :
       /\ b.ops[k].plain
       /\ \A i \in DOMAIN b.ops[k].operands : IsLocal(b.ops[k].operands[i])
       /\ ~b.ops[k].escapes
  /\ \A i \in DOMAIN b.results : IsLocal(b.results[i])

\* Mutation of Claim: the first suffix is taken unseen.
ClaimUnseen(stem, reserved, suffixes) ==
  IF stem \notin reserved
  THEN [name |-> stem, suffixes |-> suffixes]
  ELSE [name |-> Append(stem, suffixes[stem]),
        suffixes |-> [suffixes EXCEPT ![stem] = @ + 1]]

(***************************************************************************)
(* DeterministicSymbolNamer::claim: the stem, or the stem with the first   *)
(* suffix from suffixes[stem] on that is not taken.                        *)
(***************************************************************************)
Claim(stem, reserved, suffixes) ==
  LET free(n) == Append(stem, n) \notin reserved
      least == CHOOSE n \in suffixes[stem]..(suffixes[stem] + Cardinality(reserved)) :
                 free(n) /\ \A m \in suffixes[stem]..(n-1) : ~free(m)
  IN  IF stem \notin reserved
      THEN [name |-> stem, suffixes |-> suffixes]
      ELSE [name |-> Append(stem, least),
            suffixes |-> [suffixes EXCEPT ![stem] = least + 1]]

-----------------------------------------------------------------------------
\* The reference: the blocks that have an e-graph, and what their values mean.

\* The values that are there when the k-th operation is come to.
Before(b, k) == {<<"arg", i>> : i \in 1..b.args} \cup {<<"op", b.ops[j].id>> : j \in 1..(k-1)}

\* In a graph region, operands may come after their users.
IsImportable(b) ==
  /\ \A k \in DOMAIN b.ops : LET o == b.ops[k] IN
       /\ o.plain /\ o.outputs = 1 /\ ~o.escapes
       /\ \A i \in DOMAIN o.operands : o.operands[i] \in Before(b, k)
  /\ \A i \in DOMAIN b.results : b.results[i] \in Before(b, Len(b.ops) + 1)

\* The value of each operation of an ordered block, from those of the arguments.
Evaluated(b, Eval(_, _), arguments) ==
  LET eval[n \in Ids(b)] ==
        LET o == OpOf(b, n) IN
        Eval(o.op, [i \in DOMAIN o.operands |->
                      IF o.operands[i][1] = "arg" THEN arguments[o.operands[i][2]]
                      ELSE eval[o.operands[i][2]]])
  IN  eval

Denotes(b, Eval(_, _), arguments, value) ==
  IF value[1] = "arg" THEN arguments[value[2]]
  ELSE Evaluated(b, Eval, arguments)[value[2]]
=============================================================================
