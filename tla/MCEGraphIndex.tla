---------------------------- MODULE MCEGraphIndex ----------------------------
(***************************************************************************)
(* Small bodies for the index.                                             *)
(***************************************************************************)
EXTENDS EGraphIndex, SequencesExt

\* The block order of all names; n is a name intern may give.
Order == <<"x", "y", "n", "a">>
Position(s) == CHOOSE i \in 1..Len(Order) : Order[i] = s
MCFirst(S) == CHOOSE s \in S : \A t \in S : Position(s) <= Position(t)

\* Candidates by e-class, and within one by their first operand.
Earlier(c, d) ==
  \/ Position(c[1]) < Position(d[1])
  \/ c[1] = d[1] /\ Position(c[2].args[1]) < Position(d[2].args[1])
MCListed(C) == SetToSortSeq(C, Earlier)

MCInput == {"x", "y"} \cap Symbol
MCTypeOf == [s \in Symbol |-> "i32"]
MCArity == [o \in Op |-> 1]
MCOperandType == [o \in Op |-> <<"i32">>]
MCResultType == [o \in Op |-> "i32"]

App(o, args) == [op |-> o, args |-> args]

Body(names, candidates, yields, return) ==
  [defined |-> names,
   terms   |-> [s \in Symbol |-> IF s \in DOMAIN candidates THEN candidates[s] ELSE {}],
   aliases |-> [s \in Symbol |-> IF s \in DOMAIN yields THEN yields[s] ELSE {}],
   targets |-> return]

\* f(y) is interned as n.  Two pairs in one call can put both e-classes under
\* an input.
UnderInputs ==
  Body({"x", "y", "a"}, [a |-> {App("f", <<"x">>)}], [s \in {} |-> {}], <<"a">>)

\* When n absorbs a, its alias still needs the name.
Aliased ==
  Body({"x", "y", "n", "a"}, [a |-> {App("f", <<"x">>)}], [n |-> {"a"}], <<"n">>)

MCBodies == {UnderInputs, Aliased}
=============================================================================
