-------------------------- MODULE MCOpenTransactions --------------------------
(***************************************************************************)
(* Two transactions on a tower of two operations, for TLC.                 *)
(***************************************************************************)
EXTENDS OpenTransactions, TLC

\* The block order of all names; n1 to n4 are names intern may give.
Order == <<"x", "p", "a", "b", "n1", "n2", "n3", "n4">>
Position(s) == CHOOSE i \in 1..Len(Order) : Order[i] = s
MCFirst(S) == CHOOSE s \in S : \A t \in S : Position(s) <= Position(t)

MCInput == {"x", "p"} \cap Symbol
MCTypeOf == [s \in Symbol |-> IF s = "p" THEN "i1" ELSE "i32"]
MCArity == [o \in Op |-> 1]
MCOperandType == [o \in Op |-> <<"i32">>]
MCResultType == [o \in Op |-> "i32"]

App(o, s) == [op |-> o, args |-> <<s>>]

\* b = g(a), a = g(x): building g(x) hits the table, g(b) does not.
Tower ==
  [defined |-> {"x", "p", "a", "b"} \cap Symbol,
   terms   |-> [s \in Symbol |-> CASE s = "a" -> {App("g", "x")}
                                   [] s = "b" -> {App("g", "a")}
                                   [] OTHER -> {}],
   aliases |-> [s \in Symbol |-> {}],
   targets |-> [i \in Slot |-> "b"]]

Exchange == Permutations(Tx)

MCGraphs == {Tower}

\* An operation of one operand, and one of two results, which intern refuses.
Unary == [op |-> "g", arity |-> 1, type |-> "i32"]
Pair  == [op |-> "pair", arity |-> 1, type |-> "i32"]
MCBuilt == {Unary, Pair}
MCBuiltUnary == {Unary}
=============================================================================
