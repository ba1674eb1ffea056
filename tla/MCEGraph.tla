------------------------------ MODULE MCEGraph ------------------------------
(***************************************************************************)
(* Small bodies for TLC.                                                   *)
(***************************************************************************)
EXTENDS EGraphRefinement, EGraphExtractable, Sequences, TLC

\* The block order of all names; n and m are names intern may give.
Order == <<"x", "y", "p", "n", "a", "b", "c", "d", "m">>
Position(s) == CHOOSE i \in 1..Len(Order) : Order[i] = s
MCFirst(S) == CHOOSE s \in S : \A t \in S : Position(s) <= Position(t)

MCInput == {"x", "y", "p"} \cap Symbol
MCTypeOf == [s \in Symbol |-> IF s = "p" THEN "i1" ELSE "i32"]
MCType == {"i1", "i32"}
MCOp == {"f", "add"}
MCArity == ("f" :> 1) @@ ("add" :> 2)
MCOperandType == ("f" :> <<"i32">>) @@ ("add" :> <<"i32", "i1">>)
MCResultType == ("f" :> "i32") @@ ("add" :> "i32")

App(o, args) == [op |-> o, args |-> args]

\* A body from the candidates of its e-classes.
Body(names, candidates, yields, return) ==
  [defined |-> names,
   terms   |-> [s \in Symbol |-> IF s \in DOMAIN candidates THEN candidates[s] ELSE {}],
   aliases |-> [s \in Symbol |-> IF s \in DOMAIN yields THEN yields[s] ELSE {}],
   targets |-> return]

None == [s \in {} |-> {}]

\* A chain that folds onto itself: uniting x with a makes a congruent to b,
\* which makes b congruent to c one round later, and so on.
Chain ==
  Body({"x", "a", "b", "c", "d"},
       [a |-> {App("f", <<"x">>)}, b |-> {App("f", <<"a">>)},
        c |-> {App("f", <<"b">>)}, d |-> {App("f", <<"c">>)}],
       None, <<"c", "d">>)

\* d may be computed as b, and c is above it; p has another type.
Aliased ==
  Body({"x", "p", "a", "b", "c", "d"},
       [a |-> {App("f", <<"x">>)}, b |-> {App("f", <<"a">>)}, c |-> {App("f", <<"d">>)}],
       [d |-> {"b"}], <<"c", "b">>)

\* A block imported with a repeated operation: a and b are congruent at once.
Twins ==
  Body({"x", "p", "a", "b", "c"},
       [a |-> {App("add", <<"x", "p">>)}, b |-> {App("add", <<"x", "p">>)},
        c |-> {App("f", <<"b">>)}],
       None, <<"c", "a">>)

MCUnions == {Chain, Aliased, Twins}
=============================================================================
