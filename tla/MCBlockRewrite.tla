---------------------------- MODULE MCBlockRewrite ----------------------------
(***************************************************************************)
(* Small blocks and a two-valued algebra for TLC: f is a negation and add  *)
(* a conjunction.                                                          *)
(***************************************************************************)
EXTENDS BlockRewrite, TLC

MCArgName(i) == <<"arg", i>>
X == MCArgName(1)

Order == <<X, <<"g">>, <<"g", 0>>, <<"g", 1>>, <<"n">> >>
MCSymbol == {X, <<"g">>, <<"g", 0>>, <<"n">>}
Position(s) == CHOOSE i \in 1..Len(Order) : Order[i] = s
MCFirst(S) == CHOOSE s \in S : \A t \in S : Position(s) <= Position(t)

MCInput == {X}
MCType == {"i1"}
MCTypeOf == [s \in Symbol |-> "i1"]
MCOp == {"f", "add"}
MCArity == ("f" :> 1) @@ ("add" :> 2)
MCOperandType == ("f" :> <<"i1">>) @@ ("add" :> <<"i1", "i1">>)
MCResultType == ("f" :> "i1") @@ ("add" :> "i1")
MCValue == {0, 1}
MCEval(o, vs) == IF o = "f" THEN 1 - vs[1] ELSE vs[1] * vs[2]

Apply(n, o, operands) ==
  [id |-> n, op |-> o, operands |-> operands, stem |-> <<"g">>,
   plain |-> TRUE, outputs |-> 1, escapes |-> FALSE]

Arg == <<"arg", 1>>
Result(n) == <<"op", n>>

\* f(f(x)), which may be united with x.
Twice ==
  [args |-> 1, results |-> <<Result(2), Result(1)>>,
   ops |-> <<Apply(1, "f", <<Arg>>), Apply(2, "f", <<Result(1)>>)>>]

\* add(f(x), x) and the like, whose operands are shared or repeat.
Sum ==
  [args |-> 1, results |-> <<Result(2), Arg>>,
   ops |-> <<Apply(1, "f", <<Arg>>), Apply(2, "add", <<Result(1), Arg>>)>>]

\* f(f(x)) again, for a client of materializeEGraphExtractInfo, which leaves
\* the results of a block alone.
Kept == [Twice EXCEPT !.results = <<Result(2), Result(2)>>]

MCBlocks == {Twice, Sum, Kept}
MCCallers(b) == IF b.results = Kept.results THEN {"info"} ELSE {"state"}
MCGraphs == {Imported(b) : b \in MCBlocks}

MCAsked(how) == IF how = "state" THEN {<<X, <<"g">>>>} ELSE {}
=============================================================================
