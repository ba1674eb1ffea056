---------------------------- MODULE MCMatchDriver ----------------------------
(***************************************************************************)
(* Small bodies and pattern sets for TLC.                                  *)
(***************************************************************************)
EXTENDS MatchDriver, TLC

\* The block order of all names; n1 to n5 are names intern may give.
Order == <<"x", "y", "z", "p", "lhs", "rhs", "parent", "tail", "a", "b", "c", "n1", "n2", "n3", "n4", "n5">>
Position(s) == CHOOSE i \in 1..Len(Order) : Order[i] = s
MCFirst(S) == CHOOSE s \in S : \A t \in S : Position(s) <= Position(t)

MCInput == {"x", "y", "z", "p"} \cap Symbol
MCTypeOf == [s \in Symbol |-> IF s = "p" THEN "i1" ELSE "i32"]
MCType == {"i1", "i32"}
MCArity == [o \in Op |-> IF o \in {"add", "op_a"} THEN 2 ELSE 1]
MCOperandType == [o \in Op |-> IF o \in {"add", "op_a"} THEN <<"i32", "i32">> ELSE <<"i32">>]
MCResultType == [o \in Op |-> "i32"]

App(o, args) == [op |-> o, args |-> args]

Body(names, candidates, return) ==
  [defined |-> names,
   terms   |-> [s \in Symbol |-> IF s \in DOMAIN candidates THEN candidates[s] ELSE {}],
   aliases |-> [s \in Symbol |-> {}],
   targets |-> return]

Value(s) == <<"value", s>>
Scratch(i) == <<"scratch", i>>
ScratchOp(o, args) == [op |-> o, args |-> args, type |-> "i32"]

\* A pattern that matches and records nothing.
NoMatch == [ops |-> <<>>, events |-> <<>>]

Replace(root, ops, by) == [ops |-> ops, events |-> <<[root |-> root, by |-> by]>>]

\* root.getOperand(1).getDefs(), those that apply o.
Defs(root, o, candidates, leader) ==
  {t \in candidates[leader[root.term.args[1]]] : t.op = o}

MCRewrites(p, root, candidates, leader) ==
  LET t == root.term IN
  CASE p = "involution" /\ t.op = "g" ->    \* g(g(u)) = u
         {Replace(root, <<>>, Value(d.args[1])) : d \in Defs(root, "g", candidates, leader)}
    [] p = "project" /\ t.op = "k" ->       \* k(g(u)) = u
         {Replace(root, <<>>, Value(d.args[1])) : d \in Defs(root, "g", candidates, leader)}
    [] p = "expand" /\ t.op \in {"h", "h_tagged"} ->  \* h(u) = g(g(u)); an unused operation is left behind
         {Replace(root,
                  <<ScratchOp("g", <<Value(t.args[1])>>),
                    ScratchOp("h", <<Scratch(1)>>),
                    ScratchOp("g", <<Scratch(1)>>)>>,
                  Scratch(3))}
    [] p = "commute" /\ t.op = "add" ->     \* add(u, v) = add(v, u)
         {Replace(root, <<ScratchOp("add", <<Value(t.args[2]), Value(t.args[1])>>)>>, Scratch(1))}
    [] p = "noop" /\ t.op = "h" -> {NoMatch}
    [] p = "erratic" /\ t.op = "h" ->       \* at times a value of another type, or an op of two results
         {NoMatch, Replace(root, <<>>, Value(t.args[1])), Replace(root, <<>>, Value("p")),
          Replace(root, <<ScratchOp("g", <<Value(t.args[1])>>), ScratchOp("pair", <<Scratch(1)>>)>>, Scratch(2))}
    [] p = "nested" /\ t.op = "parent_b" ->  \* WorklistNestedRewritePattern of the driver test
         {Replace(root, <<ScratchOp("added_b", <<Value(d.args[1])>>)>>, Scratch(1)) :
            d \in Defs(root, "op_a", candidates, leader)}
    [] OTHER -> {}

NoFolds(root, candidates, leader) == {}

\* h_tagged folds in place to h, in every round, as the op_b of the test dialect does.
TagFolds(root, candidates, leader) ==
  IF root.term.op = "h_tagged"
  THEN {Replace(root, <<ScratchOp("h", <<Value(root.term.args[1])>>)>>, Scratch(1))}
  ELSE {}

\* add(u, u) folds to u.
AddFolds(root, candidates, leader) ==
  IF root.term.op = "add" /\ leader[root.term.args[1]] = leader[root.term.args[2]]
  THEN {Replace(root, <<>>, Value(root.term.args[1]))}
  ELSE {}

\* k of h of x: once expand has put a g into the class of a, project matches
\* b, and involution unites a with x.
Tower ==
  Body({"x", "a", "b"},
       [a |-> {App("h", <<"x">>)}, b |-> {App("k", <<"a">>)}], <<"b">>)

\* The tag makes h fold, and expand, which matches it as well, is skipped; it
\* has to find the h that the fold has made.
Tagged ==
  Body({"x", "a"}, [a |-> {App("h_tagged", <<"x">>)}], <<"a">>)

\* An addition, and h of it; p has another type.
Sums ==
  Body({"x", "y", "p", "a", "b"},
       [a |-> {App("add", <<"x", "y">>)}, b |-> {App("h", <<"a">>)}], <<"b">>)

\* The graph of the driver test; the tag of an op_b is part of its name.
DriverTest ==
  Body({"x", "y", "z", "lhs", "rhs", "parent", "tail"},
       [lhs |-> {App("op_a", <<"x", "y">>)}, rhs |-> {App("rhs_b", <<"z">>)},
        parent |-> {App("parent_b", <<"rhs">>)}, tail |-> {App("tail_b", <<"z">>)}],
       <<"parent">>)

MCTower == {Tower, Tagged}
MCSums == {Sums}
TowerPatterns == <<"expand", "involution", "project">>
SumPatterns == <<"commute", "noop", "erratic">>
MCDriverTest == {DriverTest}
DriverTestPatterns == <<"nested">>
MCDriverTestCalls == {{<<"lhs", "rhs">>}}
MCTowerCalls == {{<<"b", "x">>}}
MCSumCalls == {{<<"x", "y">>}}

(***************************************************************************)
(* test/Driver/egraph-worklist-driver.mlir: driving the graph rewrites one *)
(* root, parent, and leaves one stale candidate in the worklist.           *)
(***************************************************************************)
TailBecomesStale ==
  mode = "done" /\ Cardinality(terms["parent"]) = 2 => skippedStale
=============================================================================
