------------------------------ MODULE MCExtract ------------------------------
(***************************************************************************)
(* Families of small graphs for TLC: an input x and e-classes a, b and c.  *)
(***************************************************************************)
EXTENDS ExtractBlock

Apply(cost, refs) ==
  [alias |-> FALSE, cost |-> cost, refs |-> refs, args |-> [i \in DOMAIN refs |-> i]]
Alias(s) == [alias |-> TRUE, cost |-> 0, refs |-> <<s>>, args |-> <<1>>]

\* Up to two different choices.
UpToTwo(pool) ==
  {<<>>} \cup {<<c>> : c \in pool} \cup {<<p[1], p[2]>> : p \in {q \in pool \X pool : q[1] # q[2]}}

Graph(leader, ca, cb, cc, roots) ==
  [leader |-> leader, roots |-> roots,
   choices |-> [s \in EClass |-> CASE s = "a" -> ca [] s = "b" -> cb [] s = "c" -> cc]]

Itself == [s \in Symbol |-> s]

\* x may have been united with b: then b leads it and has the alias of x.
Leaders(cb) ==
  {Itself} \cup IF Alias("x") \in ToSet(cb) THEN {[Itself EXCEPT !["x"] = "b"]} ELSE {}

\* Two mutually dependent e-classes below a; all operations cost something.
Cyclic ==
  {Graph(f[2], f[1][1], f[1][2], f[1][3], <<"a", "c">>) :
     f \in UNION {{<<ch, l>> : l \in Leaders(ch[2])} : ch \in
       {<<Apply(1, <<"b", "c">>)>>, <<Alias("b"), Apply(1, <<"c">>)>>}
         \X UpToTwo({Apply(2, <<>>), Apply(1, <<"c">>), Apply(1, <<"a">>), Alias("x"), Alias("c")})
         \X UpToTwo({Apply(2, <<>>), Apply(1, <<"b">>), Apply(NoCost, <<>>), Alias("b"), Alias("x")})}}

\* Sharing, ties and free operations, which must not be selected for nothing.
Shared ==
  {Graph(Itself, ca, cb, cc, <<"a", "b">>) :
     ca \in {<<Apply(1, <<"b", "c">>), Apply(1, <<"c">>)>>, <<Apply(0, <<"c">>), Alias("c")>>},
     cb \in UpToTwo({Apply(2, <<>>), Apply(0, <<"c">>), Apply(1, <<"x">>), Alias("c")}),
     cc \in UpToTwo({Apply(1, <<>>), Apply(0, <<"b">>), Alias("a"), Apply(NoCost, <<>>)})}

\* Without cycles, where terms repeat: the cost of a may exceed MaxCost.
Towers ==
  {Graph(Itself, ca, cb, cc, <<"a">>) :
     ca \in UpToTwo({Apply(1, <<"b", "b">>), Apply(0, <<"b", "c">>), Alias("b")}),
     cb \in UpToTwo({Apply(1, <<"c", "c">>), Apply(2, <<>>), Alias("c"), Apply(0, <<"c">>)}),
     cc \in UpToTwo({Apply(3, <<>>), Apply(1, <<"x">>), Alias("x"), Apply(4, <<>>)})}

\* b is an alias of a and a of b: one is searched while the other is.
Aliased ==
  {Graph(Itself, <<Apply(1, <<>>), Alias("b")>>, <<Apply(cost, <<"a">>), Apply(3, <<>>)>>,
         <<Alias("b")>>, <<"a", "c", "b">>) : cost \in {0, 1}}

Families == Cyclic \cup Towers \cup Shared \cup Aliased

\* Bodies whose operations take the block arguments in another order.
Permuted ==
  {Graph(Itself, ca, <<Apply(1, <<>>)>>, <<Apply(1, <<"x">>)>>, <<"a">>) :
     ca \in {<<[Apply(1, refs) EXCEPT !.args = args]>> :
               refs \in [1..2 -> {"b", "c", "x"}], args \in {<<1, 2>>, <<2, 1>>}}
            \cup {<<[Apply(1, refs) EXCEPT !.args = args]>> :
               refs \in [1..3 -> {"b", "c", "x"}], args \in {<<1, 2, 3>>, <<2, 3, 1>>, <<1, 3, 2>>}}}
=============================================================================
