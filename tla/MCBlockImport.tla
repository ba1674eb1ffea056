---------------------------- MODULE MCBlockImport ----------------------------
(***************************************************************************)
(* Families of blocks for TLC, of one argument.                            *)
(***************************************************************************)
EXTENDS BlockImport

MCArgName(i) == <<"arg", i>>

Arg == <<"arg", 1>>
Result(n) == <<"op", n>>
Outer == <<"outer", 1>>

Fine == [plain |-> TRUE, outputs |-> 1, escapes |-> FALSE]

Flawed ==
  {[Fine EXCEPT !.plain = FALSE], [Fine EXCEPT !.outputs = 2], [Fine EXCEPT !.escapes = TRUE]}

Operation(n, o, operands, stem, how) ==
  [id |-> n, op |-> o, operands |-> operands, stem |-> stem,
   plain |-> how.plain, outputs |-> how.outputs, escapes |-> how.escapes]

\* Stems of which one is another with its first suffix, or the name of the argument.
MCStems == {<<"g">>, <<"g", 0>>, <<"arg", 1>>}

Operands ==
  {<<"g", <<v>>>> : v \in {Arg, Result(1), Result(2), Outer}}
  \cup {<<"add", vs>> : vs \in {<<Arg, Arg>>, <<Arg, Result(1)>>, <<Result(1), Arg>>}}

\* Two operations, of which either may be flawed or come too early.
Mixed ==
  {[args |-> 1, results |-> <<r>>,
    ops |-> <<Operation(1, f[1], f[2], s, how), Operation(2, g[1], g[2], t, how2)>>] :
     r \in {Arg, Result(1), Result(2), Outer}, f \in Operands, g \in Operands,
     s \in MCStems, t \in MCStems, how \in Flawed \cup {Fine}, how2 \in Flawed \cup {Fine}}

\* Four operations whose stems collide in every way.
Collisions ==
  {[args |-> 1, results |-> <<Result(3), Result(4)>>,
    ops |-> <<Operation(1, "g", <<Arg>>, n[1], Fine), Operation(2, "g", <<Result(1)>>, n[2], Fine),
              Operation(3, "add", <<Result(2), Result(1)>>, n[3], Fine),
              Operation(4, "g", <<Result(2)>>, n[4], Fine)>>] :
     n \in [1..4 -> MCStems \cup {<<"g", 0, 0>>, <<"g", 1>>}]}

MCBlocks == Mixed \cup Collisions
=============================================================================
