--------------------------- MODULE ExtractTheorems ---------------------------
(***************************************************************************)
(* What the backends of extraction select, for every clean graph, cost     *)
(* bound and sequence of calls.                                            *)
(***************************************************************************)
EXTENDS Extract, FiniteSetTheorems, SequenceTheorems, WellFoundedInduction, TLAPS

-----------------------------------------------------------------------------
\* Numbers and sums.

\* The order on the naturals, as a relation.
Less == {p \in Nat \X Nat : p[1] < p[2]}

\* A set of numbers that is not empty has a least one.
LEMMA LeastNumber ==
  ASSUME NEW T \in SUBSET Nat, T # {}
  PROVE  \E n \in T : \A m \in T : ~(m < n)
PROOF
  <1>1. IsWellFoundedOn(Less, Nat)
    BY NatLessThanWellFounded DEF OpToRel, Less
  <1>2. PICK x \in T : \A y \in T : ~(<<y, x>> \in Less)
    BY <1>1, WFMin, Zenon
  <1> QED BY <1>2 DEF Less

\* The sums of first and the first k numbers, up to the n-th.
SumStep(first, number, n, sum) ==
  [k \in 0..n |-> IF k = 0 THEN first ELSE sum[k-1] + number[k]]

IsSums(first, number, n, sum) == sum = SumStep(first, number, n, sum)

\* There are such sums.
LEMMA SumsExist ==
  ASSUME NEW first, NEW number, NEW n \in Nat
  PROVE  \E sum : IsSums(first, number, n, sum)
PROOF
  <1> DEFINE T == {m \in Nat : ~ \E sum : IsSums(first, number, m, sum)}
  <1>1. SUFFICES T = {}
    OBVIOUS
  <1>2. SUFFICES ASSUME T # {} PROVE FALSE
    OBVIOUS
  <1>3. PICK m \in T : \A l \in T : ~(l < m)
    <2>1. T \in SUBSET Nat
      OBVIOUS
    <2> QED BY <1>2, <2>1, LeastNumber, Zenon
  <1>4. CASE m = 0
    <2>1. IsSums(first, number, 0, [k \in 0..0 |-> first])
      BY DEF IsSums, SumStep
    <2> QED BY <1>3, <1>4, <2>1
  <1>5. CASE m # 0
    <2>1. m - 1 \in Nat /\ m - 1 < m
      BY <1>5
    <2>2. PICK sum : IsSums(first, number, m - 1, sum)
      BY <1>3, <2>1
    <2>3. PICK all : all = [k \in 0..m |-> IF k = m THEN sum[m - 1] + number[m] ELSE sum[k]]
      OBVIOUS
    <2>4. \A k \in 0..(m - 1) : sum[k] = IF k = 0 THEN first ELSE sum[k - 1] + number[k]
      BY <2>2 DEF IsSums, SumStep
    <2>5. \A k \in 0..m : all[k] = IF k = 0 THEN first ELSE all[k - 1] + number[k]
      <3> TAKE k \in 0..m
      <3>1. CASE k = m
        BY <1>5, <2>1, <2>3, <3>1
      <3>2. CASE k # m /\ k = 0
        BY <2>1, <2>3, <2>4, <3>2
      <3>3. CASE k # m /\ k # 0
        <4>1. k \in 0..(m - 1) /\ k - 1 \in 0..m /\ k - 1 # m
          BY <2>1, <3>3
        <4> QED BY <2>3, <2>4, <3>3, <4>1
      <3> QED BY <3>1, <3>2, <3>3
    <2>6. all = [k \in 0..m |-> all[k]]
      BY <2>3
    <2>7. IsSums(first, number, m, all)
      BY <2>5, <2>6 DEF IsSums, SumStep
    <2> QED BY <1>3, <2>7
  <1> QED BY <1>4, <1>5

\* SumTo picks one of them.
LEMMA SumToSums ==
  ASSUME NEW first, NEW number, NEW n \in Nat
  PROVE  \E sum : IsSums(first, number, n, sum) /\ SumTo(first, number, n) = sum[n]
PROOF
  <1>1. PICK some : some = [k \in 0..n |-> IF k = 0 THEN first ELSE some[k-1] + number[k]]
    <2>1. PICK some : IsSums(first, number, n, some)
      BY SumsExist, Zenon
    <2> QED BY <2>1, Zenon DEF IsSums, SumStep
  <1>2. PICK sum : sum = CHOOSE s : s = [k \in 0..n |-> IF k = 0 THEN first ELSE s[k-1] + number[k]]
    OBVIOUS
  <1>3. sum = [k \in 0..n |-> IF k = 0 THEN first ELSE sum[k-1] + number[k]]
    BY <1>1, <1>2, Zenon
  <1>4. SumTo(first, number, n) = sum[n]
    BY <1>2 DEF SumTo
  <1> QED BY <1>3, <1>4 DEF IsSums, SumStep

\* What a sum is, by its last number.
LEMMA SumStart ==
  ASSUME NEW first, NEW number
  PROVE  SumTo(first, number, 0) = first
PROOF
  <1>1. PICK sum : IsSums(first, number, 0, sum) /\ SumTo(first, number, 0) = sum[0]
    BY SumToSums
  <1> QED BY <1>1 DEF IsSums, SumStep

\* A sum with one more number.
LEMMA SumNext ==
  ASSUME NEW first, NEW number, NEW n \in Nat
  PROVE  SumTo(first, number, n + 1) = SumTo(first, number, n) + number[n + 1]
PROOF
  <1>1. PICK long : IsSums(first, number, n + 1, long) /\ SumTo(first, number, n + 1) = long[n + 1]
    BY SumToSums
  <1>2. PICK short : IsSums(first, number, n, short) /\ SumTo(first, number, n) = short[n]
    BY SumToSums
  <1>3. \A k \in 0..(n + 1) : long[k] = IF k = 0 THEN first ELSE long[k - 1] + number[k]
    BY <1>1 DEF IsSums, SumStep
  <1>4. \A k \in 0..n : short[k] = IF k = 0 THEN first ELSE short[k - 1] + number[k]
    BY <1>2 DEF IsSums, SumStep
  <1>5. {k \in 0..n : long[k] # short[k]} = {}
    <2> SUFFICES ASSUME {k \in 0..n : long[k] # short[k]} # {} PROVE FALSE
      OBVIOUS
    <2>1. {k \in 0..n : long[k] # short[k]} \in SUBSET Nat
      OBVIOUS
    <2>2. PICK k \in {l \in 0..n : long[l] # short[l]} :
            \A l \in {m \in 0..n : long[m] # short[m]} : ~(l < k)
      BY <2>1, LeastNumber, Zenon
    <2>3. k \in 0..n /\ long[k] # short[k]
      BY <2>2
    <2>4. k # 0
      BY <2>3, <1>3, <1>4
    <2>5. k - 1 \in 0..n /\ k - 1 < k
      BY <2>3, <2>4
    <2>6. long[k - 1] = short[k - 1]
      BY <2>2, <2>5
    <2> QED BY <2>3, <2>4, <2>6, <1>3, <1>4
  <1>6. long[n] = short[n]
    BY <1>5
  <1>7. long[n + 1] = long[n] + number[n + 1]
    BY <1>3
  <1> QED BY <1>1, <1>2, <1>6, <1>7

\* Sums of numbers are numbers, and grow.
LEMMA SumNat ==
  ASSUME NEW first \in Nat, NEW number, NEW n \in Nat, \A i \in 1..n : number[i] \in Nat
  PROVE  /\ \A k \in 0..n : SumTo(first, number, k) \in Nat
         /\ \A k \in 0..n : SumTo(first, number, k) >= first
         /\ \A k \in 1..n : SumTo(first, number, k) >= number[k]
PROOF
  <1> DEFINE Sum(k) == SumTo(first, number, k)
             T == {k \in 0..n : ~(Sum(k) \in Nat /\ Sum(k) >= first)}
  <1>0. Sum(0) = first /\ \A k \in Nat : Sum(k + 1) = Sum(k) + number[k + 1]
    BY SumStart, SumNext
  <1> HIDE DEF Sum
  <1>1. T = {}
    <2> SUFFICES ASSUME T # {} PROVE FALSE
      OBVIOUS
    <2>1. T \in SUBSET Nat
      OBVIOUS
    <2>2. PICK k \in T : \A l \in T : ~(l < k)
      BY <2>1, LeastNumber, Zenon
    <2>3. k \in 0..n /\ k # 0
      BY <2>2, <1>0
    <2>4. k - 1 \in 0..n /\ k - 1 \in Nat /\ k - 1 < k /\ (k - 1) + 1 = k
      BY <2>3
    <2>5. Sum(k - 1) \in Nat /\ Sum(k - 1) >= first
      BY <2>2, <2>4
    <2>6. Sum(k) = Sum(k - 1) + number[k] /\ number[k] \in Nat
      BY <1>0, <2>3, <2>4
    <2> QED BY <2>2, <2>5, <2>6
  <1>2. \A k \in 1..n : Sum(k) >= number[k]
    <2> TAKE k \in 1..n
    <2>1. k - 1 \in 0..n /\ k - 1 \in Nat /\ (k - 1) + 1 = k
      OBVIOUS
    <2>2. Sum(k) = Sum(k - 1) + number[k] /\ number[k] \in Nat
      BY <1>0, <2>1
    <2>3. Sum(k - 1) \in Nat
      BY <1>1, <2>1
    <2> QED BY <2>2, <2>3
  <1> QED BY <1>1, <1>2 DEF Sum

\* A sum of smaller numbers is smaller.
LEMMA SumMonotone ==
  ASSUME NEW first \in Nat, NEW second \in Nat, NEW number, NEW other, NEW n \in Nat,
         first <= second, \A i \in 1..n : number[i] \in Nat /\ other[i] \in Nat /\ number[i] <= other[i]
  PROVE  SumTo(first, number, n) <= SumTo(second, other, n)
PROOF
  <1> DEFINE Sum(k) == SumTo(first, number, k)
             Other(k) == SumTo(second, other, k)
             T == {k \in 0..n : ~(Sum(k) <= Other(k))}
  <1>0. Sum(0) = first /\ \A k \in Nat : Sum(k + 1) = Sum(k) + number[k + 1]
    BY SumStart, SumNext
  <1>1. Other(0) = second /\ \A k \in Nat : Other(k + 1) = Other(k) + other[k + 1]
    BY SumStart, SumNext
  <1>2. \A k \in 0..n : Sum(k) \in Nat /\ Other(k) \in Nat
    BY SumNat
  <1> HIDE DEF Sum, Other
  <1>3. T = {}
    <2> SUFFICES ASSUME T # {} PROVE FALSE
      OBVIOUS
    <2>1. T \in SUBSET Nat
      OBVIOUS
    <2>2. PICK k \in T : \A l \in T : ~(l < k)
      BY <2>1, LeastNumber, Zenon
    <2>3. k \in 0..n /\ k # 0
      BY <2>2, <1>0, <1>1
    <2>4. k - 1 \in 0..n /\ k - 1 \in Nat /\ k - 1 < k /\ (k - 1) + 1 = k
      BY <2>3
    <2>5. Sum(k - 1) <= Other(k - 1) /\ Sum(k - 1) \in Nat /\ Other(k - 1) \in Nat
      BY <2>2, <2>4, <1>2
    <2>6. Sum(k) = Sum(k - 1) + number[k] /\ Other(k) = Other(k - 1) + other[k]
      BY <1>0, <1>1, <2>4
    <2>7. number[k] \in Nat /\ other[k] \in Nat /\ number[k] <= other[k]
      BY <2>3
    <2> QED BY <2>2, <2>5, <2>6, <2>7
  <1> QED BY <1>3 DEF Sum, Other

\* A sum of the same numbers is the same.
LEMMA SumSame ==
  ASSUME NEW first, NEW number, NEW other, NEW n \in Nat, \A i \in 1..n : number[i] = other[i]
  PROVE  SumTo(first, number, n) = SumTo(first, other, n)
PROOF
  <1> DEFINE Sum(k) == SumTo(first, number, k)
             Other(k) == SumTo(first, other, k)
             T == {k \in 0..n : Sum(k) # Other(k)}
  <1>0. Sum(0) = first /\ \A k \in Nat : Sum(k + 1) = Sum(k) + number[k + 1]
    BY SumStart, SumNext
  <1>1. Other(0) = first /\ \A k \in Nat : Other(k + 1) = Other(k) + other[k + 1]
    BY SumStart, SumNext
  <1> HIDE DEF Sum, Other
  <1>3. T = {}
    <2> SUFFICES ASSUME T # {} PROVE FALSE
      OBVIOUS
    <2>1. T \in SUBSET Nat
      OBVIOUS
    <2>2. PICK k \in T : \A l \in T : ~(l < k)
      BY <2>1, LeastNumber, Zenon
    <2>3. k \in 0..n /\ k # 0
      BY <2>2, <1>0, <1>1
    <2>4. k - 1 \in 0..n /\ k - 1 \in Nat /\ k - 1 < k /\ (k - 1) + 1 = k
      BY <2>3
    <2>5. Sum(k - 1) = Other(k - 1)
      BY <2>2, <2>4
    <2>6. Sum(k) = Sum(k - 1) + number[k] /\ Other(k) = Other(k - 1) + other[k]
      BY <1>0, <1>1, <2>4
    <2> QED BY <2>2, <2>3, <2>5, <2>6
  <1> QED BY <1>3 DEF Sum, Other

-----------------------------------------------------------------------------
\* Sequences of frames.

\* A function on 1..l is a sequence.
LEMMA FunctionIsSeq ==
  ASSUME NEW T, NEW l \in Nat, NEW f \in [1..l -> T]
  PROVE  f \in Seq(T)
  OBVIOUS

\* A frame is pushed.
LEMMA PushFrame ==
  ASSUME NEW F, NEW s \in Seq(F), NEW f \in F
  PROVE  /\ Append(s, f) \in Seq(F)
         /\ Len(Append(s, f)) = Len(s) + 1
         /\ Append(s, f)[Len(s) + 1] = f
         /\ \A n \in 1..Len(s) : Append(s, f)[n] = s[n]
  OBVIOUS

\* A frame is popped.
LEMMA PopFrame ==
  ASSUME NEW F, NEW s \in Seq(F), s # <<>>
  PROVE  /\ Pop(s) \in Seq(F)
         /\ Len(s) \in Nat \ {0}
         /\ s[Len(s)] \in F
         /\ Len(Pop(s)) = Len(s) - 1
         /\ \A n \in 1..(Len(s) - 1) : Pop(s)[n] = s[n]
PROOF
  <1>1. Len(s) \in Nat \ {0} /\ s \in [1..Len(s) -> F]
    OBVIOUS
  <1>2. Pop(s) \in [1..(Len(s) - 1) -> F] /\ Len(s) - 1 \in Nat
    BY <1>1 DEF Pop
  <1>3. Pop(s) \in Seq(F) /\ Len(Pop(s)) = Len(s) - 1
    BY <1>2
  <1> QED BY <1>1, <1>3 DEF Pop

\* The frame on top changes.
LEMMA TopFrame ==
  ASSUME NEW F, NEW s \in Seq(F), s # <<>>, NEW f \in F
  PROVE  /\ [s EXCEPT ![Len(s)] = f] \in Seq(F)
         /\ Len([s EXCEPT ![Len(s)] = f]) = Len(s)
         /\ [s EXCEPT ![Len(s)] = f][Len(s)] = f
         /\ \A n \in 1..(Len(s) - 1) : [s EXCEPT ![Len(s)] = f][n] = s[n]
PROOF
  <1>1. Len(s) \in Nat \ {0} /\ s \in [1..Len(s) -> F]
    OBVIOUS
  <1>2. [s EXCEPT ![Len(s)] = f] \in [1..Len(s) -> F]
    BY <1>1
  <1>3. [s EXCEPT ![Len(s)] = f] \in Seq(F) /\ Len([s EXCEPT ![Len(s)] = f]) = Len(s)
    BY <1>1, <1>2
  <1>4. [s EXCEPT ![Len(s)] = f][Len(s)] = f
    BY <1>1
  <1>5. \A l \in Nat : \A n \in 1..(l - 1) : n \in 1..l /\ n # l
    OBVIOUS
  <1>6. \A n \in 1..Len(s) : n # Len(s) => [s EXCEPT ![Len(s)] = f][n] = s[n]
    BY <1>1
  <1> QED BY <1>1, <1>3, <1>4, <1>5, <1>6

\* Frames of one kind are frames of a weaker one.
LEMMA WeakerFrames ==
  ASSUME NEW F, NEW G, F \subseteq G, NEW s \in Seq(F)
  PROVE  s \in Seq(G)
PROOF
  <1>1. Len(s) \in Nat /\ s \in [1..Len(s) -> G]
    OBVIOUS
  <1> QED BY <1>1

\* No frame is left when the only one is popped.
LEMMA PopLast ==
  ASSUME NEW F, NEW s \in Seq(F), s # <<>>
  PROVE  Pop(s) = <<>> <=> Len(s) = 1
PROOF
  <1>1. Pop(s) \in Seq(F) /\ Len(s) \in Nat \ {0} /\ Len(Pop(s)) = Len(s) - 1
    BY PopFrame
  <1>2. Pop(s) = <<>> <=> Len(Pop(s)) = 0
    BY <1>1
  <1> QED BY <1>1, <1>2

-----------------------------------------------------------------------------
(***************************************************************************)
(* The invariant under SelectsExtraction: every choice that is remembered  *)
(* has operands that are remembered, and every e-class that is emitted has *)
(* a term made of those emitted before it.                                 *)
(***************************************************************************)
Key == {"leader", "raw"} \X Symbol
Best == [choice : Nat, cost : 0..MaxCost]
Steps == Nat \ {0}
SearchFrame ==
  [key : {"leader", "raw"} \X EClass, left : SUBSET Nat, choice : Nat, child : Steps,
   cost : 0..MaxCost, best : Best]
CollectFrame == [key : {"leader", "raw"} \X EClass, choice : Nat, child : Steps]
AssembleFrame == [symbol : EClass, child : Steps, cost : 0..MaxCost]

KeysOf(g, s, i) == ChildKeys(g, g.choices[s][i])
ChildrenOf(g, s, i) == Children(g.choices[s][i])

\* The operands of the choice before the n-th are in known.
AreKnown(keys, n, known) == \A j \in DOMAIN keys : j < n => keys[j] \in known
HasTerm(g, known, s, i) ==
  i \in UsableChoices(g, s) /\ \A j \in DOMAIN KeysOf(g, s, i) : KeysOf(g, s, i)[j] \in known

MemoOK(g, memory) ==
  \A k \in DOMAIN memory :
    /\ k \in Key
    /\ memory[k] \in Best
    /\ k[2] \in EClass => HasTerm(g, DOMAIN memory, k[2], memory[k].choice)

SearchFrames(g, known) ==
  {f \in SearchFrame :
     /\ f.left \subseteq DOMAIN g.choices[f.key[2]]
     /\ f.choice # 0 => /\ f.choice \in UsableChoices(g, f.key[2])
                        /\ AreKnown(KeysOf(g, f.key[2], f.choice), f.child, known)
     /\ f.best.choice # 0 => HasTerm(g, known, f.key[2], f.best.choice)}

CollectFrames(g, memory, names) ==
  {f \in CollectFrame :
     /\ f.key \in DOMAIN memory
     /\ f.choice = memory[f.key].choice
     /\ AreKnown(ChildrenOf(g, f.key[2], f.choice), f.child, names)}

AssembleFrames(g, sel, names) ==
  {f \in AssembleFrame :
     /\ f.symbol \in DOMAIN sel
     /\ AreKnown(ChildrenOf(g, f.symbol, sel[f.symbol]), f.child, names)}

\* The names that have a term.
Terms(result) == Input \cup {e[1] : e \in Entries(result)}

Result ==
  [ok : BOOLEAN, ops : Seq(EClass \X Nat), aliases : Seq(EClass \X Nat), rootCosts : Seq(0..MaxCost)]

EntriesOK(g, result) ==
  /\ result \in Result
  /\ \A e \in Entries(result) : e[2] \in UsableChoices(g, e[1])
  /\ \A e \in Entries(result) : Needs(g.choices[e[1]][e[2]]) \subseteq Terms(result)
  /\ \A S \in SUBSET Symbol :
       /\ Input \subseteq S
       /\ \A e \in Entries(result) : Needs(g.choices[e[1]][e[2]]) \subseteq S => e[1] \in S
       => Terms(result) \subseteq S

SelOK(g, sel) == DOMAIN sel \subseteq EClass /\ \A s \in DOMAIN sel : sel[s] \in UsableChoices(g, s)

CostsOK(costs) == DOMAIN costs \subseteq Symbol /\ \A s \in DOMAIN costs : costs[s] \in 0..MaxCost

RootKeys(g) == [i \in DOMAIN g.roots |-> LeaderKey(g, g.roots[i])]

\* Each frame is at the operand that the next one is about, the loop is at the first.
IsChain(g, frames, r) ==
  \A n \in DOMAIN frames :
    /\ n = 1 => r \in DOMAIN g.roots /\ frames[n].key = RootKeys(g)[r]
    /\ n > 1 => LET f == frames[n - 1]
                IN  /\ f.choice # 0
                    /\ f.child \in DOMAIN KeysOf(g, f.key[2], f.choice)
                    /\ frames[n].key = KeysOf(g, f.key[2], f.choice)[f.child]

IdleInv == pc = "idle" => /\ stack = <<>>
                          /\ info.ok => Roots(graph) \subseteq Terms(info)
SearchInv == pc = "search" => /\ mode = "greedy"
                              /\ info = NoInfo
                              /\ stack \in Seq(SearchFrames(graph, DOMAIN memo))
                              /\ AreKnown(RootKeys(graph), root, DOMAIN memo)
CollectInv == pc = "collect" => /\ mode = "greedy"
                                /\ stack \in Seq(CollectFrames(graph, memo, Terms(info)))
                                /\ IsChain(graph, stack, root)
                                /\ AreKnown(RootKeys(graph), Len(graph.roots) + 1, DOMAIN memo)
                                /\ AreKnown(graph.roots, root, Terms(info))
PopulateInv == pc = "populate" => stack = <<>> /\ root = 1 /\ info = NoInfo /\ subtreeCosts = <<>>
AssembleInv == pc = "assemble" => /\ SelOK(graph, assignment.sel)
                                  /\ CostsOK(subtreeCosts)
                                  /\ DOMAIN subtreeCosts \subseteq Terms(info)
                                  /\ stack \in Seq(AssembleFrames(graph, assignment.sel, DOMAIN subtreeCosts))
                                  /\ AreKnown(graph.roots, root, DOMAIN subtreeCosts)

ExtractTypeOK ==
  /\ graph \in ExtractGraphs
  /\ mode \in Backends \cup {"none"}
  /\ pc \in {"idle", "search", "collect", "populate", "assemble"}
  /\ pc \in {"populate", "assemble"} => mode # "greedy"
  /\ root \in Steps
  /\ MemoOK(graph, memo)
  /\ EntriesOK(graph, info)

ExtractInv ==
  ExtractTypeOK /\ IdleInv /\ SearchInv /\ CollectInv /\ PopulateInv /\ AssembleInv

\* What a clean graph says of the operands of a choice.
LEMMA ChoiceFacts ==
  ASSUME NEW g \in ExtractGraphs, NEW s \in EClass, NEW i \in DOMAIN g.choices[s]
  PROVE  /\ ChildrenOf(g, s, i) \in Seq(Symbol)
         /\ DOMAIN KeysOf(g, s, i) = DOMAIN ChildrenOf(g, s, i)
         /\ \A j \in DOMAIN ChildrenOf(g, s, i) :
              /\ KeysOf(g, s, i)[j] \in Key
              /\ g.choices[s][i].alias => KeysOf(g, s, i)[j] = <<"raw", ChildrenOf(g, s, i)[j]>>
              /\ ~g.choices[s][i].alias => KeysOf(g, s, i)[j] = <<"leader", ChildrenOf(g, s, i)[j]>>
              /\ KeysOf(g, s, i)[j][2] = ChildrenOf(g, s, i)[j]
         /\ g.choices[s][i].cost \in NoCost..MaxCost
         /\ i \in Nat \ {0}
PROOF
  <1>0. PICK c : c = g.choices[s][i]
    OBVIOUS
  <1>1. IsCleanGraph(g)
    BY GraphsClean
  <1>2. g.choices[s] \in Seq(Choice)
    BY <1>1 DEF IsCleanGraph
  <1>3. c \in Choice /\ i \in Nat \ {0}
    BY <1>0, <1>2
  <1>4. c.refs \in Seq(Symbol) /\ c.args \in Seq(Nat) /\ c.cost \in NoCost..MaxCost /\ c.alias \in BOOLEAN
    BY <1>3 DEF Choice
  <1>5. /\ Children(c) \in Seq(Symbol)
        /\ DOMAIN ChildKeys(g, c) = DOMAIN Children(c)
        /\ \A j \in DOMAIN Children(c) :
             /\ c.alias => ChildKeys(g, c)[j] = <<"raw", Children(c)[j]>>
             /\ ~c.alias => ChildKeys(g, c)[j] = <<"leader", Children(c)[j]>>
    <2>1. CASE c.alias
      <3>1. Children(c) = c.refs
        BY <2>1 DEF Children
      <3>2. ChildKeys(g, c) = [j \in DOMAIN Children(c) |-> <<"raw", Children(c)[j]>>]
        BY <2>1 DEF ChildKeys
      <3> QED BY <1>4, <2>1, <3>1, <3>2
    <2>2. CASE ~c.alias
      <3>1. Children(c) = [a \in DOMAIN c.args |-> c.refs[c.args[a]]]
        BY <2>2 DEF Children
      <3>2. \A a \in DOMAIN c.args : c.args[a] \in DOMAIN c.refs
        BY <1>0, <1>1, <2>2 DEF IsCleanGraph
      <3>3. \A a \in DOMAIN c.args : c.refs[c.args[a]] \in Symbol
        BY <3>2, <1>4
      <3>4. DOMAIN c.args = 1..Len(c.args) /\ Len(c.args) \in Nat
        BY <1>4
      <3>5. Children(c) \in [1..Len(c.args) -> Symbol]
        BY <3>1, <3>3, <3>4
      <3>6. Children(c) \in Seq(Symbol)
        BY <3>4, <3>5
      <3>7. ChildKeys(g, c) = [j \in DOMAIN Children(c) |-> <<"leader", g.leader[Children(c)[j]]>>]
        BY <2>2 DEF ChildKeys, LeaderKey
      <3>8. \A j \in DOMAIN Children(c) : g.leader[Children(c)[j]] = Children(c)[j]
        <4>1. \A u \in Needs(c) : g.leader[u] = u
          BY <1>0, <1>1, <2>2 DEF IsCleanGraph
        <4> QED BY <4>1 DEF Needs
      <3> QED BY <2>2, <3>6, <3>7, <3>8
    <2> QED BY <2>1, <2>2
  <1>6. \A j \in DOMAIN Children(c) : Children(c)[j] \in Symbol
    BY <1>5
  <1>7. \A j \in DOMAIN Children(c) : ChildKeys(g, c)[j] \in Key /\ ChildKeys(g, c)[j][2] = Children(c)[j]
    <2> TAKE j \in DOMAIN Children(c)
    <2>1. PICK u \in Symbol : u = Children(c)[j]
      BY <1>6
    <2>2. PICK kind \in {"raw", "leader"} : ChildKeys(g, c)[j] = <<kind, u>>
      BY <1>4, <1>5, <2>1
    <2>3. <<kind, u>> \in Key /\ <<kind, u>>[2] = u
      BY DEF Key
    <2> QED BY <2>1, <2>2, <2>3, Zenon
  <1> QED BY <1>0, <1>3, <1>4, <1>5, <1>7 DEF KeysOf, ChildrenOf

\* The keys of the roots.
LEMMA RootFacts ==
  ASSUME NEW g \in ExtractGraphs
  PROVE  /\ g.roots \in Seq(Symbol)
         /\ DOMAIN RootKeys(g) = DOMAIN g.roots
         /\ \A i \in DOMAIN g.roots :
              /\ RootKeys(g)[i] \in Key
              /\ RootKeys(g)[i] = <<"leader", g.roots[i]>>
              /\ RootKeys(g)[i][2] = g.roots[i]
PROOF
  <1>1. IsCleanGraph(g)
    BY GraphsClean
  <1>2. g.roots \in Seq(Symbol) /\ \A r \in Roots(g) : g.leader[r] = r
    BY <1>1 DEF IsCleanGraph
  <1>3. \A i \in DOMAIN g.roots : g.leader[g.roots[i]] = g.roots[i] /\ g.roots[i] \in Symbol
    BY <1>2 DEF Roots
  <1>4. DOMAIN RootKeys(g) = DOMAIN g.roots
    BY DEF RootKeys
  <1>5. \A i \in DOMAIN g.roots : RootKeys(g)[i] = <<"leader", g.roots[i]>>
    BY <1>3 DEF RootKeys, LeaderKey
  <1>6. \A i \in DOMAIN g.roots : RootKeys(g)[i] \in Key /\ RootKeys(g)[i][2] = g.roots[i]
    BY <1>3, <1>5 DEF Key
  <1> QED BY <1>2, <1>4, <1>5, <1>6

\* Frames remain what they are when more is known.
LEMMA FramesGrow ==
  ASSUME NEW g, NEW known, NEW more, known \subseteq more
  PROVE  SearchFrames(g, known) \subseteq SearchFrames(g, more)
  BY DEF SearchFrames, AreKnown, HasTerm

\* The frames of collectSelected remain so when more names have terms.
LEMMA CollectFramesGrow ==
  ASSUME NEW g, NEW memory, NEW names, NEW more, names \subseteq more
  PROVE  CollectFrames(g, memory, names) \subseteq CollectFrames(g, memory, more)
  BY DEF CollectFrames, AreKnown

\* The frames of the assembly remain so when more costs are known.
LEMMA AssembleFramesGrow ==
  ASSUME NEW g, NEW sel, NEW names, NEW more, names \subseteq more
  PROVE  AssembleFrames(g, sel, names) \subseteq AssembleFrames(g, sel, more)
  BY DEF AssembleFrames, AreKnown

\* A key with a term is remembered.
LEMMA MemoGrows ==
  ASSUME NEW g, NEW memory, MemoOK(g, memory), NEW k \in Key, NEW best \in Best,
         k[2] \notin EClass \/ HasTerm(g, DOMAIN memory, k[2], best.choice)
  PROVE  MemoOK(g, Extend(memory, k, best))
PROOF
  <1>1. DOMAIN Extend(memory, k, best) = DOMAIN memory \cup {k}
    BY DEF Extend
  <1>2. \A l \in DOMAIN Extend(memory, k, best) :
          Extend(memory, k, best)[l] = IF l = k THEN best ELSE memory[l]
    BY DEF Extend
  <1> QED BY <1>1, <1>2 DEF MemoOK, HasTerm

\* An e-class whose choice needs terms only is emitted.
LEMMA EntriesGrow ==
  ASSUME NEW g \in ExtractGraphs, NEW result, NEW longer \in Result, EntriesOK(g, result),
         NEW s \in EClass, NEW i \in UsableChoices(g, s),
         Entries(longer) = Entries(result) \cup {<<s, i>>},
         Needs(g.choices[s][i]) \subseteq Terms(result)
  PROVE  EntriesOK(g, longer) /\ Terms(longer) = Terms(result) \cup {s}
PROOF
  <1>1. PICK e : e = <<s, i>>
    OBVIOUS
  <1>2. e[1] = s /\ e[2] = i /\ Entries(longer) = Entries(result) \cup {e}
    BY <1>1
  <1>3. {f[1] : f \in Entries(longer)} = {f[1] : f \in Entries(result)} \cup {s}
    BY <1>2
  <1>4. Terms(longer) = Terms(result) \cup {s}
    BY <1>3 DEF Terms
  <1>5. \A f \in Entries(longer) : f[2] \in UsableChoices(g, f[1])
    BY <1>2 DEF EntriesOK
  <1>6. ASSUME NEW S \in SUBSET Symbol, Input \subseteq S,
               \A f \in Entries(longer) : Needs(g.choices[f[1]][f[2]]) \subseteq S => f[1] \in S
        PROVE  Terms(longer) \subseteq S
    <2>1. Terms(result) \subseteq S
      BY <1>2, <1>6 DEF EntriesOK
    <2>2. s \in S
      BY <1>2, <1>6, <2>1
    <2> QED BY <1>4, <2>1, <2>2
  <1>7. \A f \in Entries(longer) : Needs(g.choices[f[1]][f[2]]) \subseteq Terms(longer)
    BY <1>2, <1>4 DEF EntriesOK
  <1> QED BY <1>4, <1>5, <1>6, <1>7 DEF EntriesOK

\* What Append adds to the elements of a sequence.
LEMMA AppendElements ==
  ASSUME NEW T, NEW s \in Seq(T), NEW x \in T
  PROVE  Append(s, x) \in Seq(T) /\ RangeOf(Append(s, x)) = RangeOf(s) \cup {x}
PROOF
  <1>1. PICK longer : longer = Append(s, x)
    OBVIOUS
  <1>2. /\ longer \in Seq(T) /\ Len(longer) = Len(s) + 1 /\ longer[Len(s) + 1] = x
        /\ \A n \in 1..Len(s) : longer[n] = s[n]
    BY <1>1, PushFrame
  <1>3. DOMAIN longer = DOMAIN s \cup {Len(s) + 1} /\ DOMAIN s = 1..Len(s)
    BY <1>2
  <1>4. RangeOf(longer) = RangeOf(s) \cup {x}
    BY <1>2, <1>3 DEF RangeOf
  <1> QED BY <1>1, <1>2, <1>4

\* The entries of a result.
LEMMA EntriesAre == \A result : Entries(result) = RangeOf(result.ops) \cup RangeOf(result.aliases)
  BY Zenon DEF Entries, RangeOf

\* What Emit adds to the result.
LEMMA EmitFacts ==
  ASSUME NEW g \in ExtractGraphs, graph = g, EntriesOK(g, info),
         NEW s \in EClass, NEW i \in UsableChoices(g, s),
         Needs(g.choices[s][i]) \subseteq Terms(info), Emit(s, i)
  PROVE  EntriesOK(g, info') /\ Terms(info') = Terms(info) \cup {s} /\ info'.ok = info.ok
PROOF
  <1>1. i \in DOMAIN g.choices[s] /\ i \in Nat
    BY ChoiceFacts DEF UsableChoices
  <1>2. PICK e : e = <<s, i>>
    OBVIOUS
  <1>3. e \in EClass \X Nat
    BY <1>1, <1>2
  <1>4. info \in Result /\ info.ops \in Seq(EClass \X Nat) /\ info.aliases \in Seq(EClass \X Nat)
    BY DEF EntriesOK, Result
  <1>5. PICK ops : ops = Append(info.ops, e)
    OBVIOUS
  <1>6. PICK aliases : aliases = Append(info.aliases, e)
    OBVIOUS
  <1>0. \A q \in Seq(EClass \X Nat) :
          Append(q, e) \in Seq(EClass \X Nat) /\ RangeOf(Append(q, e)) = RangeOf(q) \cup {e}
    BY <1>3, AppendElements
  <1>7. ops \in Seq(EClass \X Nat) /\ RangeOf(ops) = RangeOf(info.ops) \cup {e}
    BY <1>0, <1>4, <1>5, Zenon
  <1>8. aliases \in Seq(EClass \X Nat) /\ RangeOf(aliases) = RangeOf(info.aliases) \cup {e}
    BY <1>0, <1>4, <1>6, Zenon
  <1>9. CASE g.choices[s][i].alias
    <2>1. info' = [info EXCEPT !.aliases = aliases]
      BY <1>9, <1>2, <1>6 DEF Emit
    <2>2. info' \in Result /\ info'.ok = info.ok /\ info'.ops = info.ops /\ info'.aliases = aliases
      BY <1>4, <1>8, <2>1 DEF Result
    <2>3. Entries(info') = Entries(info) \cup {e}
      BY <1>8, <2>2, EntriesAre
    <2> QED BY <1>2, <2>2, <2>3, EntriesGrow
  <1>10. CASE ~g.choices[s][i].alias
    <2>1. info' = [info EXCEPT !.ops = ops]
      BY <1>10, <1>2, <1>5 DEF Emit
    <2>2. info' \in Result /\ info'.ok = info.ok /\ info'.ops = ops /\ info'.aliases = info.aliases
      BY <1>4, <1>7, <2>1 DEF Result
    <2>3. Entries(info') = Entries(info) \cup {e}
      BY <1>7, <2>2, EntriesAre
    <2> QED BY <1>2, <2>2, <2>3, EntriesGrow
  <1> QED BY <1>9, <1>10

\* The frame on top of the search, and what it asks for.
LEMMA SearchTop ==
  ASSUME ExtractInv, pc = "search"
  PROVE  /\ stack = <<>> => Wanted = RootKeys(graph) /\ At = root
         /\ stack # <<>> => /\ Top \in SearchFrames(graph, DOMAIN memo)
                            /\ Top.key[2] \in EClass
                            /\ At = Top.child
                            /\ Top.choice = 0 => ~IsCalling
                            /\ Top.choice # 0 =>
                                 /\ Top.choice \in UsableChoices(graph, Top.key[2])
                                 /\ Wanted = KeysOf(graph, Top.key[2], Top.choice)
         /\ IsCalling => Callee \in Key
PROOF
  <1>1. CASE stack = <<>>
    <2>1. Wanted = RootKeys(graph) /\ At = root
      BY <1>1 DEF Wanted, RootKeys, At
    <2>2. graph \in ExtractGraphs
      BY DEF ExtractInv, ExtractTypeOK
    <2>3. IsCalling => Callee \in Key
      BY <2>1, <2>2, RootFacts DEF IsCalling, Callee
    <2> QED BY <1>1, <2>1, <2>3
  <1>2. CASE stack # <<>>
    <2>1. stack \in Seq(SearchFrames(graph, DOMAIN memo)) /\ graph \in ExtractGraphs
      BY DEF ExtractInv, SearchInv, ExtractTypeOK
    <2>2. PICK f \in SearchFrames(graph, DOMAIN memo) : f = Top
      BY <1>2, <2>1, PopFrame DEF Top
    <2>3. f \in SearchFrame /\ (f.choice # 0 => f.choice \in UsableChoices(graph, f.key[2]))
      BY DEF SearchFrames
    <2>4. f.key \in {"leader", "raw"} \X EClass
      BY <2>3 DEF SearchFrame
    <2>5. f.key[2] \in EClass
      BY <2>4
    <2>6. At = Top.child
      BY <1>2 DEF At
    <2>7. f.choice = 0 => Wanted = <<>>
      BY <1>2, <2>2 DEF Wanted
    <2>8. f.choice # 0 => Wanted = KeysOf(graph, f.key[2], f.choice)
      BY <1>2, <2>2 DEF Wanted, KeysOf, Candidate
    <2>9. f.choice = 0 => ~IsCalling
      BY <2>7 DEF IsCalling
    <2>10. IsCalling => Callee \in Key
      <3> HAVE IsCalling
      <3>1. f.choice \in DOMAIN graph.choices[f.key[2]] /\ Wanted = KeysOf(graph, f.key[2], f.choice)
        BY <2>3, <2>8, <2>9 DEF UsableChoices
      <3> QED BY <2>1, <2>5, <3>1, ChoiceFacts DEF IsCalling, Callee
    <2> QED BY <1>2, <2>2, <2>3, <2>5, <2>6, <2>8, <2>9, <2>10
  <1> QED BY <1>1, <1>2

\* What a step within the search has to show.
LEMMA SearchGoesOn ==
  ASSUME ExtractInv, pc = "search", pc' = "search", UNCHANGED <<graph, mode, info>>,
         MemoOK(graph, memo'), root' \in Steps,
         stack' \in Seq(SearchFrames(graph, DOMAIN memo')),
         AreKnown(RootKeys(graph), root', DOMAIN memo')
  PROVE  ExtractInv'
  BY DEF ExtractInv, ExtractTypeOK, IdleInv, SearchInv, CollectInv, PopulateInv, AssembleInv

\* A step of the search that remembers nothing and stays at its root.
LEMMA SearchStays ==
  ASSUME ExtractInv, pc = "search", UNCHANGED <<graph, mode, pc, root, info, memo>>,
         stack' \in Seq(SearchFrames(graph, DOMAIN memo))
  PROVE  ExtractInv'
  BY SearchGoesOn DEF ExtractInv, ExtractTypeOK, SearchInv

\* The frame on top changes.
LEMMA SearchTopChanges ==
  ASSUME ExtractInv, pc = "search", UNCHANGED <<graph, mode, pc, root, info, memo>>,
         stack # <<>>, NEW f \in SearchFrames(graph, DOMAIN memo), stack' = WithTop(f)
  PROVE  ExtractInv'
PROOF
  <1>1. stack \in Seq(SearchFrames(graph, DOMAIN memo))
    BY DEF ExtractInv, SearchInv
  <1>2. stack' \in Seq(SearchFrames(graph, DOMAIN memo))
    BY <1>1, TopFrame DEF WithTop
  <1> QED BY <1>2, SearchStays

\* A frame whose candidate is dropped.
LEMMA AbandonFrame ==
  ASSUME NEW g, NEW known, NEW f \in SearchFrames(g, known)
  PROVE  Abandon(f) \in SearchFrames(g, known)
PROOF
  <1>1. f \in SearchFrame
    BY DEF SearchFrames
  <1>2. /\ Abandon(f) \in SearchFrame
        /\ Abandon(f).choice = 0 /\ Abandon(f).key = f.key
        /\ Abandon(f).left = f.left /\ Abandon(f).best = f.best
    BY <1>1 DEF Abandon, SearchFrame
  <1> QED BY <1>2 DEF SearchFrames

\* A key is searched, or an input remembered.
LEMMA SearchStep ==
  ASSUME ExtractInv, Search PROVE ExtractInv'
PROOF
  <1>1. pc = "search" /\ IsCalling /\ Callee \notin DOMAIN memo \cup ActiveKeys
        /\ UNCHANGED <<graph, mode, pc, root, info, overflowed>>
    BY DEF Search
  <1>2. PICK k \in Key : k = Callee
    BY <1>1, SearchTop
  <1>3. /\ stack \in Seq(SearchFrames(graph, DOMAIN memo)) /\ MemoOK(graph, memo) /\ root \in Steps
        /\ AreKnown(RootKeys(graph), root, DOMAIN memo)
    BY <1>1 DEF ExtractInv, ExtractTypeOK, SearchInv
  <1>4. CASE k[2] \in Input
    <2>1. memo' = Extend(memo, k, NoBest) /\ UNCHANGED stack
      BY <1>2, <1>4 DEF Search
    <2>2. NoBest \in Best
      BY MaxCostOK DEF NoBest, Best
    <2>3. k[2] \notin EClass
      BY <1>4 DEF EClass
    <2>4. MemoOK(graph, memo') /\ DOMAIN memo' = DOMAIN memo \cup {k}
      <3>1. MemoOK(graph, Extend(memo, k, NoBest))
        BY <1>3, <2>2, <2>3, MemoGrows, Zenon
      <3> QED BY <2>1, <3>1 DEF Extend
    <2>5. stack' \in Seq(SearchFrames(graph, DOMAIN memo'))
      BY <1>3, <2>1, <2>4, FramesGrow, WeakerFrames
    <2>6. AreKnown(RootKeys(graph), root', DOMAIN memo')
      BY <1>1, <1>3, <2>4 DEF AreKnown
    <2> QED BY <1>1, <1>3, <2>4, <2>5, <2>6, SearchGoesOn
  <1>5. CASE k[2] \notin Input
    <2>1. k \in {"leader", "raw"} \X EClass
      BY <1>5 DEF Key, EClass
    <2>2. PICK f : f = [key |-> k, left |-> DOMAIN graph.choices[k[2]], choice |-> 0, child |-> 1,
                        cost |-> 0, best |-> NoBest]
      OBVIOUS
    <2>3. stack' = Append(stack, f) /\ UNCHANGED memo
      BY <1>2, <1>5, <2>2 DEF Search
    <2>4. DOMAIN graph.choices[k[2]] \subseteq Nat
      <3>1. k[2] \in EClass /\ graph \in ExtractGraphs
        BY <2>1 DEF ExtractInv, ExtractTypeOK
      <3> QED BY <3>1, ChoiceFacts
    <2>5. f \in SearchFrame
      BY <2>1, <2>2, <2>4, MaxCostOK DEF SearchFrame, NoBest, Best, Steps
    <2>6. f \in SearchFrames(graph, DOMAIN memo)
      BY <2>2, <2>5 DEF SearchFrames, NoBest
    <2>7. stack' \in Seq(SearchFrames(graph, DOMAIN memo))
      BY <1>3, <2>3, <2>6, PushFrame
    <2> QED BY <1>1, <2>3, <2>7, SearchStays
  <1> QED BY <1>4, <1>5

\* An operand that is being computed drops the choice.
LEMMA CutCycleStep ==
  ASSUME ExtractInv, CutCycle PROVE ExtractInv'
PROOF
  <1>1. /\ pc = "search" /\ Callee \in ActiveKeys /\ stack' = WithTop(Abandon(Top))
        /\ UNCHANGED <<graph, mode, pc, root, info, memo>>
    BY DEF CutCycle
  <1>2. stack # <<>>
    BY <1>1 DEF ActiveKeys
  <1>3. Abandon(Top) \in SearchFrames(graph, DOMAIN memo)
    BY <1>1, <1>2, SearchTop, AbandonFrame
  <1> QED BY <1>1, <1>2, <1>3, SearchTopChanges

\* The next choice, from its first operand, or none if it has no cost.
LEMMA TryChoiceStep ==
  ASSUME ExtractInv, TryChoice PROVE ExtractInv'
PROOF
  <1>1. pc = "search" /\ stack # <<>> /\ UNCHANGED <<graph, mode, pc, root, info, memo>>
    BY DEF TryChoice
  <1>2. PICK f \in SearchFrames(graph, DOMAIN memo) : f = Top /\ f.key[2] \in EClass /\ f.choice = 0
    BY <1>1, SearchTop DEF TryChoice
  <1>3. PICK i \in f.left : stack' = WithTop(IF IsUsable(graph.choices[f.key[2]][i])
                               THEN [f EXCEPT !.left = @ \ {i}, !.choice = i, !.child = FirstChild,
                                              !.cost = graph.choices[f.key[2]][i].cost]
                               ELSE [f EXCEPT !.left = @ \ {i}])
    BY <1>2 DEF TryChoice
  <1>4. /\ f \in SearchFrame /\ f.left \subseteq DOMAIN graph.choices[f.key[2]]
        /\ f.best.choice # 0 => HasTerm(graph, DOMAIN memo, f.key[2], f.best.choice)
    BY DEF SearchFrames
  <1>5. graph \in ExtractGraphs
    BY DEF ExtractInv, ExtractTypeOK
  <1>6. i \in Nat \ {0} /\ graph.choices[f.key[2]][i].cost \in NoCost..MaxCost
    BY <1>2, <1>4, <1>5, ChoiceFacts
  <1>7. CASE IsUsable(graph.choices[f.key[2]][i])
    <2>1. PICK h : h = [f EXCEPT !.left = @ \ {i}, !.choice = i, !.child = FirstChild,
                                 !.cost = graph.choices[f.key[2]][i].cost]
      OBVIOUS
    <2>2. graph.choices[f.key[2]][i].cost \in 0..MaxCost
      BY <1>6, <1>7, MaxCostOK DEF IsUsable, NoCost
    <2>9. f.left \ {i} \in SUBSET Nat /\ 1 \in Steps /\ FirstChild = 1 /\ i \in Nat
      BY <1>4, <1>6 DEF SearchFrame, FirstChild, Steps
    <2>10. h \in SearchFrame
      BY <1>4, <2>1, <2>2, <2>9 DEF SearchFrame
    <2>11. /\ h.choice = i /\ h.child = 1 /\ h.key = f.key /\ h.best = f.best
           /\ h.left = f.left \ {i}
      BY <1>4, <2>1, <2>9 DEF SearchFrame
    <2>3. /\ h \in SearchFrame /\ h.choice = i /\ h.child = 1 /\ h.key = f.key /\ h.best = f.best
          /\ h.left \subseteq f.left
      BY <2>10, <2>11
    <2>4. i \in UsableChoices(graph, f.key[2])
      BY <1>4, <1>7 DEF UsableChoices
    <2>5. \A j \in DOMAIN KeysOf(graph, f.key[2], i) : ~(j < 1)
      <3>1. i \in DOMAIN graph.choices[f.key[2]]
        BY <1>4
      <3>2. ChildrenOf(graph, f.key[2], i) \in Seq(Symbol)
            /\ DOMAIN KeysOf(graph, f.key[2], i) = DOMAIN ChildrenOf(graph, f.key[2], i)
        BY <1>2, <1>5, <3>1, ChoiceFacts
      <3> QED BY <3>2
    <2>6. h \in SearchFrames(graph, DOMAIN memo)
      BY <1>4, <2>3, <2>4, <2>5 DEF SearchFrames, AreKnown
    <2> QED BY <1>1, <1>3, <1>7, <2>1, <2>6, SearchTopChanges
  <1>8. CASE ~IsUsable(graph.choices[f.key[2]][i])
    <2>1. PICK h : h = [f EXCEPT !.left = @ \ {i}]
      OBVIOUS
    <2>2. /\ h \in SearchFrame /\ h.choice = 0 /\ h.key = f.key /\ h.best = f.best
          /\ h.left \subseteq f.left
      BY <1>2, <1>4, <2>1 DEF SearchFrame
    <2>3. h \in SearchFrames(graph, DOMAIN memo)
      BY <1>4, <2>2 DEF SearchFrames
    <2> QED BY <1>1, <1>3, <1>8, <2>1, <2>3, SearchTopChanges
  <1> QED BY <1>7, <1>8

\* One more operand is known.
LEMMA KnownNext ==
  ASSUME NEW keys, DOMAIN keys \subseteq Nat, NEW n \in Nat, NEW known,
         AreKnown(keys, n, known), n \in DOMAIN keys => keys[n] \in known
  PROVE  AreKnown(keys, n + 1, known)
PROOF
  <1>1. \A j \in DOMAIN keys : j < n + 1 => j < n \/ j = n
    OBVIOUS
  <1> QED BY <1>1 DEF AreKnown

\* All of them are.
LEMMA KnownAll ==
  ASSUME NEW T, NEW s \in Seq(T), NEW keys, DOMAIN keys = DOMAIN s, NEW n \in Steps, n \notin DOMAIN keys,
         NEW known, AreKnown(keys, n, known)
  PROVE  \A j \in DOMAIN keys : keys[j] \in known
PROOF
  <1>1. DOMAIN s = 1..Len(s) /\ Len(s) \in Nat
    OBVIOUS
  <1>2. \A j \in DOMAIN keys : j < n
    BY <1>1 DEF Steps
  <1> QED BY <1>2 DEF AreKnown

\* An operand that is remembered is added, or its cost does not fit.
LEMMA AddChildStep ==
  ASSUME ExtractInv, AddChild PROVE ExtractInv'
PROOF
  <1>1. pc = "search" /\ stack # <<>> /\ UNCHANGED <<graph, mode, pc, root, info, memo>> /\ IsCalling
        /\ Callee \in DOMAIN memo
    BY DEF AddChild
  <1>2. PICK f \in SearchFrames(graph, DOMAIN memo) : f = Top
    BY <1>1, SearchTop
  <1>3. /\ f.key[2] \in EClass /\ f.choice # 0 /\ f.choice \in UsableChoices(graph, f.key[2])
        /\ Callee = KeysOf(graph, f.key[2], f.choice)[f.child] /\ f.child \in DOMAIN KeysOf(graph, f.key[2], f.choice)
    BY <1>1, <1>2, SearchTop DEF Callee, IsCalling
  <1>4. PICK cost : cost = memo[Callee].cost
    OBVIOUS
  <1>5. cost \in 0..MaxCost
    BY <1>1, <1>4 DEF ExtractInv, ExtractTypeOK, MemoOK, Best
  <1>6. CASE Fits(f.cost, cost)
    <2>1. PICK h : h = [f EXCEPT !.child = @ + 1, !.cost = @ + cost]
      OBVIOUS
    <2>2. stack' = WithTop(h)
      BY <1>2, <1>4, <1>6, <2>1 DEF AddChild
    <2>3. /\ f \in SearchFrame /\ f.left \subseteq DOMAIN graph.choices[f.key[2]]
          /\ AreKnown(KeysOf(graph, f.key[2], f.choice), f.child, DOMAIN memo)
          /\ f.best.choice # 0 => HasTerm(graph, DOMAIN memo, f.key[2], f.best.choice)
      BY <1>3 DEF SearchFrames
    <2>4. f.child \in Steps /\ f.cost \in 0..MaxCost
      BY <2>3 DEF SearchFrame
    <2>5. f.child + 1 \in Steps /\ f.cost + cost \in 0..MaxCost
      BY <1>5, <1>6, <2>4, MaxCostOK DEF Fits, Steps
    <2>6. h \in SearchFrame
      BY <2>1, <2>3, <2>5 DEF SearchFrame
    <2>7. h.key = f.key /\ h.choice = f.choice /\ h.best = f.best /\ h.left = f.left /\ h.child = f.child + 1
      BY <2>1, <2>3 DEF SearchFrame
    <2>8. DOMAIN KeysOf(graph, f.key[2], f.choice) \subseteq Nat
      <3>1. graph \in ExtractGraphs /\ f.choice \in DOMAIN graph.choices[f.key[2]]
        BY <1>3 DEF ExtractInv, ExtractTypeOK, UsableChoices
      <3>2. ChildrenOf(graph, f.key[2], f.choice) \in Seq(Symbol)
            /\ DOMAIN KeysOf(graph, f.key[2], f.choice) = DOMAIN ChildrenOf(graph, f.key[2], f.choice)
        BY <1>3, <3>1, ChoiceFacts
      <3> QED BY <3>2
    <2>9. AreKnown(KeysOf(graph, f.key[2], f.choice), f.child + 1, DOMAIN memo)
      BY <1>1, <1>3, <2>3, <2>4, <2>8, KnownNext DEF Steps
    <2>10. h \in SearchFrames(graph, DOMAIN memo)
      BY <1>3, <2>3, <2>6, <2>7, <2>9 DEF SearchFrames
    <2> QED BY <1>1, <2>2, <2>10, SearchTopChanges
  <1>7. CASE ~Fits(f.cost, cost)
    <2>1. stack' = WithTop(Abandon(f))
      BY <1>2, <1>4, <1>7 DEF AddChild
    <2> QED BY <1>1, <2>1, AbandonFrame, SearchTopChanges
  <1> QED BY <1>6, <1>7

\* A choice whose operands are all remembered has a term.
LEMMA KeepBestStep ==
  ASSUME ExtractInv, KeepBest PROVE ExtractInv'
PROOF
  <1>1. pc = "search" /\ stack # <<>> /\ UNCHANGED <<graph, mode, pc, root, info, memo>> /\ ~IsCalling
        /\ Top.choice # 0
    BY DEF KeepBest
  <1>2. PICK f \in SearchFrames(graph, DOMAIN memo) : f = Top
    BY <1>1, SearchTop
  <1>3. /\ f.key[2] \in EClass /\ f.choice # 0 /\ f.choice \in UsableChoices(graph, f.key[2])
        /\ f.child \notin DOMAIN KeysOf(graph, f.key[2], f.choice)
    BY <1>1, <1>2, SearchTop DEF IsCalling
  <1>4. /\ f \in SearchFrame /\ f.left \subseteq DOMAIN graph.choices[f.key[2]]
        /\ AreKnown(KeysOf(graph, f.key[2], f.choice), f.child, DOMAIN memo)
        /\ f.best.choice # 0 => HasTerm(graph, DOMAIN memo, f.key[2], f.best.choice)
    BY <1>3 DEF SearchFrames
  <1>5. HasTerm(graph, DOMAIN memo, f.key[2], f.choice)
    <2>1. graph \in ExtractGraphs /\ f.choice \in DOMAIN graph.choices[f.key[2]]
      BY <1>3 DEF ExtractInv, ExtractTypeOK, UsableChoices
    <2>2. ChildrenOf(graph, f.key[2], f.choice) \in Seq(Symbol)
          /\ DOMAIN KeysOf(graph, f.key[2], f.choice) = DOMAIN ChildrenOf(graph, f.key[2], f.choice)
      BY <1>3, <2>1, ChoiceFacts
    <2>3. f.child \in Steps
      BY <1>4 DEF SearchFrame
    <2> QED BY <1>3, <1>4, <2>2, <2>3, KnownAll DEF HasTerm
  <1>6. PICK best : best = IF IsBetter(f.cost, f.best) THEN [choice |-> f.choice, cost |-> f.cost] ELSE f.best
    OBVIOUS
  <1>7. best \in Best /\ (best.choice # 0 => HasTerm(graph, DOMAIN memo, f.key[2], best.choice))
    BY <1>4, <1>5, <1>6 DEF SearchFrame, Best
  <1>8. PICK h : h = [f EXCEPT !.choice = 0, !.best = best]
    OBVIOUS
  <1>9. stack' = WithTop(h)
    BY <1>2, <1>6, <1>8 DEF KeepBest
  <1>10. h \in SearchFrame /\ h.key = f.key /\ h.choice = 0 /\ h.left = f.left /\ h.best = best
    BY <1>4, <1>7, <1>8 DEF SearchFrame
  <1>11. h \in SearchFrames(graph, DOMAIN memo)
    BY <1>4, <1>7, <1>10 DEF SearchFrames
  <1> QED BY <1>1, <1>9, <1>11, SearchTopChanges

\* The best choice is remembered.
LEMMA MemoizeStep ==
  ASSUME ExtractInv, Memoize PROVE ExtractInv'
PROOF
  <1>1. /\ pc = "search" /\ stack # <<>> /\ UNCHANGED <<graph, mode, pc, root, info>>
        /\ Top.best.choice # 0 /\ memo' = Extend(memo, Top.key, Top.best) /\ stack' = Pop(stack)
    BY DEF Memoize
  <1>2. PICK f \in SearchFrames(graph, DOMAIN memo) : f = Top
    BY <1>1, SearchTop
  <1>3. f \in SearchFrame /\ HasTerm(graph, DOMAIN memo, f.key[2], f.best.choice)
    BY <1>1, <1>2 DEF SearchFrames
  <1>4. f.key \in Key /\ f.best \in Best
    BY <1>3 DEF SearchFrame, Key, EClass
  <1>5. /\ stack \in Seq(SearchFrames(graph, DOMAIN memo)) /\ MemoOK(graph, memo) /\ root \in Steps
        /\ AreKnown(RootKeys(graph), root, DOMAIN memo)
    BY <1>1 DEF ExtractInv, ExtractTypeOK, SearchInv
  <1>6. MemoOK(graph, memo') /\ DOMAIN memo' = DOMAIN memo \cup {f.key}
    <2>1. PICK k \in Key, best \in Best : k = f.key /\ best = f.best
      BY <1>4
    <2>2. memo' = Extend(memo, k, best) /\ HasTerm(graph, DOMAIN memo, k[2], best.choice)
      BY <1>1, <1>2, <1>3, <2>1
    <2>3. MemoOK(graph, Extend(memo, k, best)) /\ DOMAIN Extend(memo, k, best) = DOMAIN memo \cup {k}
      <3>1. MemoOK(graph, Extend(memo, k, best))
        BY <1>5, <2>2, MemoGrows, Zenon
      <3> QED BY <3>1 DEF Extend
    <2> QED BY <2>1, <2>2, <2>3, Zenon
  <1>7. stack' \in Seq(SearchFrames(graph, DOMAIN memo))
    BY <1>1, <1>5, PopFrame
  <1>8. stack' \in Seq(SearchFrames(graph, DOMAIN memo'))
    BY <1>6, <1>7, FramesGrow, WeakerFrames
  <1>9. AreKnown(RootKeys(graph), root', DOMAIN memo')
    BY <1>1, <1>5, <1>6 DEF AreKnown
  <1> QED BY <1>1, <1>5, <1>6, <1>8, <1>9, SearchGoesOn

\* Nothing is selected yet.
LEMMA NoEntries ==
  ASSUME NEW g PROVE EntriesOK(g, NoInfo) /\ Terms(NoInfo) = Input /\ ~NoInfo.ok
PROOF
  <1>1. NoInfo.ops = <<>> /\ NoInfo.aliases = <<>> /\ ~NoInfo.ok
    BY DEF NoInfo
  <1>2. Entries(NoInfo) = {}
    BY <1>1 DEF Entries
  <1>3. NoInfo \in Result
    BY DEF NoInfo, Result
  <1> QED BY <1>1, <1>2, <1>3 DEF EntriesOK, Terms

\* A call that fails leaves nothing.
LEMMA FailStep ==
  ASSUME ExtractInv, Fail, stack' = <<>>, UNCHANGED <<graph, mode, root, memo>>
  PROVE  ExtractInv'
PROOF
  <1>1. pc' = "idle" /\ info' = NoInfo
    BY DEF Fail
  <1>2. EntriesOK(graph, NoInfo) /\ ~NoInfo.ok
    BY NoEntries
  <1> QED BY <1>1, <1>2 DEF ExtractInv, ExtractTypeOK, IdleInv, SearchInv, CollectInv, PopulateInv, AssembleInv

\* A search without a result drops the choice of its caller, or ends the call.
LEMMA GiveUpStep ==
  ASSUME ExtractInv, GiveUp PROVE ExtractInv'
PROOF
  <1>1. pc = "search" /\ stack # <<>> /\ UNCHANGED <<graph, mode, root, memo>>
    BY DEF GiveUp
  <1>2. CASE Len(stack) = 1
    BY <1>1, <1>2, FailStep DEF GiveUp
  <1>3. CASE Len(stack) # 1
    <2>1. stack \in Seq(SearchFrames(graph, DOMAIN memo))
      BY <1>1 DEF ExtractInv, SearchInv
    <2>2. PICK short : short = Pop(stack)
      OBVIOUS
    <2>3. short \in Seq(SearchFrames(graph, DOMAIN memo)) /\ Len(short) = Len(stack) - 1 /\ short # <<>>
      BY <1>1, <1>3, <2>1, <2>2, PopFrame, PopLast
    <2>4. stack' = [short EXCEPT ![Len(short)] = Abandon(@)] /\ UNCHANGED <<pc, info>>
      BY <1>3, <2>2, <2>3 DEF GiveUp
    <2>5. Abandon(short[Len(short)]) \in SearchFrames(graph, DOMAIN memo)
      BY <2>3, PopFrame, AbandonFrame
    <2>6. stack' \in Seq(SearchFrames(graph, DOMAIN memo))
      BY <2>3, <2>4, <2>5, TopFrame
    <2> QED BY <1>1, <2>4, <2>6, SearchStays
  <1> QED BY <1>2, <1>3

\* The root is remembered: the next one.
LEMMA NextRootStep ==
  ASSUME ExtractInv, NextRoot PROVE ExtractInv'
PROOF
  <1>1. pc = "search" /\ stack = <<>> /\ IsCalling /\ Callee \in DOMAIN memo /\ root' = root + 1
        /\ UNCHANGED <<graph, mode, pc, stack, info, memo>>
    BY DEF NextRoot
  <1>2. /\ graph \in ExtractGraphs /\ MemoOK(graph, memo) /\ root \in Steps
        /\ stack \in Seq(SearchFrames(graph, DOMAIN memo))
        /\ AreKnown(RootKeys(graph), root, DOMAIN memo)
    BY <1>1 DEF ExtractInv, ExtractTypeOK, SearchInv
  <1>3. RootKeys(graph)[root] \in DOMAIN memo
    BY <1>1, SearchTop DEF Callee
  <1>4. DOMAIN RootKeys(graph) \subseteq Nat
    BY <1>2, RootFacts
  <1>5. AreKnown(RootKeys(graph), root', DOMAIN memo)
    BY <1>1, <1>2, <1>3, <1>4, KnownNext DEF Steps
  <1>6. root' \in Steps
    BY <1>1, <1>2 DEF Steps
  <1> QED BY <1>1, <1>2, <1>5, <1>6, SearchGoesOn

-----------------------------------------------------------------------------
\* What the frames of a chain are about.

\* A chain without its last frame is one, whatever the new last frame is at.
LEMMA ChainPops ==
  ASSUME NEW F, NEW g, NEW s \in Seq(F), NEW r, IsChain(g, s, r), s # <<>>
  PROVE  IsChain(g, Pop(s), r)
PROOF
  <1>1. /\ Len(s) \in Nat \ {0} /\ DOMAIN Pop(s) = 1..(Len(s) - 1) /\ DOMAIN s = 1..Len(s)
        /\ \A n \in 1..(Len(s) - 1) : Pop(s)[n] = s[n]
    BY PopFrame DEF Pop
  <1>2. PICK l \in Nat \ {0} : l = Len(s)
    BY <1>1
  <1>3. \A n \in 1..(l - 1) : n \in 1..l /\ (n > 1 => n - 1 \in 1..(l - 1))
    OBVIOUS
  <1> QED BY <1>1, <1>2, <1>3 DEF IsChain

\* The frame on top may change as long as it is about the same key.
LEMMA ChainTops ==
  ASSUME NEW F, NEW g, NEW s \in Seq(F), NEW r, IsChain(g, s, r), s # <<>>,
         NEW f, f.key = s[Len(s)].key
  PROVE  IsChain(g, [s EXCEPT ![Len(s)] = f], r)
PROOF
  <1>1. PICK l \in Nat \ {0} : l = Len(s)
    OBVIOUS
  <1>2. DOMAIN s = 1..l
    BY <1>1
  <1>3. PICK u : u = [s EXCEPT ![l] = f]
    OBVIOUS
  <1>4. DOMAIN u = 1..l /\ u[l] = f /\ \A n \in 1..l : n # l => u[n] = s[n]
    BY <1>2, <1>3
  <1>5. \A n \in 1..l : u[n].key = s[n].key
    BY <1>1, <1>4
  <1>6. \A n \in 1..l : n > 1 => n - 1 \in 1..l /\ n - 1 # l
    OBVIOUS
  <1>7. IsChain(g, u, r)
    BY <1>2, <1>4, <1>5, <1>6 DEF IsChain
  <1> QED BY <1>1, <1>3, <1>7

\* The key that is asked for is pushed.
LEMMA ChainPushes ==
  ASSUME NEW F, NEW g, NEW s \in Seq(F), NEW r, IsChain(g, s, r), NEW f,
         s = <<>> => r \in DOMAIN g.roots /\ f.key = RootKeys(g)[r],
         s # <<>> => LET e == s[Len(s)]
                     IN  /\ e.choice # 0
                         /\ e.child \in DOMAIN KeysOf(g, e.key[2], e.choice)
                         /\ f.key = KeysOf(g, e.key[2], e.choice)[e.child]
  PROVE  IsChain(g, Append(s, f), r)
PROOF
  <1>1. PICK l \in Nat : l = Len(s)
    OBVIOUS
  <1>2. DOMAIN s = 1..l /\ (s = <<>> <=> l = 0)
    BY <1>1
  <1>3. PICK u : u = Append(s, f)
    OBVIOUS
  <1>4. DOMAIN u = 1..(l + 1) /\ u[l + 1] = f /\ \A n \in 1..l : u[n] = s[n]
    <2>1. s \in Seq(F \cup {f})
      BY WeakerFrames
    <2>2. /\ u \in Seq(F \cup {f}) /\ Len(u) = l + 1 /\ u[l + 1] = f
          /\ \A n \in 1..l : u[n] = s[n]
      BY <1>1, <1>3, <2>1, PushFrame
    <2> QED BY <2>2
  <1>5. ASSUME NEW n \in 1..(l + 1)
        PROVE  /\ n = 1 => r \in DOMAIN g.roots /\ u[n].key = RootKeys(g)[r]
               /\ n > 1 => /\ u[n - 1].choice # 0
                           /\ u[n - 1].child \in DOMAIN KeysOf(g, u[n - 1].key[2], u[n - 1].choice)
                           /\ u[n].key = KeysOf(g, u[n - 1].key[2], u[n - 1].choice)[u[n - 1].child]
    <2>1. CASE n = l + 1 /\ l = 0
      BY <1>2, <1>4, <2>1
    <2>2. CASE n = l + 1 /\ l # 0
      <3>1. n > 1 /\ n - 1 = l /\ l \in 1..l
        BY <2>2
      <3>2. u[n - 1] = s[l] /\ u[n] = f
        BY <1>4, <2>2, <3>1
      <3> QED BY <1>1, <1>2, <2>2, <3>1, <3>2
    <2>3. CASE n # l + 1
      <3>1. n \in 1..l /\ (n > 1 => n - 1 \in 1..l)
        BY <2>3
      <3>2. u[n] = s[n] /\ (n > 1 => u[n - 1] = s[n - 1])
        BY <1>4, <3>1
      <3> QED BY <1>2, <3>1, <3>2 DEF IsChain
    <2> QED BY <2>1, <2>2, <2>3
  <1>6. IsChain(g, u, r)
    BY <1>4, <1>5 DEF IsChain
  <1> QED BY <1>3, <1>6

-----------------------------------------------------------------------------
\* The steps of collectSelected.

\* What a step within it has to show.
LEMMA CollectGoesOn ==
  ASSUME ExtractInv, pc = "collect", pc' = "collect", UNCHANGED <<graph, mode, memo>>,
         EntriesOK(graph, info'), root' \in Steps,
         stack' \in Seq(CollectFrames(graph, memo, Terms(info'))),
         IsChain(graph, stack', root'),
         AreKnown(graph.roots, root', Terms(info'))
  PROVE  ExtractInv'
  BY DEF ExtractInv, ExtractTypeOK, IdleInv, SearchInv, CollectInv, PopulateInv, AssembleInv

\* All roots are remembered: they are collected.
LEMMA EndSearchStep ==
  ASSUME ExtractInv, EndSearch PROVE ExtractInv'
PROOF
  <1>1. pc = "search" /\ stack = <<>> /\ ~IsCalling /\ pc' = "collect" /\ root' = 1
        /\ UNCHANGED <<graph, mode, stack, info, memo>>
    BY DEF EndSearch
  <1>2. /\ graph \in ExtractGraphs /\ MemoOK(graph, memo) /\ root \in Steps /\ mode = "greedy"
        /\ AreKnown(RootKeys(graph), root, DOMAIN memo)
    BY <1>1 DEF ExtractInv, ExtractTypeOK, SearchInv
  <1>3. root \notin DOMAIN RootKeys(graph)
    BY <1>1, SearchTop DEF IsCalling
  <1>4. graph.roots \in Seq(Symbol) /\ DOMAIN RootKeys(graph) = DOMAIN graph.roots
    BY <1>2, RootFacts
  <1>5. \A j \in DOMAIN RootKeys(graph) : RootKeys(graph)[j] \in DOMAIN memo
    BY <1>2, <1>3, <1>4, KnownAll
  <1>6. AreKnown(RootKeys(graph), Len(graph.roots) + 1, DOMAIN memo)
    BY <1>5 DEF AreKnown
  <1>7. AreKnown(graph.roots, 1, Terms(info))
    BY <1>4 DEF AreKnown
  <1>8. <<>> \in Seq(CollectFrames(graph, memo, Terms(info))) /\ IsChain(graph, <<>>, 1)
    BY DEF IsChain
  <1>9. 1 \in Steps
    BY DEF Steps
  <1> QED BY <1>1, <1>2, <1>6, <1>7, <1>8, <1>9
          DEF ExtractInv, ExtractTypeOK, IdleInv, SearchInv, CollectInv, PopulateInv, AssembleInv

\* The frame on top of collectSelected, and what it asks for.
LEMMA CollectTop ==
  ASSUME ExtractInv, pc = "collect"
  PROVE  /\ graph \in ExtractGraphs
         /\ stack \in Seq(CollectFrames(graph, memo, Terms(info)))
         /\ stack = <<>> => /\ Wanted = RootKeys(graph)
                            /\ At = root
                            /\ IsCalling => Callee[2] = graph.roots[root] /\ root \in DOMAIN graph.roots
         /\ stack # <<>> => /\ Top \in CollectFrames(graph, memo, Terms(info))
                            /\ Top.key[2] \in EClass
                            /\ At = Top.child
                            /\ Top.choice \in UsableChoices(graph, Top.key[2])
                            /\ Top.choice \in DOMAIN graph.choices[Top.key[2]]
                            /\ Top.choice # 0
                            /\ Wanted = KeysOf(graph, Top.key[2], Top.choice)
                            /\ IsCalling => Callee[2] = ChildrenOf(graph, Top.key[2], Top.choice)[Top.child]
         /\ IsCalling => Callee \in DOMAIN memo /\ Callee \in Key
PROOF
  <1>0. /\ graph \in ExtractGraphs /\ MemoOK(graph, memo)
        /\ stack \in Seq(CollectFrames(graph, memo, Terms(info)))
        /\ AreKnown(RootKeys(graph), Len(graph.roots) + 1, DOMAIN memo)
    BY DEF ExtractInv, ExtractTypeOK, CollectInv
  <1>1. CASE stack = <<>>
    <2>1. Wanted = RootKeys(graph) /\ At = root
      BY <1>1 DEF Wanted, RootKeys, At
    <2>2. /\ graph.roots \in Seq(Symbol) /\ DOMAIN RootKeys(graph) = DOMAIN graph.roots
          /\ \A i \in DOMAIN graph.roots : RootKeys(graph)[i] \in Key /\ RootKeys(graph)[i][2] = graph.roots[i]
      BY <1>0, RootFacts
    <2>3. \A i \in DOMAIN RootKeys(graph) : i < Len(graph.roots) + 1
      BY <2>2
    <2>4. \A i \in DOMAIN RootKeys(graph) : RootKeys(graph)[i] \in DOMAIN memo
      BY <1>0, <2>3 DEF AreKnown
    <2> QED BY <1>0, <1>1, <2>1, <2>2, <2>4 DEF IsCalling, Callee
  <1>2. CASE stack # <<>>
    <2>1. PICK f \in CollectFrames(graph, memo, Terms(info)) : f = Top
      BY <1>0, <1>2, PopFrame DEF Top
    <2>2. f \in CollectFrame /\ f.key \in DOMAIN memo /\ f.choice = memo[f.key].choice
      BY DEF CollectFrames
    <2>3. f.key[2] \in EClass
      BY <2>2 DEF CollectFrame
    <2>4. HasTerm(graph, DOMAIN memo, f.key[2], f.choice)
      BY <1>0, <2>2, <2>3 DEF MemoOK
    <2>5. /\ f.choice \in UsableChoices(graph, f.key[2]) /\ f.choice \in DOMAIN graph.choices[f.key[2]]
          /\ \A j \in DOMAIN KeysOf(graph, f.key[2], f.choice) :
               KeysOf(graph, f.key[2], f.choice)[j] \in DOMAIN memo
      BY <2>4 DEF HasTerm, UsableChoices
    <2>6. /\ f.choice # 0
          /\ DOMAIN KeysOf(graph, f.key[2], f.choice) = DOMAIN ChildrenOf(graph, f.key[2], f.choice)
          /\ \A j \in DOMAIN ChildrenOf(graph, f.key[2], f.choice) :
               /\ KeysOf(graph, f.key[2], f.choice)[j] \in Key
               /\ KeysOf(graph, f.key[2], f.choice)[j][2] = ChildrenOf(graph, f.key[2], f.choice)[j]
      BY <1>0, <2>3, <2>5, ChoiceFacts
    <2>7. Wanted = KeysOf(graph, f.key[2], f.choice) /\ At = f.child
      BY <1>2, <2>1, <2>6 DEF Wanted, KeysOf, Candidate, At
    <2>8. IsCalling => /\ f.child \in DOMAIN KeysOf(graph, f.key[2], f.choice)
                       /\ Callee = KeysOf(graph, f.key[2], f.choice)[f.child]
      BY <2>7 DEF IsCalling, Callee
    <2> QED BY <1>0, <1>2, <2>1, <2>3, <2>5, <2>6, <2>7, <2>8
  <1> QED BY <1>1, <1>2

\* The caller goes on when what it asked for has a term.
LEMMA CollectResumes ==
  ASSUME ExtractInv, pc = "collect", UNCHANGED <<graph, mode, pc, memo>>,
         EntriesOK(graph, info'), Terms(info) \subseteq Terms(info'),
         NEW rest \in Seq(CollectFrames(graph, memo, Terms(info))), IsChain(graph, rest, root),
         Resume(rest),
         rest = <<>> /\ root \in DOMAIN graph.roots => graph.roots[root] \in Terms(info'),
         rest # <<>> => LET f == rest[Len(rest)]
                        IN  f.child \in DOMAIN ChildrenOf(graph, f.key[2], f.choice)
                              => ChildrenOf(graph, f.key[2], f.choice)[f.child] \in Terms(info')
  PROVE  ExtractInv'
PROOF
  <1>0. /\ graph \in ExtractGraphs /\ MemoOK(graph, memo) /\ root \in Steps
        /\ AreKnown(graph.roots, root, Terms(info))
    BY DEF ExtractInv, ExtractTypeOK, CollectInv
  <1>1. rest \in Seq(CollectFrames(graph, memo, Terms(info')))
    BY CollectFramesGrow, WeakerFrames
  <1>2. AreKnown(graph.roots, root, Terms(info'))
    BY <1>0 DEF AreKnown
  <1>3. CASE rest = <<>>
    <2>1. stack' = <<>> /\ root' = root + 1
      BY <1>3 DEF Resume
    <2>2. DOMAIN graph.roots \subseteq Nat
      BY <1>0, RootFacts
    <2>3. AreKnown(graph.roots, root', Terms(info'))
      BY <1>0, <1>2, <1>3, <2>1, <2>2, KnownNext DEF Steps
    <2>4. root' \in Steps /\ IsChain(graph, <<>>, root') /\ <<>> \in Seq(CollectFrames(graph, memo, Terms(info')))
      BY <1>0, <2>1 DEF Steps, IsChain
    <2> QED BY <2>1, <2>3, <2>4, CollectGoesOn
  <1>4. CASE rest # <<>>
    <2>1. PICK f \in CollectFrames(graph, memo, Terms(info')) : f = rest[Len(rest)]
      BY <1>1, <1>4, PopFrame
    <2>2. /\ f \in CollectFrame /\ f.key \in DOMAIN memo /\ f.choice = memo[f.key].choice
          /\ AreKnown(ChildrenOf(graph, f.key[2], f.choice), f.child, Terms(info'))
      BY DEF CollectFrames
    <2>3. f.key[2] \in EClass /\ f.child \in Nat /\ f.child + 1 \in Steps
      BY <2>2 DEF CollectFrame, Steps
    <2>4. f.choice \in DOMAIN graph.choices[f.key[2]]
      BY <1>0, <2>2, <2>3 DEF MemoOK, HasTerm, UsableChoices
    <2>5. DOMAIN ChildrenOf(graph, f.key[2], f.choice) \subseteq Nat
      <3>1. ChildrenOf(graph, f.key[2], f.choice) \in Seq(Symbol)
        BY <1>0, <2>3, <2>4, ChoiceFacts
      <3> QED BY <3>1
    <2>6. AreKnown(ChildrenOf(graph, f.key[2], f.choice), f.child + 1, Terms(info'))
      BY <1>4, <2>1, <2>2, <2>3, <2>5, KnownNext
    <2>7. PICK h : h = [f EXCEPT !.child = @ + 1]
      OBVIOUS
    <2>8. h \in CollectFrame /\ h.key = f.key /\ h.choice = f.choice /\ h.child = f.child + 1
      BY <2>2, <2>3, <2>7 DEF CollectFrame
    <2>9. h \in CollectFrames(graph, memo, Terms(info'))
      BY <2>2, <2>6, <2>8 DEF CollectFrames
    <2>10. stack' = [rest EXCEPT ![Len(rest)] = h] /\ UNCHANGED root
      BY <1>4, <2>1, <2>7 DEF Resume
    <2>11. stack' \in Seq(CollectFrames(graph, memo, Terms(info')))
      BY <1>1, <1>4, <2>9, <2>10, TopFrame
    <2>12. IsChain(graph, stack', root')
      BY <1>1, <1>4, <2>1, <2>8, <2>10, ChainTops
    <2> QED BY <1>0, <1>2, <2>10, <2>11, <2>12, CollectGoesOn
  <1> QED BY <1>3, <1>4

\* An operand that was emitted has a term.
LEMMA SkipCollectedStep ==
  ASSUME ExtractInv, SkipCollected PROVE ExtractInv'
PROOF
  <1>1. pc = "collect" /\ IsCalling /\ IsCollected(Callee) /\ Resume(stack)
        /\ UNCHANGED <<graph, mode, pc, info, memo>>
    BY DEF SkipCollected
  <1>2. Callee[2] \in Terms(info)
    <2>1. \A alias : EmittedSymbols(alias) \subseteq Terms(info)
      BY Zenon DEF EmittedSymbols, Terms, Entries
    <2>2. Input \subseteq Terms(info)
      BY DEF Terms
    <2> QED BY <1>1, <2>1, <2>2 DEF IsCollected
  <1>3. EntriesOK(graph, info) /\ IsChain(graph, stack, root)
    BY <1>1 DEF ExtractInv, ExtractTypeOK, CollectInv
  <1>4. Terms(info') = Terms(info) /\ EntriesOK(graph, info')
    BY <1>1, <1>3
  <1>5. stack = <<>> => graph.roots[root] \in Terms(info')
    BY <1>1, <1>2, <1>4, CollectTop
  <1>6. stack # <<>> => ChildrenOf(graph, stack[Len(stack)].key[2], stack[Len(stack)].choice)[stack[Len(stack)].child]
                          \in Terms(info')
    BY <1>1, <1>2, <1>4, CollectTop DEF Top
  <1> QED BY <1>1, <1>3, <1>4, <1>5, <1>6, CollectTop, CollectResumes

\* An operand is collected, or refused because it is being collected.
LEMMA CollectSelectedStep ==
  ASSUME ExtractInv, CollectSelected PROVE ExtractInv'
PROOF
  <1>1. pc = "collect" /\ IsCalling /\ ~IsCollected(Callee) /\ UNCHANGED <<graph, mode, root, memo>>
    BY DEF CollectSelected
  <1>2. CASE Callee[2] \in CollectingSymbols
    BY <1>1, <1>2, FailStep DEF CollectSelected
  <1>3. CASE Callee[2] \notin CollectingSymbols
    <2>1. PICK k \in Key : k = Callee /\ k \in DOMAIN memo
      BY <1>1, CollectTop
    <2>2. k[2] \notin Input
      BY <1>1, <2>1 DEF IsCollected
    <2>3. k \in {"leader", "raw"} \X EClass /\ k[2] \in EClass
      BY <2>2 DEF Key, EClass
    <2>4. graph \in ExtractGraphs /\ MemoOK(graph, memo) /\ EntriesOK(graph, info)
          /\ IsChain(graph, stack, root) /\ AreKnown(graph.roots, root, Terms(info)) /\ root \in Steps
      BY <1>1 DEF ExtractInv, ExtractTypeOK, CollectInv
    <2>5. memo[k].choice \in DOMAIN graph.choices[k[2]]
      BY <2>1, <2>3, <2>4 DEF MemoOK, HasTerm, UsableChoices
    <2>6. ChildrenOf(graph, k[2], memo[k].choice) \in Seq(Symbol) /\ memo[k].choice \in Nat
      BY <2>3, <2>4, <2>5, ChoiceFacts
    <2>7. PICK f : f = [key |-> k, choice |-> memo[k].choice, child |-> FirstChild]
      OBVIOUS
    <2>8. f \in CollectFrame
      BY <2>3, <2>6, <2>7 DEF CollectFrame, FirstChild, Steps
    <2>9. AreKnown(ChildrenOf(graph, k[2], memo[k].choice), 1, Terms(info))
      BY <2>6 DEF AreKnown
    <2>10. f \in CollectFrames(graph, memo, Terms(info))
      BY <2>1, <2>7, <2>8, <2>9 DEF CollectFrames, FirstChild
    <2>11. stack' = Append(stack, f) /\ UNCHANGED <<pc, info>>
      BY <1>3, <2>1, <2>7 DEF CollectSelected
    <2>12. stack' \in Seq(CollectFrames(graph, memo, Terms(info)))
      BY <1>1, <2>10, <2>11, CollectTop, PushFrame
    <2>13. stack = <<>> => root \in DOMAIN graph.roots /\ f.key = RootKeys(graph)[root]
      BY <1>1, <2>1, <2>7, CollectTop DEF Callee
    <2>14. stack # <<>> => LET e == stack[Len(stack)]
                           IN  /\ e.choice # 0
                               /\ e.child \in DOMAIN KeysOf(graph, e.key[2], e.choice)
                               /\ f.key = KeysOf(graph, e.key[2], e.choice)[e.child]
      BY <1>1, <2>1, <2>7, CollectTop DEF Callee, IsCalling, Top
    <2>15. stack \in Seq(CollectFrames(graph, memo, Terms(info)))
      BY <1>1, CollectTop
    <2>16. IsChain(graph, stack', root)
      BY <2>4, <2>11, <2>13, <2>14, <2>15, ChainPushes
    <2>17. EntriesOK(graph, info') /\ Terms(info') = Terms(info)
      BY <2>4, <2>11
    <2> QED BY <1>1, <2>4, <2>11, <2>12, <2>16, <2>17, CollectGoesOn
  <1> QED BY <1>2, <1>3

\* A choice whose operands were emitted is emitted.
LEMMA EmitSelectedStep ==
  ASSUME ExtractInv, EmitSelected PROVE ExtractInv'
PROOF
  <1>1. pc = "collect" /\ stack # <<>> /\ ~IsCalling /\ Emit(Top.key[2], Top.choice) /\ Resume(Pop(stack))
        /\ UNCHANGED <<graph, mode, pc, memo>>
    BY DEF EmitSelected
  <1>2. /\ graph \in ExtractGraphs /\ EntriesOK(graph, info) /\ IsChain(graph, stack, root)
        /\ stack \in Seq(CollectFrames(graph, memo, Terms(info)))
    BY <1>1 DEF ExtractInv, ExtractTypeOK, CollectInv
  <1>3. PICK f \in CollectFrames(graph, memo, Terms(info)) :
          f = Top /\ f.key[2] \in EClass /\ f.choice \in UsableChoices(graph, f.key[2])
          /\ f.choice \in DOMAIN graph.choices[f.key[2]]
          /\ f.child \notin DOMAIN KeysOf(graph, f.key[2], f.choice)
    BY <1>1, CollectTop DEF IsCalling
  <1>4. /\ f.child \in Steps /\ AreKnown(ChildrenOf(graph, f.key[2], f.choice), f.child, Terms(info))
    BY DEF CollectFrames, CollectFrame
  <1>5. ChildrenOf(graph, f.key[2], f.choice) \in Seq(Symbol)
        /\ DOMAIN KeysOf(graph, f.key[2], f.choice) = DOMAIN ChildrenOf(graph, f.key[2], f.choice)
    BY <1>2, <1>3, ChoiceFacts
  <1>6. \A j \in DOMAIN ChildrenOf(graph, f.key[2], f.choice) :
          ChildrenOf(graph, f.key[2], f.choice)[j] \in Terms(info)
    BY <1>3, <1>4, <1>5, KnownAll
  <1>7. Needs(graph.choices[f.key[2]][f.choice]) \subseteq Terms(info)
    BY <1>6 DEF Needs, ChildrenOf
  <1>8. EntriesOK(graph, info') /\ Terms(info') = Terms(info) \cup {f.key[2]}
    BY <1>1, <1>2, <1>3, <1>7, EmitFacts
  <1>9. PICK rest : rest = Pop(stack)
    OBVIOUS
  <1>10. /\ rest \in Seq(CollectFrames(graph, memo, Terms(info))) /\ IsChain(graph, rest, root)
         /\ Len(stack) \in Nat \ {0} /\ Len(rest) = Len(stack) - 1
         /\ \A n \in 1..(Len(stack) - 1) : rest[n] = stack[n]
    BY <1>1, <1>2, <1>9, PopFrame, ChainPops
  <1>11. PICK l \in Nat \ {0} : l = Len(stack) /\ l \in DOMAIN stack
    BY <1>2, <1>10
  <1>12. rest = <<>> /\ root \in DOMAIN graph.roots => graph.roots[root] \in Terms(info')
    <2> HAVE rest = <<>> /\ root \in DOMAIN graph.roots
    <2>1. l = 1
      BY <1>1, <1>2, <1>9, <1>11, PopLast
    <2>2. f.key = RootKeys(graph)[root]
      BY <1>2, <1>3, <1>11, <2>1 DEF IsChain, Top
    <2>3. f.key[2] = graph.roots[root]
      BY <1>2, <2>2, RootFacts
    <2> QED BY <1>8, <2>3
  <1>13. rest # <<>> => LET e == rest[Len(rest)]
                        IN  e.child \in DOMAIN ChildrenOf(graph, e.key[2], e.choice)
                              => ChildrenOf(graph, e.key[2], e.choice)[e.child] \in Terms(info')
    <2> SUFFICES ASSUME rest # <<>>
                 PROVE  ChildrenOf(graph, rest[Len(rest)].key[2], rest[Len(rest)].choice)[rest[Len(rest)].child]
                          \in Terms(info')
      OBVIOUS
    <2>1. l > 1 /\ Len(rest) = l - 1 /\ rest[l - 1] = stack[l - 1]
      <3>1. l # 1
        BY <1>1, <1>2, <1>9, <1>11, PopLast
      <3> QED BY <1>10, <1>11, <3>1
    <2>2. PICK e \in CollectFrames(graph, memo, Terms(info)) : e = stack[l - 1]
      BY <1>10, <2>1, PopFrame
    <2>3. /\ e.child \in DOMAIN KeysOf(graph, e.key[2], e.choice)
          /\ f.key = KeysOf(graph, e.key[2], e.choice)[e.child]
      BY <1>2, <1>3, <1>11, <2>1, <2>2 DEF IsChain, Top
    <2>4. e \in CollectFrame /\ e.key \in DOMAIN memo /\ e.choice = memo[e.key].choice
      BY DEF CollectFrames
    <2>5. e.key[2] \in EClass
      BY <2>4 DEF CollectFrame
    <2>6. e.choice \in DOMAIN graph.choices[e.key[2]]
      BY <1>1, <2>4, <2>5 DEF ExtractInv, ExtractTypeOK, MemoOK, HasTerm, UsableChoices
    <2>7. f.key[2] = ChildrenOf(graph, e.key[2], e.choice)[e.child]
      BY <1>2, <2>3, <2>5, <2>6, ChoiceFacts
    <2> QED BY <1>8, <2>1, <2>2, <2>7
  <1> QED BY <1>1, <1>8, <1>9, <1>10, <1>12, <1>13, CollectResumes

\* Results with the same entries.
LEMMA SameEntries ==
  ASSUME NEW g, NEW result, EntriesOK(g, result), NEW other \in Result,
         other.ops = result.ops, other.aliases = result.aliases
  PROVE  EntriesOK(g, other) /\ Terms(other) = Terms(result) /\ Entries(other) = Entries(result)
PROOF
  <1>1. Entries(other) = Entries(result)
    BY EntriesAre
  <1> QED BY <1>1 DEF EntriesOK, Terms

\* The roots have terms: the call returns them.
LEMMA ReturnFacts ==
  ASSUME NEW g, EntriesOK(g, info), NEW costs \in Seq(0..MaxCost),
         info' = [info EXCEPT !.ok = TRUE, !.rootCosts = costs]
  PROVE  EntriesOK(g, info') /\ Terms(info') = Terms(info) /\ Entries(info') = Entries(info)
         /\ info'.ok /\ info'.rootCosts = costs
         /\ info'.ops = info.ops /\ info'.aliases = info.aliases
PROOF
  <1>1. info \in Result
    BY DEF EntriesOK
  <1>2. info' \in Result /\ info'.ops = info.ops /\ info'.aliases = info.aliases /\ info'.ok /\ info'.rootCosts = costs
    BY <1>1 DEF Result
  <1> QED BY <1>2, SameEntries

\* All roots are emitted: the call returns.
LEMMA EndCollectStep ==
  ASSUME ExtractInv, EndCollect PROVE ExtractInv'
PROOF
  <1>1. pc = "collect" /\ stack = <<>> /\ ~IsCalling /\ pc' = "idle"
        /\ UNCHANGED <<graph, mode, root, stack, memo>>
    BY DEF EndCollect
  <1>2. /\ graph \in ExtractGraphs /\ MemoOK(graph, memo) /\ EntriesOK(graph, info) /\ root \in Steps
        /\ AreKnown(RootKeys(graph), Len(graph.roots) + 1, DOMAIN memo)
        /\ AreKnown(graph.roots, root, Terms(info))
    BY <1>1 DEF ExtractInv, ExtractTypeOK, CollectInv
  <1>3. Wanted = RootKeys(graph) /\ root \notin DOMAIN RootKeys(graph)
    BY <1>1, CollectTop DEF IsCalling
  <1>4. graph.roots \in Seq(Symbol) /\ DOMAIN RootKeys(graph) = DOMAIN graph.roots
    BY <1>2, RootFacts
  <1>5. \A i \in DOMAIN graph.roots : RootKeys(graph)[i] \in DOMAIN memo
    <2>1. \A i \in DOMAIN graph.roots : i < Len(graph.roots) + 1
      BY <1>4
    <2> QED BY <1>2, <1>4, <2>1 DEF AreKnown
  <1>6. PICK costs : costs = [i \in DOMAIN Wanted |-> memo[Wanted[i]].cost]
    OBVIOUS
  <1>7. costs \in Seq(0..MaxCost)
    <2>1. \A i \in DOMAIN graph.roots : memo[RootKeys(graph)[i]].cost \in 0..MaxCost
      BY <1>2, <1>5 DEF MemoOK, Best
    <2>2. PICK l \in Nat : l = Len(graph.roots) /\ DOMAIN graph.roots = 1..l
      BY <1>4
    <2>3. costs \in [1..l -> 0..MaxCost]
      BY <1>3, <1>4, <1>6, <2>1, <2>2
    <2> QED BY <2>3, FunctionIsSeq
  <1>8. info' = [info EXCEPT !.ok = TRUE, !.rootCosts = costs]
    BY <1>6 DEF EndCollect
  <1>9. EntriesOK(graph, info') /\ Terms(info') = Terms(info)
    BY <1>2, <1>7, <1>8, ReturnFacts
  <1>10. \A i \in DOMAIN graph.roots : graph.roots[i] \in Terms(info)
    BY <1>2, <1>3, <1>4, KnownAll
  <1>11. Roots(graph) \subseteq Terms(info')
    BY <1>9, <1>10 DEF Roots
  <1> QED BY <1>1, <1>9, <1>11
          DEF ExtractInv, ExtractTypeOK, IdleInv, SearchInv, CollectInv, PopulateInv, AssembleInv

\* Greedy extraction keeps the invariant.
LEMMA GreedyInv ==
  ASSUME ExtractInv, GreedyNext PROVE ExtractInv'
  BY SearchStep, CutCycleStep, TryChoiceStep, AddChildStep, KeepBestStep, MemoizeStep, GiveUpStep,
     NextRootStep, EndSearchStep, SkipCollectedStep, CollectSelectedStep, EmitSelectedStep, EndCollectStep
  DEF GreedyNext

-----------------------------------------------------------------------------
\* The steps of the integer programming backends.

\* Calls that populate the program have no effect that is seen here.
LEMMA PopulateStep ==
  ASSUME ExtractInv, UNCHANGED <<memo>>, PopulateNode \/ PopulatedNode
  PROVE  ExtractInv'
  BY DEF PopulateNode, PopulatedNode, callVars, ExtractInv, ExtractTypeOK, IdleInv, SearchInv, CollectInv,
         PopulateInv, AssembleInv

\* A best assignment is an assignment.
LEMMA BestIsFeasible ==
  ASSUME NEW g, NEW order, NEW a \in BestAssignments(g, order)
  PROVE  a \in Assignments(g, RangeOf(order)) /\ IsFeasible(g, RangeOf(order), a)
  BY DEF BestAssignments, BestOf, FeasibleAssignments

\* What is selected is usable.
LEMMA AssignmentSelects ==
  ASSUME NEW g, NEW names, NEW a \in Assignments(g, names)
  PROVE  SelOK(g, a.sel) /\ a.active \subseteq names /\ DOMAIN a.sel = a.active \cap EClass
PROOF
  <1>1. PICK S \in SUBSET names : a \in {[active |-> S, sel |-> f] : f \in Selections(g, S \cap EClass)}
    BY DEF Assignments
  <1>2. PICK f \in Selections(g, S \cap EClass) : a = [active |-> S, sel |-> f]
    BY <1>1
  <1>3. a.active = S /\ a.sel = f
    BY <1>2
  <1>4. DOMAIN f = S \cap EClass /\ \A s \in S \cap EClass : f[s] \in UsableChoices(g, s)
    BY DEF Selections
  <1> QED BY <1>3, <1>4 DEF SelOK

\* The solver returns an assignment.
LEMMA SolveStep ==
  ASSUME ExtractInv, UNCHANGED <<memo>>, Solve
  PROVE  ExtractInv'
PROOF
  <1>1. pc = "populate" /\ pc' = "assemble" /\ assignment' \in BestAssignments(graph, nodes)
        /\ UNCHANGED <<graph, mode, root, stack, info, subtreeCosts>>
    BY DEF Solve
  <1>2. SelOK(graph, assignment'.sel)
    BY <1>1, BestIsFeasible, AssignmentSelects
  <1>3. stack = <<>> /\ root = 1 /\ subtreeCosts = <<>> /\ graph \in ExtractGraphs
    BY <1>1 DEF ExtractInv, PopulateInv, ExtractTypeOK
  <1>4. DOMAIN subtreeCosts = {}
    BY <1>3
  <1>5. AreKnown(graph.roots, 1, {})
    <2>1. graph.roots \in Seq(Symbol)
      BY <1>3, RootFacts
    <2> QED BY <2>1 DEF AreKnown
  <1>6. stack \in Seq(AssembleFrames(graph, assignment'.sel, {}))
    BY <1>3
  <1>7. AssembleInv'
    BY <1>1, <1>2, <1>3, <1>4, <1>5, <1>6 DEF AssembleInv, CostsOK
  <1> QED BY <1>1, <1>7 DEF ExtractInv, ExtractTypeOK, IdleInv, SearchInv, CollectInv, PopulateInv

\* The solver is not asked, or finds none.
LEMMA SolveFailsStep ==
  ASSUME ExtractInv, UNCHANGED <<memo>>, SolveFails
  PROVE  ExtractInv'
PROOF
  <1>1. pc = "populate" /\ Fail /\ UNCHANGED <<graph, mode, root, stack, memo>>
    BY DEF SolveFails
  <1>2. stack' = <<>>
    BY <1>1 DEF ExtractInv, PopulateInv
  <1> QED BY <1>1, <1>2, FailStep

\* The frame on top of collectSelected, and what it asks for.
LEMMA AssembleTop ==
  ASSUME ExtractInv, pc = "assemble"
  PROVE  /\ graph \in ExtractGraphs /\ EntriesOK(graph, info) /\ root \in Steps
         /\ SelOK(graph, assignment.sel)
         /\ CostsOK(subtreeCosts) /\ DOMAIN subtreeCosts \subseteq Terms(info)
         /\ AreKnown(graph.roots, root, DOMAIN subtreeCosts)
         /\ stack \in Seq(AssembleFrames(graph, assignment.sel, DOMAIN subtreeCosts))
         /\ stack = <<>> => Operands = graph.roots /\ At = root
         /\ stack # <<>> => /\ Top \in AssembleFrames(graph, assignment.sel, DOMAIN subtreeCosts)
                            /\ Top.symbol \in EClass
                            /\ assignment.sel[Top.symbol] \in UsableChoices(graph, Top.symbol)
                            /\ At = Top.child
                            /\ Operands = ChildrenOf(graph, Top.symbol, assignment.sel[Top.symbol])
         /\ Operands \in Seq(Symbol)
         /\ IsAsking => Operand \in Symbol
PROOF
  <1>0. /\ graph \in ExtractGraphs /\ EntriesOK(graph, info) /\ SelOK(graph, assignment.sel)
        /\ CostsOK(subtreeCosts) /\ DOMAIN subtreeCosts \subseteq Terms(info) /\ root \in Steps
        /\ AreKnown(graph.roots, root, DOMAIN subtreeCosts)
        /\ stack \in Seq(AssembleFrames(graph, assignment.sel, DOMAIN subtreeCosts))
    BY DEF ExtractInv, ExtractTypeOK, AssembleInv
  <1>1. CASE stack = <<>>
    <2>1. Operands = graph.roots /\ At = root
      BY <1>1 DEF Operands, At
    <2>2. Operands \in Seq(Symbol)
      BY <1>0, <2>1, RootFacts
    <2>3. IsAsking => Operand \in Symbol
      BY <2>2 DEF IsAsking, Operand
    <2> QED BY <1>0, <1>1, <2>1, <2>2, <2>3
  <1>2. CASE stack # <<>>
    <2>1. PICK f \in AssembleFrames(graph, assignment.sel, DOMAIN subtreeCosts) : f = Top
      BY <1>0, <1>2, PopFrame DEF Top
    <2>2. f.symbol \in EClass /\ f.symbol \in DOMAIN assignment.sel
      BY DEF AssembleFrames, AssembleFrame
    <2>3. assignment.sel[f.symbol] \in UsableChoices(graph, f.symbol)
          /\ assignment.sel[f.symbol] \in DOMAIN graph.choices[f.symbol]
      BY <1>0, <2>2 DEF SelOK, UsableChoices
    <2>4. Operands = ChildrenOf(graph, f.symbol, assignment.sel[f.symbol]) /\ At = f.child
      BY <1>2, <2>1 DEF Operands, Selected, ChildrenOf, At
    <2>5. Operands \in Seq(Symbol)
      BY <1>0, <2>2, <2>3, <2>4, ChoiceFacts
    <2>6. IsAsking => Operand \in Symbol
      BY <2>5 DEF IsAsking, Operand
    <2> QED BY <1>0, <1>2, <2>1, <2>2, <2>3, <2>4, <2>5, <2>6
  <1> QED BY <1>1, <1>2

\* What a step within it has to show.
LEMMA AssembleGoesOn ==
  ASSUME ExtractInv, pc = "assemble", UNCHANGED <<graph, mode, pc, memo, assignment>>,
         EntriesOK(graph, info'), root' \in Steps,
         CostsOK(subtreeCosts'), DOMAIN subtreeCosts' \subseteq Terms(info'),
         stack' \in Seq(AssembleFrames(graph, assignment.sel, DOMAIN subtreeCosts')),
         AreKnown(graph.roots, root', DOMAIN subtreeCosts')
  PROVE  ExtractInv'
  BY DEF ExtractInv, ExtractTypeOK, IdleInv, SearchInv, CollectInv, PopulateInv, AssembleInv

\* The cost of a name is remembered.
LEMMA CostsGrow ==
  ASSUME NEW costs, CostsOK(costs), NEW s \in Symbol, NEW cost \in 0..MaxCost
  PROVE  CostsOK(Extend(costs, s, cost))
  BY DEF CostsOK, Extend

\* An input costs nothing.
LEMMA AssembleInputStep ==
  ASSUME ExtractInv, UNCHANGED <<memo>>, AssembleInput
  PROVE  ExtractInv'
PROOF
  <1>1. pc = "assemble" /\ IsAsking /\ Operand \in Input /\ subtreeCosts' = Extend(subtreeCosts, Operand, 0)
        /\ UNCHANGED <<graph, mode, pc, root, stack, info, memo, assignment>>
    BY DEF AssembleInput, callVars
  <1>2. PICK s \in Symbol : s = Operand /\ s \in Input
    BY <1>1, AssembleTop
  <1>3. CostsOK(subtreeCosts')
    BY <1>1, <1>2, AssembleTop, CostsGrow, MaxCostOK
  <1>4. DOMAIN subtreeCosts' = DOMAIN subtreeCosts \cup {s}
    BY <1>1, <1>2 DEF Extend
  <1>5. DOMAIN subtreeCosts' \subseteq Terms(info')
    BY <1>1, <1>2, <1>4, AssembleTop DEF Terms
  <1>6. stack' \in Seq(AssembleFrames(graph, assignment.sel, DOMAIN subtreeCosts'))
    BY <1>1, <1>4, AssembleTop, AssembleFramesGrow, WeakerFrames
  <1>7. AreKnown(graph.roots, root', DOMAIN subtreeCosts')
    BY <1>1, <1>4, AssembleTop DEF AreKnown
  <1>8. EntriesOK(graph, info') /\ root' \in Steps
    BY <1>1, AssembleTop
  <1> QED BY <1>1, <1>3, <1>5, <1>6, <1>7, <1>8, AssembleGoesOn

\* An e-class is assembled, or refused.
LEMMA AssembleStep ==
  ASSUME ExtractInv, UNCHANGED <<memo>>, Assemble
  PROVE  ExtractInv'
PROOF
  <1>1. pc = "assemble" /\ IsAsking /\ Operand \in EClass /\ UNCHANGED <<graph, mode, root, assignment, subtreeCosts>>
    BY DEF Assemble, lpVars
  <1>2. CASE Operand \in {stack[n].symbol : n \in DOMAIN stack} \/ Operand \notin DOMAIN assignment.sel
    <2>1. Fail /\ stack' = <<>>
      BY <1>2 DEF Assemble
    <2> QED BY <1>1, <2>1, FailStep
  <1>3. CASE ~(Operand \in {stack[n].symbol : n \in DOMAIN stack} \/ Operand \notin DOMAIN assignment.sel)
    <2>1. PICK s \in EClass : s = Operand /\ s \in DOMAIN assignment.sel
      BY <1>1, <1>3
    <2>2. PICK f : f = [symbol |-> s, child |-> FirstChild, cost |-> Selected(s).cost]
      OBVIOUS
    <2>3. stack' = Append(stack, f) /\ UNCHANGED <<pc, info>>
      BY <1>3, <2>1, <2>2 DEF Assemble
    <2>4. /\ assignment.sel[s] \in UsableChoices(graph, s)
          /\ assignment.sel[s] \in DOMAIN graph.choices[s] /\ IsUsable(graph.choices[s][assignment.sel[s]])
      BY <1>1, <2>1, AssembleTop DEF SelOK, UsableChoices
    <2>5. graph.choices[s][assignment.sel[s]].cost \in NoCost..MaxCost
          /\ ChildrenOf(graph, s, assignment.sel[s]) \in Seq(Symbol)
      BY <1>1, <2>4, AssembleTop, ChoiceFacts
    <2>6. Selected(s).cost \in 0..MaxCost
      BY <2>4, <2>5, MaxCostOK DEF Selected, IsUsable, NoCost
    <2>7. f \in AssembleFrame
      BY <2>2, <2>6 DEF AssembleFrame, FirstChild, Steps
    <2>8. AreKnown(ChildrenOf(graph, s, assignment.sel[s]), 1, DOMAIN subtreeCosts)
      BY <2>5 DEF AreKnown
    <2>9. f \in AssembleFrames(graph, assignment.sel, DOMAIN subtreeCosts)
      BY <2>1, <2>2, <2>7, <2>8 DEF AssembleFrames, FirstChild
    <2>10. stack' \in Seq(AssembleFrames(graph, assignment.sel, DOMAIN subtreeCosts))
      BY <1>1, <2>3, <2>9, AssembleTop, PushFrame
    <2>11. /\ CostsOK(subtreeCosts') /\ DOMAIN subtreeCosts' \subseteq Terms(info')
           /\ AreKnown(graph.roots, root', DOMAIN subtreeCosts') /\ root' \in Steps /\ EntriesOK(graph, info')
      BY <1>1, <2>3, AssembleTop
    <2> QED BY <1>1, <2>3, <2>10, <2>11, AssembleGoesOn
  <1> QED BY <1>2, <1>3

\* The cost of an operand is added, or does not fit.
LEMMA AddCostStep ==
  ASSUME ExtractInv, UNCHANGED <<memo>>, AddCost
  PROVE  ExtractInv'
PROOF
  <1>1. pc = "assemble" /\ stack # <<>> /\ IsAsking /\ Operand \in DOMAIN subtreeCosts
        /\ UNCHANGED <<graph, mode, root, assignment, subtreeCosts>>
    BY DEF AddCost, lpVars
  <1>2. PICK cost \in 0..MaxCost : cost = subtreeCosts[Operand]
    BY <1>1, AssembleTop DEF CostsOK
  <1>3. PICK f \in AssembleFrames(graph, assignment.sel, DOMAIN subtreeCosts) : f = Top
    BY <1>1, AssembleTop
  <1>4. CASE Fits(f.cost, cost)
    <2>1. PICK h : h = [f EXCEPT !.child = @ + 1, !.cost = @ + cost]
      OBVIOUS
    <2>2. stack' = WithTop(h) /\ UNCHANGED <<pc, info>>
      BY <1>2, <1>3, <1>4, <2>1 DEF AddCost
    <2>3. /\ f \in AssembleFrame /\ f.symbol \in DOMAIN assignment.sel
          /\ AreKnown(ChildrenOf(graph, f.symbol, assignment.sel[f.symbol]), f.child, DOMAIN subtreeCosts)
      BY DEF AssembleFrames
    <2>4. f.child \in Nat /\ f.child + 1 \in Steps /\ f.cost + cost \in 0..MaxCost
      BY <1>4, <2>3, MaxCostOK DEF AssembleFrame, Fits, Steps
    <2>5. h \in AssembleFrame /\ h.symbol = f.symbol /\ h.child = f.child + 1
      BY <2>1, <2>3, <2>4 DEF AssembleFrame
    <2>6. Operands = ChildrenOf(graph, f.symbol, assignment.sel[f.symbol]) /\ At = f.child
          /\ Operands \in Seq(Symbol)
      BY <1>1, <1>3, AssembleTop
    <2>7. AreKnown(ChildrenOf(graph, f.symbol, assignment.sel[f.symbol]), f.child + 1, DOMAIN subtreeCosts)
      <3>1. DOMAIN Operands \subseteq Nat
        BY <2>6
      <3> QED BY <1>1, <2>3, <2>4, <2>6, <3>1, KnownNext DEF Operand
    <2>8. h \in AssembleFrames(graph, assignment.sel, DOMAIN subtreeCosts)
      BY <2>3, <2>5, <2>7 DEF AssembleFrames
    <2>9. stack' \in Seq(AssembleFrames(graph, assignment.sel, DOMAIN subtreeCosts))
      BY <1>1, <2>2, <2>8, AssembleTop, TopFrame DEF WithTop
    <2>10. /\ CostsOK(subtreeCosts') /\ DOMAIN subtreeCosts' \subseteq Terms(info')
           /\ AreKnown(graph.roots, root', DOMAIN subtreeCosts') /\ root' \in Steps /\ EntriesOK(graph, info')
      BY <1>1, <2>2, AssembleTop
    <2> QED BY <1>1, <2>2, <2>9, <2>10, AssembleGoesOn
  <1>5. CASE ~Fits(f.cost, cost)
    <2>1. Fail /\ stack' = <<>>
      BY <1>2, <1>3, <1>5 DEF AddCost
    <2> QED BY <1>1, <2>1, FailStep
  <1> QED BY <1>4, <1>5

\* An e-class whose operands all have costs is emitted.
LEMMA AssembledStep ==
  ASSUME ExtractInv, UNCHANGED <<memo>>, Assembled
  PROVE  ExtractInv'
PROOF
  <1>1. pc = "assemble" /\ stack # <<>> /\ ~IsAsking /\ UNCHANGED <<graph, mode, pc, root, assignment>>
        /\ subtreeCosts' = Extend(subtreeCosts, Top.symbol, Top.cost) /\ stack' = Pop(stack)
        /\ Emit(Top.symbol, assignment.sel[Top.symbol])
    BY DEF Assembled
  <1>2. PICK f \in AssembleFrames(graph, assignment.sel, DOMAIN subtreeCosts) : f = Top
    BY <1>1, AssembleTop
  <1>3. PICK i \in UsableChoices(graph, f.symbol) : i = assignment.sel[f.symbol]
    BY <1>1, <1>2, AssembleTop
  <1>4. /\ f \in AssembleFrame /\ f.symbol \in EClass /\ f.cost \in 0..MaxCost /\ f.child \in Steps
        /\ AreKnown(ChildrenOf(graph, f.symbol, i), f.child, DOMAIN subtreeCosts)
    BY <1>3 DEF AssembleFrames, AssembleFrame
  <1>5. ChildrenOf(graph, f.symbol, i) \in Seq(Symbol) /\ f.child \notin DOMAIN ChildrenOf(graph, f.symbol, i)
    BY <1>1, <1>2, <1>3, AssembleTop DEF IsAsking
  <1>6. \A j \in DOMAIN ChildrenOf(graph, f.symbol, i) : ChildrenOf(graph, f.symbol, i)[j] \in DOMAIN subtreeCosts
    BY <1>4, <1>5, KnownAll
  <1>7. Needs(graph.choices[f.symbol][i]) \subseteq Terms(info)
    <2>1. DOMAIN subtreeCosts \subseteq Terms(info)
      BY <1>1, AssembleTop
    <2> QED BY <1>6, <2>1 DEF Needs, ChildrenOf
  <1>8. EntriesOK(graph, info') /\ Terms(info') = Terms(info) \cup {f.symbol}
    BY <1>1, <1>2, <1>3, <1>4, <1>7, AssembleTop, EmitFacts
  <1>9. CostsOK(subtreeCosts')
    BY <1>1, <1>2, <1>4, AssembleTop, CostsGrow DEF EClass
  <1>10. DOMAIN subtreeCosts' = DOMAIN subtreeCosts \cup {f.symbol}
    BY <1>1, <1>2 DEF Extend
  <1>11. DOMAIN subtreeCosts' \subseteq Terms(info')
    BY <1>1, <1>8, <1>10, AssembleTop
  <1>12. stack' \in Seq(AssembleFrames(graph, assignment.sel, DOMAIN subtreeCosts))
    BY <1>1, AssembleTop, PopFrame
  <1>13. stack' \in Seq(AssembleFrames(graph, assignment.sel, DOMAIN subtreeCosts'))
    BY <1>10, <1>12, AssembleFramesGrow, WeakerFrames
  <1>14. AreKnown(graph.roots, root', DOMAIN subtreeCosts') /\ root' \in Steps
    BY <1>1, <1>10, AssembleTop DEF AreKnown
  <1> QED BY <1>1, <1>8, <1>9, <1>11, <1>13, <1>14, AssembleGoesOn

\* The root has a cost: the next one.
LEMMA AssembledRootStep ==
  ASSUME ExtractInv, UNCHANGED <<memo>>, AssembledRoot
  PROVE  ExtractInv'
PROOF
  <1>1. pc = "assemble" /\ stack = <<>> /\ IsAsking /\ Operand \in DOMAIN subtreeCosts /\ root' = root + 1
        /\ UNCHANGED <<graph, mode, pc, stack, info, assignment, subtreeCosts>>
    BY DEF AssembledRoot, lpVars
  <1>2. Operands = graph.roots /\ At = root /\ Operands \in Seq(Symbol) /\ root \in Steps
    BY <1>1, AssembleTop
  <1>3. AreKnown(graph.roots, root', DOMAIN subtreeCosts')
    <2>1. DOMAIN graph.roots \subseteq Nat /\ AreKnown(graph.roots, root, DOMAIN subtreeCosts)
      BY <1>1, <1>2, AssembleTop
    <2>2. graph.roots[root] \in DOMAIN subtreeCosts
      BY <1>1, <1>2 DEF Operand
    <2> QED BY <1>1, <1>2, <2>1, <2>2, KnownNext DEF Steps
  <1>4. /\ CostsOK(subtreeCosts') /\ DOMAIN subtreeCosts' \subseteq Terms(info')
        /\ stack' \in Seq(AssembleFrames(graph, assignment.sel, DOMAIN subtreeCosts'))
        /\ root' \in Steps /\ EntriesOK(graph, info')
    BY <1>1, <1>2, AssembleTop DEF Steps
  <1> QED BY <1>1, <1>3, <1>4, AssembleGoesOn

\* All roots have costs: the call returns.
LEMMA EndAssembleStep ==
  ASSUME ExtractInv, UNCHANGED <<memo>>, EndAssemble
  PROVE  ExtractInv'
PROOF
  <1>1. pc = "assemble" /\ stack = <<>> /\ ~IsAsking /\ pc' = "idle"
        /\ UNCHANGED <<graph, mode, root, stack, memo>>
    BY DEF EndAssemble
  <1>2. Operands = graph.roots /\ root \notin DOMAIN graph.roots /\ graph.roots \in Seq(Symbol) /\ root \in Steps
    BY <1>1, AssembleTop DEF IsAsking
  <1>3. \A i \in DOMAIN graph.roots : graph.roots[i] \in DOMAIN subtreeCosts
    BY <1>1, <1>2, AssembleTop, KnownAll
  <1>4. PICK costs : costs = [i \in DOMAIN Operands |-> subtreeCosts[Operands[i]]]
    OBVIOUS
  <1>5. costs \in Seq(0..MaxCost)
    <2>1. \A i \in DOMAIN graph.roots : subtreeCosts[graph.roots[i]] \in 0..MaxCost
      BY <1>1, <1>3, AssembleTop DEF CostsOK
    <2>2. PICK l \in Nat : l = Len(graph.roots) /\ DOMAIN graph.roots = 1..l
      BY <1>2
    <2>3. costs \in [1..l -> 0..MaxCost]
      BY <1>2, <1>4, <2>1, <2>2
    <2> QED BY <2>3, FunctionIsSeq
  <1>6. info' = [info EXCEPT !.ok = TRUE, !.rootCosts = costs]
    BY <1>4 DEF EndAssemble
  <1>7. EntriesOK(graph, info') /\ Terms(info') = Terms(info)
    BY <1>1, <1>5, <1>6, AssembleTop, ReturnFacts
  <1>8. Roots(graph) \subseteq Terms(info')
    BY <1>1, <1>3, <1>7, AssembleTop DEF Roots
  <1> QED BY <1>1, <1>7, <1>8
          DEF ExtractInv, ExtractTypeOK, IdleInv, SearchInv, CollectInv, PopulateInv, AssembleInv

\* Integer programming keeps the invariant.
LEMMA LpInv ==
  ASSUME ExtractInv, UNCHANGED <<memo>>, LpNext PROVE ExtractInv'
  BY PopulateStep, SolveStep, SolveFailsStep, AssembleInputStep, AssembleStep, AddCostStep, AssembledStep,
     AssembledRootStep, EndAssembleStep
  DEF LpNext

-----------------------------------------------------------------------------
\* A call starts from nothing.
LEMMA RunExtractInv ==
  ASSUME ExtractInv, NEW m \in Backends, RunExtract(m) PROVE ExtractInv'
PROOF
  <1>1. pc' \in {"search", "populate"} /\ (pc' = "search" <=> m = "greedy") /\ mode' = m /\ graph' = graph
        /\ root' = 1 /\ stack' = <<>> /\ info' = NoInfo /\ memo' = <<>> /\ subtreeCosts' = <<>>
    BY DEF RunExtract
  <1>2. EntriesOK(graph, NoInfo)
    BY NoEntries
  <1>3. MemoOK(graph, <<>>)
    BY DEF MemoOK
  <1>4. AreKnown(RootKeys(graph), 1, DOMAIN memo')
    <2>1. graph.roots \in Seq(Symbol) /\ DOMAIN RootKeys(graph) = DOMAIN graph.roots
      BY RootFacts DEF ExtractInv, ExtractTypeOK
    <2> QED BY <2>1 DEF AreKnown
  <1>5. 1 \in Steps /\ <<>> \in Seq(SearchFrames(graph, DOMAIN memo'))
    BY DEF Steps
  <1> QED BY <1>1, <1>2, <1>3, <1>4, <1>5
          DEF ExtractInv, ExtractTypeOK, IdleInv, SearchInv, CollectInv, PopulateInv, AssembleInv

\* What remembers and emits terms only holds in every state of every sequence of calls.
THEOREM ExtractInvariant == ExtractSpec => []ExtractInv
PROOF
  <1>1. ExtractInit => ExtractInv
    <2> SUFFICES ASSUME ExtractInit PROVE ExtractInv
      OBVIOUS
    <2>1. EntriesOK(graph, NoInfo) /\ ~NoInfo.ok
      BY NoEntries
    <2>2. MemoOK(graph, <<>>) /\ 1 \in Steps
      BY DEF MemoOK, Steps
    <2> QED BY <2>1, <2>2 DEF ExtractInit, ExtractInv, ExtractTypeOK, IdleInv, SearchInv, CollectInv,
               PopulateInv, AssembleInv
  <1>2. ExtractInv /\ [ExtractNext]_extractVars => ExtractInv'
    <2> SUFFICES ASSUME ExtractInv, [ExtractNext]_extractVars PROVE ExtractInv'
      OBVIOUS
    <2>1. CASE \E m \in Backends : RunExtract(m)
      BY <2>1, RunExtractInv
    <2>2. CASE GreedyStep
      BY <2>2, GreedyInv DEF GreedyStep
    <2>3. CASE LpStep
      BY <2>3, LpInv DEF LpStep
    <2>4. CASE UNCHANGED extractVars
      BY <2>4 DEF extractVars, callVars, lpVars, ExtractInv, ExtractTypeOK, IdleInv, SearchInv, CollectInv,
                  PopulateInv, AssembleInv
    <2> QED BY <2>1, <2>2, <2>3, <2>4 DEF ExtractNext
  <1> QED BY <1>1, <1>2, PTL DEF ExtractSpec

-----------------------------------------------------------------------------
\* What has been selected.

\* A selection map has the entries.
LEMMA SelectionMapEntries ==
  ASSUME NEW result \in Result, IsSelectionMap(result)
  PROVE  /\ DOMAIN SelectionMap(result) = {e[1] : e \in Entries(result)}
         /\ \A e \in Entries(result) : SelectionMap(result)[e[1]] = e[2]
PROOF
  <1>1. \A e, f \in Entries(result) : e[1] = f[1] => e = f
    BY DEF IsSelectionMap, Entries
  <1>2. \A e \in Entries(result) : (CHOOSE f \in Entries(result) : f[1] = e[1]) = e
    <2> TAKE e \in Entries(result)
    <2>1. PICK c : c = CHOOSE f \in Entries(result) : f[1] = e[1]
      OBVIOUS
    <2>2. c \in Entries(result) /\ c[1] = e[1]
      BY <2>1
    <2> QED BY <1>1, <2>1, <2>2
  <1>3. \A e \in Entries(result) : e[1] \in {f[1] : f \in Entries(result)}
    OBVIOUS
  <1> QED BY <1>2, <1>3, Zenon DEF SelectionMap

(***************************************************************************)
(* A selection map whose entries are usable, and that grounds itself and   *)
(* some other names, is an extraction of these.                            *)
(***************************************************************************)
LEMMA EntriesExtract ==
  ASSUME NEW g, NEW result, EntriesOK(g, result), IsSelectionMap(result),
         NEW R, R \subseteq Terms(result)
  PROVE  SelectionMap(result) \in Extractions(g, R)
PROOF
  <1>1. result \in Result /\ \A e \in Entries(result) : e[2] \in UsableChoices(g, e[1])
    BY DEF EntriesOK
  <1>2. PICK sel : sel = SelectionMap(result)
    OBVIOUS
  <1>3. DOMAIN sel = {e[1] : e \in Entries(result)} /\ \A e \in Entries(result) : sel[e[1]] = e[2]
    BY <1>1, <1>2, SelectionMapEntries
  <1>4. \A e \in Entries(result) : e[1] \in EClass
    <2>1. RangeOf(result.ops) \subseteq EClass \X Nat /\ RangeOf(result.aliases) \subseteq EClass \X Nat
      BY <1>1 DEF Result, RangeOf
    <2> QED BY <2>1, EntriesAre
  <1>5. DOMAIN sel \in SUBSET EClass
    BY <1>3, <1>4
  <1>6. \A s \in DOMAIN sel : sel[s] \in UsableChoices(g, s)
    BY <1>1, <1>3
  <1>7. sel \in Selections(g, DOMAIN sel)
    <2>1. sel = [s \in DOMAIN sel |-> sel[s]]
      BY <1>2 DEF SelectionMap
    <2>2. sel \in [DOMAIN sel -> UNION {UsableChoices(g, s) : s \in DOMAIN sel}]
      BY <1>6, <2>1
    <2> QED BY <1>6, <2>2 DEF Selections
  <1>8. DOMAIN sel \cup R \subseteq Terms(result)
    BY <1>3 DEF Terms
  <1>9. Terms(result) \subseteq Grounded(g, sel)
    <2>1. Terms(result) \subseteq Symbol
      BY <1>3, <1>5, NamesFinite DEF Terms, EClass
    <2>2. ASSUME NEW S \in SUBSET Symbol, IsClosedUnder(g, sel, S)
          PROVE  Terms(result) \subseteq S
      <3>1. \A e \in Entries(result) : Needs(g.choices[e[1]][e[2]]) \subseteq S => e[1] \in S
        BY <1>3, <2>2 DEF IsClosedUnder
      <3>2. Input \subseteq S
        BY <2>2 DEF IsClosedUnder
      <3> QED BY <3>1, <3>2 DEF EntriesOK
    <2> QED BY <2>1, <2>2 DEF Grounded
  <1> QED BY <1>2, <1>5, <1>7, <1>8, <1>9 DEF Extractions

(***************************************************************************)
(* Whatever the backend, the graph, its cycles and the calls before: what  *)
(* a call returns is an extraction of the roots (GreedyExtract.cpp,        *)
(* Z3Extract.cpp and OrToolsExtract.cpp; buildSelectionMap accepts it).    *)
(***************************************************************************)
THEOREM ExtractSelects == ExtractSpec => []SelectsExtraction
PROOF
  <1>1. ExtractInv => SelectsExtraction
    <2> SUFFICES ASSUME ExtractInv, pc = "idle", info.ok, IsSelectionMap(info)
                 PROVE  SelectionMap(info) \in Extractions(graph, Roots(graph))
      BY DEF SelectsExtraction
    <2>1. EntriesOK(graph, info) /\ Roots(graph) \subseteq Terms(info)
      BY DEF ExtractInv, ExtractTypeOK, IdleInv
    <2> QED BY <2>1, EntriesExtract
  <1> QED BY <1>1, ExtractInvariant, PTL

-----------------------------------------------------------------------------
(***************************************************************************)
(* The costs of greedy extraction: what is remembered of a key is the sum  *)
(* of what is remembered of the operands of its choice.  This needs that   *)
(* a key is remembered once, hence that no two frames are about one key.   *)
(***************************************************************************)
KeyCosts(g, memory, s, i) == [j \in DOMAIN KeysOf(g, s, i) |-> memory[KeysOf(g, s, i)[j]].cost]

\* The cost of the choice with its first n operands.
CostBefore(g, memory, s, i, n) == SumTo(g.choices[s][i].cost, KeyCosts(g, memory, s, i), n)
FullCost(g, memory, s, i) == CostBefore(g, memory, s, i, Len(ChildrenOf(g, s, i)))

\* With aliases of inputs only, e-classes are searched as leaders.
IsPlainKey(g, k) == AliasesOfInputs(g) => k[1] = "leader" \/ k[2] \in Input

ExactMemo(g, memory) ==
  \A k \in DOMAIN memory :
    /\ memory[k].cost = IF k[2] \in Input THEN 0 ELSE FullCost(g, memory, k[2], memory[k].choice)
    /\ IsPlainKey(g, k)

ExactFrames(g, memory) ==
  {f \in SearchFrames(g, DOMAIN memory) :
     /\ f.choice # 0 => /\ f.child <= Len(ChildrenOf(g, f.key[2], f.choice)) + 1
                        /\ f.cost = CostBefore(g, memory, f.key[2], f.choice, f.child - 1)
     /\ f.best.choice # 0 => f.best.cost = FullCost(g, memory, f.key[2], f.best.choice)
     /\ IsPlainKey(g, f.key)
     /\ f.key \notin DOMAIN memory}

AreDistinct(frames) == \A m, n \in DOMAIN frames : frames[m].key = frames[n].key => m = n

SearchCosts ==
  /\ ExactMemo(graph, memo)
  /\ pc = "search" => stack \in Seq(ExactFrames(graph, memo)) /\ AreDistinct(stack)

\* A term keeps its cost when more is remembered.
LEMMA CostStays ==
  ASSUME NEW g \in ExtractGraphs, NEW memory, NEW more,
         DOMAIN memory \subseteq DOMAIN more, \A k \in DOMAIN memory : more[k] = memory[k],
         NEW s \in EClass, NEW i \in UsableChoices(g, s), NEW n \in 0..Len(ChildrenOf(g, s, i)),
         AreKnown(KeysOf(g, s, i), n + 1, DOMAIN memory)
  PROVE  CostBefore(g, more, s, i, n) = CostBefore(g, memory, s, i, n)
PROOF
  <1>1. i \in DOMAIN g.choices[s]
    BY DEF UsableChoices
  <1>2. ChildrenOf(g, s, i) \in Seq(Symbol) /\ DOMAIN KeysOf(g, s, i) = DOMAIN ChildrenOf(g, s, i)
    BY <1>1, ChoiceFacts
  <1>3. n \in Nat /\ \A j \in 1..n : j \in DOMAIN KeysOf(g, s, i) /\ j < n + 1
    BY <1>2
  <1>4. \A j \in 1..n : KeysOf(g, s, i)[j] \in DOMAIN memory
    BY <1>3 DEF AreKnown
  <1>5. \A j \in 1..n : KeyCosts(g, more, s, i)[j] = KeyCosts(g, memory, s, i)[j]
    BY <1>3, <1>4 DEF KeyCosts
  <1> QED BY <1>3, <1>5, SumSame DEF CostBefore

\* So does a term with all its operands.
LEMMA FullCostStays ==
  ASSUME NEW g \in ExtractGraphs, NEW memory, NEW more,
         DOMAIN memory \subseteq DOMAIN more, \A k \in DOMAIN memory : more[k] = memory[k],
         NEW s \in EClass, NEW i, HasTerm(g, DOMAIN memory, s, i)
  PROVE  FullCost(g, more, s, i) = FullCost(g, memory, s, i)
PROOF
  <1>1. i \in UsableChoices(g, s) /\ i \in DOMAIN g.choices[s]
    BY DEF HasTerm, UsableChoices
  <1>2. ChildrenOf(g, s, i) \in Seq(Symbol)
    BY <1>1, ChoiceFacts
  <1>3. Len(ChildrenOf(g, s, i)) \in 0..Len(ChildrenOf(g, s, i))
    BY <1>2
  <1>4. AreKnown(KeysOf(g, s, i), Len(ChildrenOf(g, s, i)) + 1, DOMAIN memory)
    BY DEF HasTerm, AreKnown
  <1> QED BY <1>1, <1>3, <1>4, CostStays DEF FullCost

\* Frames and what is remembered stay exact.
LEMMA ExactStays ==
  ASSUME NEW g \in ExtractGraphs, NEW memory, MemoOK(g, memory), ExactMemo(g, memory),
         NEW more, NEW k \in Key, k \notin DOMAIN memory, IsPlainKey(g, k),
         DOMAIN more = DOMAIN memory \cup {k}, \A l \in DOMAIN memory : more[l] = memory[l],
         k[2] \in Input => more[k].cost = 0,
         k[2] \in EClass => /\ HasTerm(g, DOMAIN memory, k[2], more[k].choice)
                            /\ more[k].cost = FullCost(g, memory, k[2], more[k].choice)
  PROVE  /\ ExactMemo(g, more)
         /\ \A f \in ExactFrames(g, memory) : f.key # k => f \in ExactFrames(g, more)
PROOF
  <1>1. ASSUME NEW l \in DOMAIN more
        PROVE  /\ more[l].cost = IF l[2] \in Input THEN 0 ELSE FullCost(g, more, l[2], more[l].choice)
               /\ IsPlainKey(g, l)
    <2>1. CASE l = k
      <3>1. k[2] \in Input \/ k[2] \in EClass
        BY DEF Key, EClass
      <3>2. CASE k[2] \in Input
        BY <2>1, <3>2
      <3>3. CASE k[2] \in EClass
        <4>1. FullCost(g, more, k[2], more[k].choice) = FullCost(g, memory, k[2], more[k].choice)
          BY <3>3, FullCostStays
        <4> QED BY <2>1, <3>3, <4>1 DEF EClass
      <3> QED BY <3>1, <3>2, <3>3
    <2>2. CASE l # k
      <3>1. l \in DOMAIN memory /\ more[l] = memory[l]
        BY <1>1, <2>2
      <3>2. l[2] \in Input \/ l[2] \in EClass
        BY <3>1 DEF MemoOK, Key, EClass
      <3>3. CASE l[2] \in Input
        BY <3>1, <3>3 DEF ExactMemo
      <3>4. CASE l[2] \in EClass
        <4>1. HasTerm(g, DOMAIN memory, l[2], memory[l].choice)
          BY <3>1, <3>4 DEF MemoOK
        <4>2. FullCost(g, more, l[2], memory[l].choice) = FullCost(g, memory, l[2], memory[l].choice)
          BY <3>4, <4>1, FullCostStays
        <4> QED BY <3>1, <3>4, <4>2 DEF ExactMemo, EClass
      <3> QED BY <3>2, <3>3, <3>4
    <2> QED BY <2>1, <2>2
  <1>2. ASSUME NEW f \in ExactFrames(g, memory), f.key # k
        PROVE  f \in ExactFrames(g, more)
    <2>1. f \in SearchFrames(g, DOMAIN memory) /\ IsPlainKey(g, f.key) /\ f.key \notin DOMAIN memory
      BY DEF ExactFrames
    <2>2. f \in SearchFrames(g, DOMAIN more) /\ f.key \notin DOMAIN more
      BY <1>2, <2>1, FramesGrow
    <2>3. f.key[2] \in EClass /\ f.child \in Steps
      BY <2>1 DEF SearchFrames, SearchFrame
    <2>4. f.choice # 0 => /\ f.child <= Len(ChildrenOf(g, f.key[2], f.choice)) + 1
                          /\ f.cost = CostBefore(g, more, f.key[2], f.choice, f.child - 1)
      <3> HAVE f.choice # 0
      <3>1. f.choice \in UsableChoices(g, f.key[2]) /\ AreKnown(KeysOf(g, f.key[2], f.choice), f.child, DOMAIN memory)
        BY <2>1 DEF SearchFrames
      <3>2. f.child <= Len(ChildrenOf(g, f.key[2], f.choice)) + 1
            /\ f.cost = CostBefore(g, memory, f.key[2], f.choice, f.child - 1)
        BY DEF ExactFrames
      <3>3. ChildrenOf(g, f.key[2], f.choice) \in Seq(Symbol)
        BY <2>3, <3>1, ChoiceFacts DEF UsableChoices
      <3>4. f.child - 1 \in 0..Len(ChildrenOf(g, f.key[2], f.choice)) /\ (f.child - 1) + 1 = f.child
        BY <2>3, <3>2, <3>3 DEF Steps
      <3>5. CostBefore(g, more, f.key[2], f.choice, f.child - 1) = CostBefore(g, memory, f.key[2], f.choice, f.child - 1)
        BY <2>3, <3>1, <3>4, CostStays
      <3> QED BY <3>2, <3>5
    <2>5. f.best.choice # 0 => f.best.cost = FullCost(g, more, f.key[2], f.best.choice)
      <3> HAVE f.best.choice # 0
      <3>1. HasTerm(g, DOMAIN memory, f.key[2], f.best.choice)
        BY <2>1 DEF SearchFrames
      <3>2. FullCost(g, more, f.key[2], f.best.choice) = FullCost(g, memory, f.key[2], f.best.choice)
        BY <2>3, <3>1, FullCostStays
      <3> QED BY <3>2 DEF ExactFrames
    <2> QED BY <2>1, <2>2, <2>4, <2>5 DEF ExactFrames
  <1> QED BY <1>1, <1>2 DEF ExactMemo

\* What is asked for while aliases are of inputs is a leader or an input.
LEMMA CalleeIsPlain ==
  ASSUME ExtractInv, pc \in {"search", "collect"}, IsCalling
  PROVE  IsPlainKey(graph, Callee)
PROOF
  <1>0. graph \in ExtractGraphs
    BY DEF ExtractInv, ExtractTypeOK
  <1>1. CASE stack = <<>>
    <2>1. Wanted = RootKeys(graph) /\ At = root
      BY <1>1, SearchTop, CollectTop
    <2> QED BY <1>0, <2>1, RootFacts DEF IsCalling, Callee, IsPlainKey
  <1>2. CASE stack # <<>>
    <2>0. \E s \in EClass, i \in Nat : i \in DOMAIN graph.choices[s] /\ Wanted = KeysOf(graph, s, i)
      BY <1>0, <1>2, SearchTop, CollectTop, ChoiceFacts DEF UsableChoices
    <2>1. PICK s \in EClass, i \in Nat : i \in DOMAIN graph.choices[s] /\ Wanted = KeysOf(graph, s, i)
      BY <2>0
    <2>2. PICK j \in DOMAIN KeysOf(graph, s, i) : Callee = KeysOf(graph, s, i)[j]
      BY <2>1 DEF IsCalling, Callee
    <2>3. /\ DOMAIN KeysOf(graph, s, i) = DOMAIN ChildrenOf(graph, s, i)
          /\ graph.choices[s][i].alias => Callee = <<"raw", ChildrenOf(graph, s, i)[j]>>
          /\ ~graph.choices[s][i].alias => Callee = <<"leader", ChildrenOf(graph, s, i)[j]>>
      <3>1. DOMAIN KeysOf(graph, s, i) = DOMAIN ChildrenOf(graph, s, i)
        BY <1>0, <2>1, ChoiceFacts
      <3>2. j \in DOMAIN ChildrenOf(graph, s, i)
        BY <3>1
      <3> QED BY <1>0, <2>1, <2>2, <3>1, <3>2, ChoiceFacts
    <2>4. CASE graph.choices[s][i].alias
      <3>1. AliasesOfInputs(graph) => ChildrenOf(graph, s, i)[j] \in Input
        <4>1. ChildrenOf(graph, s, i)[j] \in Needs(graph.choices[s][i])
          BY <2>2, <2>3 DEF Needs, ChildrenOf
        <4>2. AliasesOfInputs(graph) => Needs(graph.choices[s][i]) \subseteq Input
          BY <2>1, <2>4 DEF AliasesOfInputs
        <4> QED BY <4>1, <4>2
      <3> QED BY <2>3, <3>1 DEF IsPlainKey
    <2>5. CASE ~graph.choices[s][i].alias
      BY <2>3, <2>5 DEF IsPlainKey
    <2> QED BY <2>4, <2>5
  <1> QED BY <1>1, <1>2

\* Distinct keys remain so when the frame on top changes or goes, or a new key comes.
LEMMA DistinctTop ==
  ASSUME NEW F, NEW s \in Seq(F), s # <<>>, AreDistinct(s), NEW f, f.key = s[Len(s)].key
  PROVE  AreDistinct([s EXCEPT ![Len(s)] = f])
PROOF
  <1>1. PICK l \in Nat \ {0} : l = Len(s) /\ DOMAIN s = 1..l
    OBVIOUS
  <1>2. PICK u : u = [s EXCEPT ![l] = f]
    OBVIOUS
  <1>3. DOMAIN u = 1..l /\ \A n \in 1..l : u[n].key = s[n].key
    BY <1>1, <1>2
  <1>4. AreDistinct(u)
    BY <1>1, <1>3 DEF AreDistinct
  <1> QED BY <1>1, <1>2, <1>4

\* The key of the frame that is popped is that of no other.
LEMMA DistinctPop ==
  ASSUME NEW F, NEW s \in Seq(F), s # <<>>, AreDistinct(s)
  PROVE  AreDistinct(Pop(s)) /\ \A n \in DOMAIN Pop(s) : Pop(s)[n].key # s[Len(s)].key
PROOF
  <1>1. PICK l \in Nat \ {0} : l = Len(s) /\ DOMAIN s = 1..l
    OBVIOUS
  <1>2. DOMAIN Pop(s) = 1..(l - 1) /\ \A n \in 1..(l - 1) : Pop(s)[n] = s[n]
    BY <1>1 DEF Pop
  <1>3. \A n \in 1..(l - 1) : n \in 1..l /\ n # l
    OBVIOUS
  <1>4. PICK u : u = Pop(s)
    OBVIOUS
  <1>5. AreDistinct(u)
    BY <1>1, <1>2, <1>3, <1>4 DEF AreDistinct
  <1>6. l \in 1..l
    OBVIOUS
  <1>7. \A n \in DOMAIN u : u[n].key # s[l].key
    BY <1>1, <1>2, <1>3, <1>4, <1>6 DEF AreDistinct
  <1> QED BY <1>1, <1>4, <1>5, <1>7

\* A frame with a new key is pushed.
LEMMA DistinctPush ==
  ASSUME NEW F, NEW s \in Seq(F), AreDistinct(s), NEW f, \A n \in DOMAIN s : s[n].key # f.key
  PROVE  AreDistinct(Append(s, f))
PROOF
  <1>1. s \in Seq(F \cup {f})
    BY WeakerFrames
  <1>2. PICK u : u = Append(s, f)
    OBVIOUS
  <1>3. PICK l \in Nat : l = Len(s) /\ DOMAIN s = 1..l
    OBVIOUS
  <1>4. u \in Seq(F \cup {f}) /\ Len(u) = l + 1 /\ u[l + 1] = f /\ \A n \in 1..l : u[n] = s[n]
    BY <1>1, <1>2, <1>3, PushFrame
  <1>5. DOMAIN u = 1..(l + 1)
    BY <1>4
  <1>6. \A n \in 1..(l + 1) : n \in 1..l \/ n = l + 1
    OBVIOUS
  <1>7. AreDistinct(u)
    BY <1>3, <1>4, <1>5, <1>6 DEF AreDistinct
  <1> QED BY <1>2, <1>7

\* The frame on top of the search, with its cost.
LEMMA ExactTop ==
  ASSUME ExtractInv, SearchCosts, pc = "search", stack # <<>>
  PROVE  /\ graph \in ExtractGraphs /\ MemoOK(graph, memo) /\ ExactMemo(graph, memo)
         /\ stack \in Seq(ExactFrames(graph, memo)) /\ AreDistinct(stack)
         /\ Top \in ExactFrames(graph, memo) /\ Top = stack[Len(stack)]
         /\ Top \in SearchFrames(graph, DOMAIN memo) /\ Top \in SearchFrame /\ Top.key[2] \in EClass
PROOF
  <1>1. stack \in Seq(ExactFrames(graph, memo)) /\ AreDistinct(stack) /\ ExactMemo(graph, memo)
    BY DEF SearchCosts
  <1>2. PICK f \in ExactFrames(graph, memo) : f = Top
    BY <1>1, PopFrame DEF Top
  <1>3. f \in SearchFrames(graph, DOMAIN memo)
    BY DEF ExactFrames
  <1>4. f \in SearchFrame
    BY <1>3 DEF SearchFrames
  <1> QED BY <1>1, <1>2, <1>3, <1>4, SearchTop DEF ExtractInv, ExtractTypeOK, Top

\* A step that changes the frame on top only.
LEMMA ExactTopChanges ==
  ASSUME ExtractInv, SearchCosts, pc = "search", UNCHANGED <<graph, pc, memo>>, stack # <<>>,
         NEW f \in SearchFrames(graph, DOMAIN memo), f.key = Top.key, stack' = WithTop(f),
         f.choice # 0 => /\ f.child <= Len(ChildrenOf(graph, f.key[2], f.choice)) + 1
                         /\ f.cost = CostBefore(graph, memo, f.key[2], f.choice, f.child - 1),
         f.best = Top.best \/ f.best.cost = FullCost(graph, memo, f.key[2], f.best.choice)
  PROVE  SearchCosts'
PROOF
  <1>1. Top \in ExactFrames(graph, memo) /\ Top = stack[Len(stack)]
        /\ stack \in Seq(ExactFrames(graph, memo)) /\ AreDistinct(stack) /\ ExactMemo(graph, memo)
    BY ExactTop
  <1>2. f \in ExactFrames(graph, memo)
    BY <1>1 DEF ExactFrames
  <1>3. stack' \in Seq(ExactFrames(graph, memo))
    BY <1>1, <1>2, TopFrame DEF WithTop
  <1>4. AreDistinct(stack')
    BY <1>1, DistinctTop DEF WithTop
  <1> QED BY <1>1, <1>3, <1>4 DEF SearchCosts

\* A key is searched that no frame is about and that is not remembered.
LEMMA SearchCostsSearch ==
  ASSUME ExtractInv, SearchCosts, Search PROVE SearchCosts'
PROOF
  <1>1. pc = "search" /\ IsCalling /\ Callee \notin DOMAIN memo \cup ActiveKeys /\ UNCHANGED <<graph, pc>>
    BY DEF Search
  <1>2. PICK k \in Key : k = Callee /\ IsPlainKey(graph, k) /\ k \notin DOMAIN memo
    BY <1>1, SearchTop, CalleeIsPlain
  <1>3. /\ stack \in Seq(ExactFrames(graph, memo)) /\ AreDistinct(stack) /\ ExactMemo(graph, memo)
        /\ graph \in ExtractGraphs /\ MemoOK(graph, memo)
    BY <1>1 DEF SearchCosts, ExtractInv, ExtractTypeOK
  <1>4. \A n \in DOMAIN stack : stack[n].key # k
    BY <1>1, <1>2 DEF ActiveKeys
  <1>5. CASE k[2] \in Input
    <2>1. memo' = Extend(memo, k, NoBest) /\ UNCHANGED stack
      BY <1>2, <1>5 DEF Search
    <2>2. DOMAIN memo' = DOMAIN memo \cup {k} /\ memo'[k] = NoBest /\ \A l \in DOMAIN memo : memo'[l] = memo[l]
      BY <1>2, <2>1 DEF Extend
    <2>3. NoBest.cost = 0 /\ k[2] \notin EClass
      BY <1>5 DEF NoBest, EClass
    <2>4. PICK more : more = memo'
      OBVIOUS
    <2>5. /\ ExactMemo(graph, more)
          /\ \A f \in ExactFrames(graph, memo) : f.key # k => f \in ExactFrames(graph, more)
      BY <1>2, <1>3, <2>2, <2>3, <2>4, ExactStays
    <2>6. stack \in Seq(ExactFrames(graph, more))
      <3>1. DOMAIN stack = 1..Len(stack) /\ Len(stack) \in Nat
        BY <1>3
      <3>2. \A n \in 1..Len(stack) : stack[n] \in ExactFrames(graph, more)
        BY <1>3, <1>4, <2>5, <3>1
      <3>3. stack \in [1..Len(stack) -> ExactFrames(graph, more)]
        BY <1>3, <3>1, <3>2
      <3> QED BY <3>1, <3>3, FunctionIsSeq
    <2> QED BY <1>1, <1>3, <2>1, <2>4, <2>5, <2>6 DEF SearchCosts
  <1>6. CASE k[2] \notin Input
    <2>1. PICK f : f = [key |-> k, left |-> DOMAIN graph.choices[k[2]], choice |-> 0, child |-> 1,
                        cost |-> 0, best |-> NoBest]
      OBVIOUS
    <2>2. stack' = Append(stack, f) /\ UNCHANGED memo
      BY <1>2, <1>6, <2>1 DEF Search
    <2>3. k \in {"leader", "raw"} \X EClass /\ k[2] \in EClass
      BY <1>6 DEF Key, EClass
    <2>4. DOMAIN graph.choices[k[2]] \subseteq Nat
      BY <1>3, <2>3, ChoiceFacts
    <2>5. f \in SearchFrame
      BY <2>1, <2>3, <2>4, MaxCostOK DEF SearchFrame, NoBest, Best, Steps
    <2>6. f \in SearchFrames(graph, DOMAIN memo)
      BY <2>1, <2>5 DEF SearchFrames, NoBest
    <2>7. f \in ExactFrames(graph, memo)
      BY <1>2, <2>1, <2>6 DEF ExactFrames, NoBest
    <2>8. stack' \in Seq(ExactFrames(graph, memo)) /\ AreDistinct(stack')
      BY <1>3, <1>4, <2>1, <2>2, <2>7, PushFrame, DistinctPush
    <2> QED BY <1>1, <1>3, <2>2, <2>8 DEF SearchCosts
  <1> QED BY <1>5, <1>6

\* A dropped choice leaves the costs.
LEMMA SearchCostsCutCycle ==
  ASSUME ExtractInv, SearchCosts, CutCycle PROVE SearchCosts'
PROOF
  <1>1. pc = "search" /\ Callee \in ActiveKeys /\ stack' = WithTop(Abandon(Top)) /\ UNCHANGED <<graph, pc, memo>>
    BY DEF CutCycle
  <1>2. stack # <<>>
    BY <1>1 DEF ActiveKeys
  <1>3. Abandon(Top) \in SearchFrames(graph, DOMAIN memo)
    BY <1>1, <1>2, ExactTop, AbandonFrame
  <1>4. Abandon(Top).key = Top.key /\ Abandon(Top).choice = 0 /\ Abandon(Top).best = Top.best
    BY <1>1, <1>2, ExactTop DEF Abandon, SearchFrame
  <1> QED BY <1>1, <1>2, <1>3, <1>4, ExactTopChanges

\* A choice starts with its own cost.
LEMMA SearchCostsTryChoice ==
  ASSUME ExtractInv, ExtractInv', SearchCosts, TryChoice PROVE SearchCosts'
PROOF
  <1>1. pc = "search" /\ stack # <<>> /\ UNCHANGED <<graph, pc, memo>>
    BY DEF TryChoice
  <1>2. PICK f \in SearchFrames(graph, DOMAIN memo) : f = Top /\ f \in SearchFrame /\ f.key[2] \in EClass
    BY <1>1, ExactTop
  <1>3. PICK i \in f.left : stack' = WithTop(IF IsUsable(graph.choices[f.key[2]][i])
                               THEN [f EXCEPT !.left = @ \ {i}, !.choice = i, !.child = FirstChild,
                                              !.cost = graph.choices[f.key[2]][i].cost]
                               ELSE [f EXCEPT !.left = @ \ {i}])
    BY <1>2 DEF TryChoice
  <1>4. PICK h : h = IF IsUsable(graph.choices[f.key[2]][i])
                     THEN [f EXCEPT !.left = @ \ {i}, !.choice = i, !.child = FirstChild,
                                    !.cost = graph.choices[f.key[2]][i].cost]
                     ELSE [f EXCEPT !.left = @ \ {i}]
    OBVIOUS
  <1>5. stack' = WithTop(h)
    BY <1>3, <1>4
  <1>6. h \in SearchFrames(graph, DOMAIN memo)
    <2>1. stack \in Seq(SearchFrames(graph, DOMAIN memo)) /\ stack' \in Seq(SearchFrames(graph, DOMAIN memo))
      BY <1>1 DEF ExtractInv, SearchInv
    <2>2. PICK l \in Nat \ {0} : l = Len(stack) /\ DOMAIN stack = 1..l
      BY <1>1, <2>1
    <2>3. DOMAIN stack' = 1..l /\ stack'[l] = h
      BY <1>5, <2>2 DEF WithTop
    <2> QED BY <2>1, <2>2, <2>3
  <1>7. h.key = f.key /\ h.best = f.best
    BY <1>2, <1>4 DEF SearchFrame
  <1>8. h.choice # 0 => /\ h.child <= Len(ChildrenOf(graph, h.key[2], h.choice)) + 1
                        /\ h.cost = CostBefore(graph, memo, h.key[2], h.choice, h.child - 1)
    <2> SUFFICES ASSUME h.choice # 0
                 PROVE  /\ h.child <= Len(ChildrenOf(graph, h.key[2], h.choice)) + 1
                        /\ h.cost = CostBefore(graph, memo, h.key[2], h.choice, h.child - 1)
      OBVIOUS
    <2>1. Top.choice = 0
      BY DEF TryChoice
    <2>2. h.choice = i /\ h.child = 1 /\ h.cost = graph.choices[f.key[2]][i].cost
      BY <1>2, <1>4, <2>1 DEF SearchFrame, FirstChild
    <2>3. ChildrenOf(graph, f.key[2], i) \in Seq(Symbol)
      <3>1. i \in DOMAIN graph.choices[f.key[2]]
        BY <1>2 DEF SearchFrames
      <3> QED BY <1>1, <1>2, <3>1, ExactTop, ChoiceFacts
    <2>4. CostBefore(graph, memo, f.key[2], i, 0) = graph.choices[f.key[2]][i].cost
      BY SumStart DEF CostBefore
    <2> QED BY <1>7, <2>2, <2>3, <2>4
  <1> QED BY <1>1, <1>2, <1>5, <1>6, <1>7, <1>8, ExactTopChanges

\* The cost of an operand is added to the sum.
LEMMA SearchCostsAddChild ==
  ASSUME ExtractInv, ExtractInv', SearchCosts, AddChild PROVE SearchCosts'
PROOF
  <1>1. pc = "search" /\ stack # <<>> /\ UNCHANGED <<graph, pc, memo>> /\ IsCalling /\ Callee \in DOMAIN memo
    BY DEF AddChild
  <1>2. PICK f \in SearchFrames(graph, DOMAIN memo) :
          f = Top /\ f \in SearchFrame /\ f.key[2] \in EClass /\ f \in ExactFrames(graph, memo)
    BY <1>1, ExactTop
  <1>3. /\ f.choice # 0 /\ f.choice \in UsableChoices(graph, f.key[2])
        /\ Callee = KeysOf(graph, f.key[2], f.choice)[f.child] /\ f.child \in DOMAIN KeysOf(graph, f.key[2], f.choice)
    BY <1>1, <1>2, SearchTop DEF Callee, IsCalling
  <1>4. PICK cost : cost = memo[Callee].cost
    OBVIOUS
  <1>5. CASE Fits(f.cost, cost)
    <2>1. PICK h : h = [f EXCEPT !.child = @ + 1, !.cost = @ + cost]
      OBVIOUS
    <2>2. stack' = WithTop(h)
      BY <1>2, <1>4, <1>5, <2>1 DEF AddChild
    <2>3. h \in SearchFrames(graph, DOMAIN memo)
      <3>1. stack \in Seq(SearchFrames(graph, DOMAIN memo)) /\ stack' \in Seq(SearchFrames(graph, DOMAIN memo))
        BY <1>1 DEF ExtractInv, SearchInv
      <3>2. PICK l \in Nat \ {0} : l = Len(stack) /\ DOMAIN stack = 1..l
        BY <1>1, <3>1
      <3>3. DOMAIN stack' = 1..l /\ stack'[l] = h
        BY <2>2, <3>2 DEF WithTop
      <3> QED BY <3>1, <3>2, <3>3
    <2>4. h.key = f.key /\ h.best = f.best /\ h.choice = f.choice /\ h.child = f.child + 1 /\ h.cost = f.cost + cost
      BY <1>2, <2>1 DEF SearchFrame
    <2>5. PICK l \in Nat : l = Len(ChildrenOf(graph, f.key[2], f.choice))
                           /\ DOMAIN KeysOf(graph, f.key[2], f.choice) = 1..l
      <3>1. f.choice \in DOMAIN graph.choices[f.key[2]]
        BY <1>3 DEF UsableChoices
      <3>2. ChildrenOf(graph, f.key[2], f.choice) \in Seq(Symbol)
            /\ DOMAIN KeysOf(graph, f.key[2], f.choice) = DOMAIN ChildrenOf(graph, f.key[2], f.choice)
        BY <1>1, <1>2, <3>1, ExactTop, ChoiceFacts
      <3> QED BY <3>2
    <2>6. PICK n \in Nat : f.child = n + 1 /\ n + 1 <= l
      <3>1. f.child \in 1..l
        BY <1>3, <2>5
      <3>2. f.child - 1 \in Nat /\ f.child = (f.child - 1) + 1
        BY <3>1
      <3> QED BY <3>1, <3>2
    <2>7. f.cost = CostBefore(graph, memo, f.key[2], f.choice, n)
      BY <1>2, <1>3, <2>6 DEF ExactFrames
    <2>8. KeyCosts(graph, memo, f.key[2], f.choice)[n + 1] = cost
      BY <1>3, <1>4, <2>6 DEF KeyCosts
    <2>9. CostBefore(graph, memo, f.key[2], f.choice, n + 1) = f.cost + cost
      BY <2>7, <2>8, SumNext DEF CostBefore
    <2>10. h.child <= l + 1 /\ h.cost = CostBefore(graph, memo, f.key[2], f.choice, h.child - 1)
      BY <2>4, <2>6, <2>9
    <2> QED BY <1>1, <1>2, <2>2, <2>3, <2>4, <2>5, <2>10, ExactTopChanges
  <1>6. CASE ~Fits(f.cost, cost)
    <2>1. stack' = WithTop(Abandon(f))
      BY <1>2, <1>4, <1>6 DEF AddChild
    <2>2. Abandon(f).key = f.key /\ Abandon(f).choice = 0 /\ Abandon(f).best = f.best
      BY <1>2 DEF Abandon, SearchFrame
    <2> QED BY <1>1, <1>2, <2>1, <2>2, AbandonFrame, ExactTopChanges
  <1> QED BY <1>5, <1>6

\* The sum over all operands is the cost of the choice.
LEMMA SearchCostsKeepBest ==
  ASSUME ExtractInv, ExtractInv', SearchCosts, KeepBest PROVE SearchCosts'
PROOF
  <1>1. pc = "search" /\ stack # <<>> /\ UNCHANGED <<graph, pc, memo>> /\ ~IsCalling /\ Top.choice # 0
    BY DEF KeepBest
  <1>2. PICK f \in SearchFrames(graph, DOMAIN memo) :
          f = Top /\ f \in SearchFrame /\ f.key[2] \in EClass /\ f \in ExactFrames(graph, memo)
    BY <1>1, ExactTop
  <1>3. f.choice \in UsableChoices(graph, f.key[2]) /\ f.child \notin DOMAIN KeysOf(graph, f.key[2], f.choice)
    BY <1>1, <1>2, SearchTop DEF IsCalling
  <1>4. PICK l \in Nat : l = Len(ChildrenOf(graph, f.key[2], f.choice))
                         /\ DOMAIN KeysOf(graph, f.key[2], f.choice) = 1..l
    <2>1. f.choice \in DOMAIN graph.choices[f.key[2]]
      BY <1>3 DEF UsableChoices
    <2>2. ChildrenOf(graph, f.key[2], f.choice) \in Seq(Symbol)
          /\ DOMAIN KeysOf(graph, f.key[2], f.choice) = DOMAIN ChildrenOf(graph, f.key[2], f.choice)
      BY <1>1, <1>2, <2>1, ExactTop, ChoiceFacts
    <2> QED BY <2>2
  <1>5. f.child - 1 = l
    <2>1. f.child \in Steps /\ f.child <= l + 1
      BY <1>1, <1>2, <1>4 DEF ExactFrames, SearchFrame
    <2> QED BY <1>3, <1>4, <2>1 DEF Steps
  <1>6. f.cost = FullCost(graph, memo, f.key[2], f.choice)
    BY <1>1, <1>2, <1>4, <1>5 DEF ExactFrames, FullCost
  <1>7. PICK best : best = IF IsBetter(f.cost, f.best) THEN [choice |-> f.choice, cost |-> f.cost] ELSE f.best
    OBVIOUS
  <1>8. best = f.best \/ best.cost = FullCost(graph, memo, f.key[2], best.choice)
    BY <1>6, <1>7
  <1>9. PICK h : h = [f EXCEPT !.choice = 0, !.best = best]
    OBVIOUS
  <1>10. stack' = WithTop(h)
    BY <1>2, <1>7, <1>9 DEF KeepBest
  <1>11. h \in SearchFrames(graph, DOMAIN memo)
    <2>1. stack \in Seq(SearchFrames(graph, DOMAIN memo)) /\ stack' \in Seq(SearchFrames(graph, DOMAIN memo))
      BY <1>1 DEF ExtractInv, SearchInv
    <2>2. PICK m \in Nat \ {0} : m = Len(stack) /\ DOMAIN stack = 1..m
      BY <1>1, <2>1
    <2>3. DOMAIN stack' = 1..m /\ stack'[m] = h
      BY <1>10, <2>2 DEF WithTop
    <2> QED BY <2>1, <2>2, <2>3
  <1>12. h.key = f.key /\ h.choice = 0 /\ h.best = best
    BY <1>2, <1>9 DEF SearchFrame
  <1> QED BY <1>1, <1>2, <1>8, <1>10, <1>11, <1>12, ExactTopChanges

\* The cost of the best choice is remembered for its key.
LEMMA SearchCostsMemoize ==
  ASSUME ExtractInv, SearchCosts, Memoize PROVE SearchCosts'
PROOF
  <1>1. /\ pc = "search" /\ stack # <<>> /\ UNCHANGED <<graph, pc>>
        /\ Top.best.choice # 0 /\ memo' = Extend(memo, Top.key, Top.best) /\ stack' = Pop(stack)
    BY DEF Memoize
  <1>2. PICK f \in ExactFrames(graph, memo) :
          f = Top /\ f = stack[Len(stack)] /\ f \in SearchFrame /\ f.key[2] \in EClass
          /\ f \in SearchFrames(graph, DOMAIN memo)
    BY <1>1, ExactTop
  <1>3. /\ stack \in Seq(ExactFrames(graph, memo)) /\ AreDistinct(stack) /\ ExactMemo(graph, memo)
        /\ graph \in ExtractGraphs /\ MemoOK(graph, memo)
    BY <1>1, ExactTop
  <1>4. PICK k \in Key : k = f.key /\ k[2] \in EClass /\ k \notin DOMAIN memo /\ IsPlainKey(graph, k)
    BY <1>2 DEF ExactFrames, SearchFrame, Key, EClass
  <1>5. PICK more : more = memo'
    OBVIOUS
  <1>6. DOMAIN more = DOMAIN memo \cup {k} /\ more[k] = f.best /\ \A l \in DOMAIN memo : more[l] = memo[l]
    BY <1>1, <1>2, <1>4, <1>5 DEF Extend
  <1>7. HasTerm(graph, DOMAIN memo, k[2], more[k].choice) /\ more[k].cost = FullCost(graph, memo, k[2], more[k].choice)
    BY <1>1, <1>2, <1>4, <1>6 DEF ExactFrames, SearchFrames
  <1>8. k[2] \notin Input
    BY <1>4 DEF EClass
  <1>9. /\ ExactMemo(graph, more)
        /\ \A e \in ExactFrames(graph, memo) : e.key # k => e \in ExactFrames(graph, more)
    BY <1>3, <1>4, <1>6, <1>7, <1>8, ExactStays
  <1>10. PICK rest : rest = Pop(stack)
    OBVIOUS
  <1>11. rest \in Seq(ExactFrames(graph, memo)) /\ AreDistinct(rest) /\ \A n \in DOMAIN rest : rest[n].key # k
    BY <1>1, <1>2, <1>3, <1>4, <1>10, PopFrame, DistinctPop
  <1>12. rest \in Seq(ExactFrames(graph, more))
    <2>1. DOMAIN rest = 1..Len(rest) /\ Len(rest) \in Nat
      BY <1>11
    <2>2. \A n \in 1..Len(rest) : rest[n] \in ExactFrames(graph, more)
      BY <1>9, <1>11, <2>1
    <2>3. rest \in [1..Len(rest) -> ExactFrames(graph, more)]
      BY <1>11, <2>1, <2>2
    <2> QED BY <2>1, <2>3, FunctionIsSeq
  <1> QED BY <1>1, <1>5, <1>9, <1>10, <1>11, <1>12 DEF SearchCosts

\* A search without a result leaves the costs.
LEMMA SearchCostsGiveUp ==
  ASSUME ExtractInv, SearchCosts, GiveUp PROVE SearchCosts'
PROOF
  <1>1. pc = "search" /\ stack # <<>> /\ UNCHANGED <<graph, memo>>
    BY DEF GiveUp
  <1>2. /\ stack \in Seq(ExactFrames(graph, memo)) /\ AreDistinct(stack) /\ ExactMemo(graph, memo)
    BY <1>1, ExactTop
  <1>3. CASE Len(stack) = 1
    <2>1. pc' = "idle"
      BY <1>3 DEF GiveUp, Fail
    <2> QED BY <1>1, <1>2, <2>1 DEF SearchCosts
  <1>4. CASE Len(stack) # 1
    <2>1. PICK rest : rest = Pop(stack)
      OBVIOUS
    <2>2. rest \in Seq(ExactFrames(graph, memo)) /\ Len(rest) = Len(stack) - 1 /\ rest # <<>> /\ AreDistinct(rest)
      BY <1>1, <1>2, <1>4, <2>1, PopFrame, PopLast, DistinctPop
    <2>3. stack' = [rest EXCEPT ![Len(rest)] = Abandon(@)] /\ UNCHANGED pc
      BY <1>4, <2>1, <2>2 DEF GiveUp
    <2>4. PICK f \in ExactFrames(graph, memo) : f = rest[Len(rest)]
      BY <2>2, PopFrame
    <2>5. f \in SearchFrames(graph, DOMAIN memo) /\ f \in SearchFrame
      BY DEF ExactFrames, SearchFrames
    <2>6. Abandon(f) \in SearchFrames(graph, DOMAIN memo) /\ Abandon(f).key = f.key /\ Abandon(f).choice = 0
          /\ Abandon(f).best = f.best
      BY <2>5, AbandonFrame DEF Abandon, SearchFrame
    <2>7. Abandon(f) \in ExactFrames(graph, memo)
      BY <2>6 DEF ExactFrames
    <2>8. stack' \in Seq(ExactFrames(graph, memo)) /\ AreDistinct(stack')
      BY <2>2, <2>3, <2>4, <2>6, <2>7, TopFrame, DistinctTop
    <2> QED BY <1>1, <1>2, <2>3, <2>8 DEF SearchCosts
  <1> QED BY <1>3, <1>4

\* The other steps leave what is remembered alone.
LEMMA SearchCostsOther ==
  ASSUME SearchCosts, UNCHANGED <<graph, memo>>, pc' # "search" \/ UNCHANGED <<pc, stack>>
  PROVE  SearchCosts'
  BY DEF SearchCosts

\* Every step of greedy extraction keeps its costs exact.
LEMMA SearchCostsGreedy ==
  ASSUME ExtractInv, ExtractInv', SearchCosts, GreedyNext PROVE SearchCosts'
PROOF
  <1>1. CASE NextRoot \/ EndSearch \/ SkipCollected \/ CollectSelected \/ EmitSelected \/ EndCollect
    <2>1. UNCHANGED <<graph, memo>> /\ (pc' # "search" \/ UNCHANGED <<pc, stack>>)
      BY <1>1 DEF NextRoot, EndSearch, SkipCollected, CollectSelected, EmitSelected, EndCollect, Fail
    <2> QED BY <2>1, SearchCostsOther
  <1> QED BY <1>1, SearchCostsSearch, SearchCostsCutCycle, SearchCostsTryChoice, SearchCostsAddChild,
             SearchCostsKeepBest, SearchCostsMemoize, SearchCostsGiveUp DEF GreedyNext

\* What LP steps and a call's start do to what is remembered.
LEMMA LpLeavesSearch ==
  ASSUME LpNext PROVE pc' # "search" /\ UNCHANGED graph
PROOF
  <1>1. CASE PopulateNode \/ PopulatedNode
    BY <1>1 DEF PopulateNode, PopulatedNode, callVars
  <1>2. CASE Solve \/ SolveFails
    BY <1>2 DEF Solve, SolveFails, Fail
  <1>3. CASE AssembleInput \/ Assemble \/ AddCost
    BY <1>3 DEF AssembleInput, Assemble, AddCost, Fail, callVars
  <1>4. CASE Assembled \/ AssembledRoot \/ EndAssemble
    BY <1>4 DEF Assembled, AssembledRoot, EndAssemble
  <1> QED BY <1>1, <1>2, <1>3, <1>4 DEF LpNext

\* What greedy extraction remembers is exact.
LEMMA SearchCostsInvariant == ExtractSpec => []SearchCosts
PROOF
  <1>1. ExtractInit => SearchCosts
    BY DEF ExtractInit, SearchCosts, ExactMemo
  <1>2. ExtractInv /\ ExtractInv' /\ SearchCosts /\ [ExtractNext]_extractVars => SearchCosts'
    <2> SUFFICES ASSUME ExtractInv, ExtractInv', SearchCosts, [ExtractNext]_extractVars PROVE SearchCosts'
      OBVIOUS
    <2>1. CASE \E m \in Backends : RunExtract(m)
      <3>1. memo' = <<>> /\ stack' = <<>>
        BY <2>1 DEF RunExtract
      <3>2. ExactMemo(graph, <<>>)' /\ AreDistinct(<<>>)
        BY DEF ExactMemo, AreDistinct
      <3>3. <<>> \in Seq(ExactFrames(graph, memo)')
        OBVIOUS
      <3> QED BY <3>1, <3>2, <3>3 DEF SearchCosts, ExactMemo
    <2>2. CASE GreedyStep
      BY <2>2, SearchCostsGreedy DEF GreedyStep
    <2>3. CASE LpStep
      BY <2>3, LpLeavesSearch, SearchCostsOther DEF LpStep
    <2>4. CASE UNCHANGED extractVars
      BY <2>4, SearchCostsOther DEF extractVars, callVars
    <2> QED BY <2>1, <2>2, <2>3, <2>4 DEF ExtractNext
  <1> QED BY <1>1, <1>2, ExtractInvariant, PTL DEF ExtractSpec

-----------------------------------------------------------------------------
(***************************************************************************)
(* With aliases of inputs only, collectSelected meets an e-class as its    *)
(* leader, emits it once, and emits what is remembered of it.              *)
(***************************************************************************)
Emitted(result) == {e[1] : e \in Entries(result)}

AreInPlace(g, result) ==
  /\ \A e \in RangeOf(result.ops) : ~g.choices[e[1]][e[2]].alias
  /\ \A e \in RangeOf(result.aliases) : g.choices[e[1]][e[2]].alias

RemembersEntries(g, memory, result) ==
  /\ IsSelectionMap(result)
  /\ AreInPlace(g, result)
  /\ \A e \in Entries(result) :
       <<"leader", e[1]>> \in DOMAIN memory /\ e[2] = memory[<<"leader", e[1]>>].choice

CollectOnce ==
  /\ pc = "collect" /\ AliasesOfInputs(graph) =>
       /\ RemembersEntries(graph, memo, info)
       /\ \A n \in DOMAIN stack : stack[n].key[1] = "leader" /\ stack[n].key[2] \notin Emitted(info)
       /\ AreDistinct(stack)
  /\ HasSelected("greedy") =>
       /\ AliasesOfInputs(graph) => RemembersEntries(graph, memo, info)
       /\ \A i \in DOMAIN graph.roots : /\ RootKeys(graph)[i] \in DOMAIN memo
                                        /\ info.rootCosts[i] = memo[RootKeys(graph)[i]].cost

\* The frames after a push.
LEMMA PushedFrames ==
  ASSUME NEW F, NEW s \in Seq(F), NEW f
  PROVE  \A n \in DOMAIN Append(s, f) : Append(s, f)[n] = f \/ \E m \in DOMAIN s : Append(s, f)[n] = s[m]
PROOF
  <1>1. s \in Seq(F \cup {f})
    BY WeakerFrames
  <1>2. PICK u : u = Append(s, f)
    OBVIOUS
  <1>3. PICK l \in Nat : l = Len(s) /\ DOMAIN s = 1..l
    OBVIOUS
  <1>4. u \in Seq(F \cup {f}) /\ Len(u) = l + 1 /\ u[l + 1] = f /\ \A n \in 1..l : u[n] = s[n]
    BY <1>1, <1>2, <1>3, PushFrame
  <1>5. DOMAIN u = 1..(l + 1)
    BY <1>4
  <1>6. \A n \in 1..(l + 1) : n \in 1..l \/ n = l + 1
    OBVIOUS
  <1> QED BY <1>2, <1>3, <1>4, <1>5, <1>6

HaveOwnSymbols(q) == \A m, n \in DOMAIN q : q[m][1] = q[n][1] => m = n
HasNoEntry(q, s) == \A n \in DOMAIN q : q[n][1] # s
IsOneMore(q, e, u) ==
  /\ \A n \in DOMAIN u : u[n] = e \/ \E m \in DOMAIN q : u[n] = q[m]
  /\ RangeOf(u) = RangeOf(q) \cup {e}

\* Symbols remain different when a new one is appended.
LEMMA NewSymbol ==
  ASSUME NEW q \in Seq(EClass \X Nat), NEW e \in EClass \X Nat, HasNoEntry(q, e[1]), HaveOwnSymbols(q),
         NEW u, u = Append(q, e)
  PROVE  HaveOwnSymbols(u) /\ IsOneMore(q, e, u)
PROOF
  <1>1. PICK l \in Nat : l = Len(q) /\ DOMAIN q = 1..l
    OBVIOUS
  <1>3. DOMAIN u = 1..(l + 1) /\ u[l + 1] = e /\ \A n \in 1..l : u[n] = q[n]
    <2>1. u \in Seq(EClass \X Nat) /\ Len(u) = l + 1 /\ u[l + 1] = e /\ \A n \in 1..l : u[n] = q[n]
      BY <1>1, PushFrame
    <2> QED BY <2>1
  <1>4. \A n \in 1..(l + 1) : n \in 1..l \/ n = l + 1
    OBVIOUS
  <1>5. HaveOwnSymbols(u)
    BY <1>1, <1>3, <1>4 DEF HaveOwnSymbols, HasNoEntry
  <1>6. \A n \in DOMAIN u : u[n] = e \/ \E m \in DOMAIN q : u[n] = q[m]
    BY <1>1, <1>3, <1>4
  <1>7. RangeOf(u) = RangeOf(q) \cup {e}
    BY AppendElements
  <1> QED BY <1>5, <1>6, <1>7 DEF IsOneMore

\* A new entry for a new symbol leaves a selection map.
LEMMA EmitOnce ==
  ASSUME info \in Result, IsSelectionMap(info), AreInPlace(graph, info),
         NEW s \in EClass, NEW i \in Nat, s \notin Emitted(info), Emit(s, i), UNCHANGED graph
  PROVE  IsSelectionMap(info') /\ Entries(info') = Entries(info) \cup {<<s, i>>} /\ AreInPlace(graph, info')
PROOF
  <1>1. PICK e \in EClass \X Nat : e = <<s, i>> /\ e[1] = s /\ e[2] = i
    <2>1. <<s, i>> \in EClass \X Nat /\ <<s, i>>[1] = s /\ <<s, i>>[2] = i
      OBVIOUS
    <2> QED BY <2>1, Zenon
  <1>2. info.ops \in Seq(EClass \X Nat) /\ info.aliases \in Seq(EClass \X Nat)
    BY DEF Result
  <1>3. /\ \A n \in DOMAIN info.ops : info.ops[n][1] # e[1]
        /\ \A n \in DOMAIN info.aliases : info.aliases[n][1] # e[1]
    BY <1>1 DEF Emitted, Entries
  <1>4. /\ \A m, n \in DOMAIN info.ops : info.ops[m][1] = info.ops[n][1] => m = n
        /\ \A m, n \in DOMAIN info.aliases : info.aliases[m][1] = info.aliases[n][1] => m = n
        /\ \A m \in DOMAIN info.ops, n \in DOMAIN info.aliases : info.ops[m][1] # info.aliases[n][1]
    BY DEF IsSelectionMap
  <1>5. CASE graph.choices[s][i].alias
    <2>1. PICK u : u = Append(info.aliases, e)
      OBVIOUS
    <2>2. info' = [info EXCEPT !.aliases = u]
      BY <1>1, <1>5, <2>1 DEF Emit
    <2>3. info'.ops = info.ops /\ info'.aliases = u
      BY <2>2 DEF Result
    <2>4. PICK q : q = info.aliases /\ u = Append(q, e)
      BY <2>1
    <2>9. q \in Seq(EClass \X Nat) /\ HasNoEntry(q, e[1]) /\ HaveOwnSymbols(q)
      BY <1>2, <1>3, <1>4, <2>4 DEF HasNoEntry, HaveOwnSymbols
    <2>12. HaveOwnSymbols(u) /\ IsOneMore(q, e, u)
      BY <2>4, <2>9, NewSymbol
    <2>10. /\ \A m, n \in DOMAIN u : u[m][1] = u[n][1] => m = n
           /\ \A n \in DOMAIN u : u[n] = e \/ \E m \in DOMAIN q : u[n] = q[m]
           /\ RangeOf(u) = RangeOf(q) \cup {e}
      BY <2>12 DEF HaveOwnSymbols, IsOneMore
    <2>5. Entries(info') = Entries(info) \cup {e}
      BY <2>3, <2>4, <2>10, EntriesAre
    <2>6. \A m \in DOMAIN info.ops, n \in DOMAIN u : info.ops[m][1] # u[n][1]
      BY <1>3, <1>4, <2>4, <2>10
    <2>7. IsSelectionMap(info')
      BY <1>4, <2>3, <2>4, <2>6, <2>10 DEF IsSelectionMap
    <2>11. \A x \in RangeOf(u) : x \in RangeOf(info.aliases) \/ x = e
      BY <2>4, <2>10
    <2>8. AreInPlace(graph, info')
      BY <1>1, <1>5, <2>3, <2>11 DEF AreInPlace
    <2> QED BY <1>1, <2>5, <2>7, <2>8
  <1>6. CASE ~graph.choices[s][i].alias
    <2>1. PICK u : u = Append(info.ops, e)
      OBVIOUS
    <2>2. info' = [info EXCEPT !.ops = u]
      BY <1>1, <1>6, <2>1 DEF Emit
    <2>3. info'.ops = u /\ info'.aliases = info.aliases
      BY <2>2 DEF Result
    <2>4. PICK q : q = info.ops /\ u = Append(q, e)
      BY <2>1
    <2>9. q \in Seq(EClass \X Nat) /\ HasNoEntry(q, e[1]) /\ HaveOwnSymbols(q)
      BY <1>2, <1>3, <1>4, <2>4 DEF HasNoEntry, HaveOwnSymbols
    <2>12. HaveOwnSymbols(u) /\ IsOneMore(q, e, u)
      BY <2>4, <2>9, NewSymbol
    <2>10. /\ \A m, n \in DOMAIN u : u[m][1] = u[n][1] => m = n
           /\ \A n \in DOMAIN u : u[n] = e \/ \E m \in DOMAIN q : u[n] = q[m]
           /\ RangeOf(u) = RangeOf(q) \cup {e}
      BY <2>12 DEF HaveOwnSymbols, IsOneMore
    <2>5. Entries(info') = Entries(info) \cup {e}
      BY <2>3, <2>4, <2>10, EntriesAre
    <2>6. \A m \in DOMAIN u, n \in DOMAIN info.aliases : u[m][1] # info.aliases[n][1]
      BY <1>3, <1>4, <2>4, <2>10
    <2>7. IsSelectionMap(info')
      BY <1>4, <2>3, <2>4, <2>6, <2>10 DEF IsSelectionMap
    <2>11. \A x \in RangeOf(u) : x \in RangeOf(info.ops) \/ x = e
      BY <2>4, <2>10
    <2>8. AreInPlace(graph, info')
      BY <1>1, <1>6, <2>3, <2>11 DEF AreInPlace
    <2> QED BY <1>1, <2>5, <2>7, <2>8
  <1> QED BY <1>5, <1>6

\* What the returned record has in common with what was collected.
LEMMA ReturnsOnce ==
  ASSUME NEW g, EntriesOK(g, info), IsSelectionMap(info), NEW costs \in Seq(0..MaxCost),
         info' = [info EXCEPT !.ok = TRUE, !.rootCosts = costs]
  PROVE  IsSelectionMap(info') /\ \A h : AreInPlace(h, info) => AreInPlace(h, info')
PROOF
  <1>1. info'.ops = info.ops /\ info'.aliases = info.aliases
    BY ReturnFacts
  <1> QED BY <1>1 DEF IsSelectionMap, AreInPlace

\* Nothing is emitted when collectSelected starts.
LEMMA CollectOnceEndSearch ==
  ASSUME ExtractInv, CollectOnce, EndSearch PROVE CollectOnce'
PROOF
  <1>1. pc = "search" /\ stack = <<>> /\ pc' = "collect" /\ UNCHANGED <<graph, mode, stack, info, memo>>
    BY DEF EndSearch
  <1>2. info = NoInfo
    BY <1>1 DEF ExtractInv, SearchInv
  <1>3. IsSelectionMap(NoInfo) /\ Entries(NoInfo) = {} /\ AreInPlace(graph, NoInfo)
    BY DEF NoInfo, IsSelectionMap, Entries, AreInPlace, RangeOf
  <1>4. RemembersEntries(graph, memo, info)
    BY <1>2, <1>3 DEF RemembersEntries
  <1>5. AreDistinct(<<>>)
    BY DEF AreDistinct
  <1> QED BY <1>1, <1>4, <1>5 DEF CollectOnce, HasSelected

\* Resume keeps the keys of the frames.
LEMMA ResumeKeys ==
  ASSUME NEW F, F \subseteq CollectFrame, NEW rest \in Seq(F), Resume(rest)
  PROVE  DOMAIN stack' = DOMAIN rest /\ \A n \in DOMAIN rest : stack'[n].key = rest[n].key
PROOF
  <1>1. CASE rest = <<>>
    BY <1>1 DEF Resume
  <1>2. CASE rest # <<>>
    <2>1. PICK l \in Nat \ {0} : l = Len(rest) /\ DOMAIN rest = 1..l
      BY <1>2
    <2>2. stack' = [rest EXCEPT ![l].child = @ + 1]
      BY <1>2, <2>1 DEF Resume
    <2>3. \A n \in 1..l : rest[n] \in CollectFrame
      BY <2>1
    <2>4. PICK f : f = [rest[l] EXCEPT !.child = @ + 1]
      OBVIOUS
    <2>5. f.key = rest[l].key
      BY <2>3, <2>4 DEF CollectFrame
    <2>6. stack' = [rest EXCEPT ![l] = f]
      BY <2>2, <2>4
    <2> QED BY <2>1, <2>5, <2>6
  <1> QED BY <1>1, <1>2

\* An operand that was emitted changes nothing.
LEMMA CollectOnceSkip ==
  ASSUME ExtractInv, CollectOnce, SkipCollected PROVE CollectOnce'
PROOF
  <1>1. pc = "collect" /\ Resume(stack) /\ UNCHANGED <<graph, mode, pc, info, memo>>
    BY DEF SkipCollected
  <1>2. stack \in Seq(CollectFrames(graph, memo, Terms(info))) /\ CollectFrames(graph, memo, Terms(info)) \subseteq CollectFrame
    BY <1>1, CollectTop DEF CollectFrames
  <1>3. DOMAIN stack' = DOMAIN stack /\ \A n \in DOMAIN stack : stack'[n].key = stack[n].key
    BY <1>1, <1>2, ResumeKeys
  <1> QED BY <1>1, <1>3 DEF CollectOnce, HasSelected, AreDistinct

\* An operand that is collected was not emitted.
LEMMA CollectOnceSelect ==
  ASSUME ExtractInv, SearchCosts, CollectOnce, CollectSelected PROVE CollectOnce'
PROOF
  <1>1. pc = "collect" /\ IsCalling /\ ~IsCollected(Callee) /\ UNCHANGED <<graph, mode, root, memo>>
    BY DEF CollectSelected
  <1>2. CASE Callee[2] \in CollectingSymbols
    <2>1. pc' = "idle" /\ ~info'.ok
      BY <1>2 DEF CollectSelected, Fail, NoInfo
    <2> QED BY <2>1 DEF CollectOnce, HasSelected
  <1>3. CASE Callee[2] \notin CollectingSymbols
    <2>1. PICK k \in Key : k = Callee /\ k \in DOMAIN memo /\ IsPlainKey(graph, k)
      BY <1>1, CollectTop, CalleeIsPlain
    <2>2. k[2] \notin Input
      BY <1>1, <2>1 DEF IsCollected
    <2>3. PICK f : f = [key |-> k, choice |-> memo[k].choice, child |-> FirstChild]
      OBVIOUS
    <2>4. stack' = Append(stack, f) /\ UNCHANGED <<pc, info>> /\ f.key = k
      BY <1>3, <2>1, <2>3 DEF CollectSelected
    <2>5. PICK s : s = stack
      OBVIOUS
    <2>6. PICK F : s \in Seq(F) /\ F = CollectFrames(graph, memo, Terms(info))
      BY <1>1, <2>5, CollectTop
    <2>7. ASSUME AliasesOfInputs(graph)
          PROVE  /\ RemembersEntries(graph, memo, info)
                 /\ \A n \in DOMAIN stack' : stack'[n].key[1] = "leader" /\ stack'[n].key[2] \notin Emitted(info)
                 /\ AreDistinct(stack')
      <3>1. k[1] = "leader" /\ k = <<"leader", k[2]>>
        BY <2>1, <2>2, <2>7 DEF IsPlainKey, Key
      <3>2. /\ RemembersEntries(graph, memo, info) /\ AreDistinct(s)
            /\ \A n \in DOMAIN s : s[n].key[1] = "leader" /\ s[n].key[2] \notin Emitted(info)
        BY <1>1, <2>5, <2>7 DEF CollectOnce
      <3>3. k[2] \notin Emitted(info)
        <4> SUFFICES ASSUME k[2] \in Emitted(info) PROVE FALSE
          OBVIOUS
        <4>1. PICK e \in Entries(info) : e[1] = k[2]
          BY DEF Emitted
        <4>2. e[2] = memo[k].choice
          BY <3>1, <3>2, <4>1 DEF RemembersEntries
        <4>3. EntriesOK(graph, info) /\ info \in Result
          BY DEF ExtractInv, ExtractTypeOK, EntriesOK
        <4>4. e \in RangeOf(info.ops) \/ e \in RangeOf(info.aliases)
          BY EntriesAre
        <4>5. k[2] \notin EmittedSymbols(graph.choices[k[2]][memo[k].choice].alias)
          BY <1>1, <2>1, <2>2 DEF IsCollected
        <4>6. \/ e \in RangeOf(info.ops) /\ ~graph.choices[k[2]][memo[k].choice].alias
              \/ e \in RangeOf(info.aliases) /\ graph.choices[k[2]][memo[k].choice].alias
          BY <3>2, <4>1, <4>2, <4>4 DEF RemembersEntries, AreInPlace
        <4> QED BY <4>1, <4>5, <4>6 DEF EmittedSymbols, RangeOf
      <3>4. \A n \in DOMAIN s : s[n].key # k
        BY <1>3, <2>1, <2>5 DEF CollectingSymbols
      <3>5. AreDistinct(stack')
        BY <2>4, <2>5, <2>6, <3>2, <3>4, DistinctPush
      <3>6. \A n \in DOMAIN stack' : stack'[n] = f \/ \E m \in DOMAIN s : stack'[n] = s[m]
        BY <2>4, <2>5, <2>6, PushedFrames
      <3> QED BY <2>4, <3>1, <3>2, <3>3, <3>5, <3>6
    <2> QED BY <1>1, <2>4, <2>7 DEF CollectOnce, HasSelected
  <1> QED BY <1>2, <1>3

\* What is emitted is what is remembered of the leader.
LEMMA CollectOnceEmit ==
  ASSUME ExtractInv, CollectOnce, EmitSelected PROVE CollectOnce'
PROOF
  <1>1. pc = "collect" /\ stack # <<>> /\ Emit(Top.key[2], Top.choice) /\ Resume(Pop(stack))
        /\ UNCHANGED <<graph, mode, pc, memo>>
    BY DEF EmitSelected
  <1>2. PICK f \in CollectFrames(graph, memo, Terms(info)) :
          f = Top /\ f.key[2] \in EClass /\ f.choice \in Nat
    <2>1. PICK f \in CollectFrames(graph, memo, Terms(info)) : f = Top /\ f.key[2] \in EClass
      BY <1>1, CollectTop
    <2>2. f.choice \in Nat
      BY DEF CollectFrames, CollectFrame
    <2> QED BY <2>1, <2>2
  <1>3. PICK s : s = stack
    OBVIOUS
  <1>4. PICK F : s \in Seq(F) /\ F = CollectFrames(graph, memo, Terms(info)) /\ F \subseteq CollectFrame
    BY <1>1, <1>3, CollectTop DEF CollectFrames
  <1>5. PICK rest : rest = Pop(s)
    OBVIOUS
  <1>6. rest \in Seq(F) /\ Len(s) \in Nat \ {0} /\ DOMAIN s = 1..Len(s) /\ DOMAIN rest = 1..(Len(s) - 1)
        /\ \A n \in 1..(Len(s) - 1) : rest[n] = s[n]
    BY <1>1, <1>3, <1>4, <1>5, PopFrame DEF Pop
  <1>7. DOMAIN stack' = DOMAIN rest /\ \A n \in DOMAIN rest : stack'[n].key = rest[n].key
    BY <1>1, <1>3, <1>4, <1>5, <1>6, ResumeKeys
  <1>8. info \in Result
    BY DEF ExtractInv, ExtractTypeOK, EntriesOK
  <1>9. ASSUME AliasesOfInputs(graph)
        PROVE  /\ RemembersEntries(graph, memo, info)'
               /\ \A n \in DOMAIN stack' : stack'[n].key[1] = "leader" /\ stack'[n].key[2] \notin Emitted(info')
               /\ AreDistinct(stack')
    <2>1. /\ RemembersEntries(graph, memo, info) /\ AreDistinct(s)
          /\ \A n \in DOMAIN s : s[n].key[1] = "leader" /\ s[n].key[2] \notin Emitted(info)
      BY <1>1, <1>3, <1>9 DEF CollectOnce
    <2>2. PICK l \in Nat \ {0} : l = Len(s) /\ f = s[l] /\ l \in DOMAIN s
      <3>1. f = s[Len(s)]
        BY <1>2, <1>3 DEF Top
      <3>2. PICK l \in Nat \ {0} : l = Len(s) /\ DOMAIN s = 1..l
        BY <1>6
      <3>3. l \in 1..l
        OBVIOUS
      <3> QED BY <3>1, <3>2, <3>3
    <2>3. f.key[1] = "leader" /\ f.key[2] \notin Emitted(info) /\ f.key \in {"leader", "raw"} \X EClass
      BY <1>2, <2>1, <2>2 DEF CollectFrames, CollectFrame
    <2>4. f.key = <<"leader", f.key[2]>>
      BY <2>3
    <2>5. /\ IsSelectionMap(info') /\ Entries(info') = Entries(info) \cup {<<f.key[2], f.choice>>}
          /\ AreInPlace(graph, info')
      BY <1>1, <1>2, <1>8, <2>1, <2>3, EmitOnce DEF RemembersEntries
    <2>6. f.key \in DOMAIN memo /\ f.choice = memo[f.key].choice
      BY DEF CollectFrames
    <2>7. PICK e : e = <<f.key[2], f.choice>> /\ e[1] = f.key[2] /\ e[2] = f.choice
      <3>1. <<f.key[2], f.choice>>[1] = f.key[2] /\ <<f.key[2], f.choice>>[2] = f.choice
        OBVIOUS
      <3> QED BY <3>1, Zenon
    <2>8. RemembersEntries(graph, memo, info)'
      BY <1>1, <2>1, <2>4, <2>5, <2>6, <2>7 DEF RemembersEntries
    <2>9. Emitted(info') = Emitted(info) \cup {f.key[2]}
      BY <2>5, <2>7 DEF Emitted
    <2>10. AreDistinct(rest) /\ \A n \in DOMAIN rest : rest[n].key # f.key
      BY <1>1, <1>3, <1>4, <1>5, <2>1, <2>2, DistinctPop
    <2>11. AreDistinct(stack')
      BY <1>7, <2>10 DEF AreDistinct
    <2>12. ASSUME NEW n \in DOMAIN stack'
           PROVE  stack'[n].key[1] = "leader" /\ stack'[n].key[2] \notin Emitted(info')
      <3>1. n \in 1..(Len(s) - 1) /\ n \in DOMAIN s /\ rest[n] = s[n] /\ stack'[n].key = s[n].key
        BY <1>6, <1>7, <2>12
      <3>2. s[n].key \in {"leader", "raw"} \X EClass
        BY <1>4, <3>1 DEF CollectFrame
      <3>3. s[n].key[1] = "leader" /\ s[n].key[2] \notin Emitted(info)
        BY <2>1, <3>1
      <3>4. s[n].key # f.key
        BY <1>6, <2>10, <3>1
      <3>5. s[n].key = <<"leader", s[n].key[2]>>
        BY <3>2, <3>3
      <3>6. s[n].key[2] # f.key[2]
        BY <2>4, <3>4, <3>5
      <3> QED BY <2>9, <3>1, <3>3, <3>6
    <2> QED BY <2>8, <2>11, <2>12
  <1> QED BY <1>1, <1>9 DEF CollectOnce, HasSelected

\* The costs of the roots are those that are remembered.
LEMMA CollectOnceEnd ==
  ASSUME ExtractInv, CollectOnce, EndCollect PROVE CollectOnce'
PROOF
  <1>1. pc = "collect" /\ stack = <<>> /\ pc' = "idle" /\ UNCHANGED <<graph, mode, root, stack, memo>>
        /\ info' = [info EXCEPT !.ok = TRUE, !.rootCosts = [i \in DOMAIN Wanted |-> memo[Wanted[i]].cost]]
    BY DEF EndCollect
  <1>2. /\ graph \in ExtractGraphs /\ MemoOK(graph, memo) /\ EntriesOK(graph, info)
        /\ AreKnown(RootKeys(graph), Len(graph.roots) + 1, DOMAIN memo)
    BY <1>1 DEF ExtractInv, ExtractTypeOK, CollectInv
  <1>3. Wanted = RootKeys(graph)
    BY <1>1, CollectTop
  <1>4. graph.roots \in Seq(Symbol) /\ DOMAIN RootKeys(graph) = DOMAIN graph.roots
    BY <1>2, RootFacts
  <1>5. \A i \in DOMAIN graph.roots : RootKeys(graph)[i] \in DOMAIN memo
    <2>1. \A i \in DOMAIN graph.roots : i < Len(graph.roots) + 1
      BY <1>4
    <2> QED BY <1>2, <1>4, <2>1 DEF AreKnown
  <1>6. PICK costs : costs = [i \in DOMAIN graph.roots |-> memo[RootKeys(graph)[i]].cost]
    OBVIOUS
  <1>7. costs \in Seq(0..MaxCost)
    <2>1. \A i \in DOMAIN graph.roots : memo[RootKeys(graph)[i]].cost \in 0..MaxCost
      BY <1>2, <1>5 DEF MemoOK, Best
    <2>2. PICK l \in Nat : l = Len(graph.roots) /\ DOMAIN graph.roots = 1..l
      BY <1>4
    <2>3. costs \in [1..l -> 0..MaxCost]
      BY <1>6, <2>1, <2>2
    <2> QED BY <2>3, FunctionIsSeq
  <1>8. info' = [info EXCEPT !.ok = TRUE, !.rootCosts = costs]
    BY <1>1, <1>3, <1>4, <1>6
  <1>9. Entries(info') = Entries(info) /\ info'.rootCosts = costs
    BY <1>2, <1>7, <1>8, ReturnFacts
  <1>10. ASSUME AliasesOfInputs(graph) PROVE RemembersEntries(graph, memo, info')
    <2>1. RemembersEntries(graph, memo, info)
      BY <1>1, <1>10 DEF CollectOnce
    <2>2. IsSelectionMap(info') /\ AreInPlace(graph, info')
      BY <1>2, <1>7, <1>8, <2>1, ReturnsOnce DEF RemembersEntries
    <2> QED BY <1>9, <2>1, <2>2 DEF RemembersEntries
  <1> QED BY <1>1, <1>5, <1>6, <1>9, <1>10 DEF CollectOnce, HasSelected

\* Steps that are not of collectSelected, and do not select.
LEMMA CollectOnceOther ==
  ASSUME pc' # "collect", pc' = "idle" => ~info'.ok \/ mode' # "greedy" PROVE CollectOnce'
  BY DEF CollectOnce, HasSelected

\* Every step of greedy extraction keeps what is emitted to what is remembered.
LEMMA CollectOnceGreedy ==
  ASSUME ExtractInv, SearchCosts, CollectOnce, GreedyNext PROVE CollectOnce'
PROOF
  <1>1. CASE Search \/ CutCycle \/ TryChoice \/ AddChild \/ KeepBest \/ Memoize \/ GiveUp \/ NextRoot
    <2>1. pc' # "collect" /\ (pc' = "idle" => ~info'.ok)
      <3>1. CASE Search \/ CutCycle \/ TryChoice
        BY <3>1 DEF Search, CutCycle, TryChoice
      <3>2. CASE AddChild \/ KeepBest
        BY <3>2 DEF AddChild, KeepBest
      <3>3. CASE Memoize \/ GiveUp \/ NextRoot
        BY <3>3 DEF Memoize, GiveUp, NextRoot, Fail, NoInfo
      <3> QED BY <1>1, <3>1, <3>2, <3>3
    <2> QED BY <2>1, CollectOnceOther
  <1> QED BY <1>1, CollectOnceEndSearch, CollectOnceSkip, CollectOnceSelect, CollectOnceEmit, CollectOnceEnd
          DEF GreedyNext

\* What LP steps do to the call.
LEMMA LpLeavesCollect ==
  ASSUME ExtractInv, LpNext PROVE pc' # "collect" /\ mode' # "greedy"
PROOF
  <1>0. pc \in {"populate", "assemble"} => mode # "greedy"
    BY DEF ExtractInv, ExtractTypeOK
  <1>1. CASE PopulateNode \/ PopulatedNode
    BY <1>0, <1>1 DEF PopulateNode, PopulatedNode, callVars
  <1>2. CASE Solve \/ SolveFails
    BY <1>0, <1>2 DEF Solve, SolveFails, Fail
  <1>3. CASE AssembleInput \/ Assemble \/ AddCost
    BY <1>0, <1>3 DEF AssembleInput, Assemble, AddCost, Fail, callVars
  <1>4. CASE Assembled \/ AssembledRoot \/ EndAssemble
    BY <1>0, <1>4 DEF Assembled, AssembledRoot, EndAssemble
  <1> QED BY <1>1, <1>2, <1>3, <1>4 DEF LpNext

\* What greedy extraction emits is what it remembers.
LEMMA CollectOnceInvariant == ExtractSpec => []CollectOnce
PROOF
  <1>1. ExtractInit => CollectOnce
    BY DEF ExtractInit, CollectOnce, HasSelected
  <1>2. ExtractInv /\ SearchCosts /\ CollectOnce /\ [ExtractNext]_extractVars => CollectOnce'
    <2> SUFFICES ASSUME ExtractInv, SearchCosts, CollectOnce, [ExtractNext]_extractVars PROVE CollectOnce'
      OBVIOUS
    <2>1. CASE \E m \in Backends : RunExtract(m)
      <3>1. pc' # "collect" /\ pc' # "idle"
        BY <2>1 DEF RunExtract
      <3> QED BY <3>1, CollectOnceOther
    <2>2. CASE GreedyStep
      BY <2>2, CollectOnceGreedy DEF GreedyStep
    <2>3. CASE LpStep
      BY <2>3, LpLeavesCollect, CollectOnceOther DEF LpStep
    <2>4. CASE UNCHANGED extractVars
      BY <2>4 DEF extractVars, callVars, CollectOnce, HasSelected
    <2> QED BY <2>1, <2>2, <2>3, <2>4 DEF ExtractNext
  <1> QED BY <1>1, <1>2, ExtractInvariant, SearchCostsInvariant, PTL DEF ExtractSpec

-----------------------------------------------------------------------------
(***************************************************************************)
(* What is selected costs what is reported: prices that add up along what  *)
(* is selected are a costing of it.                                        *)
(***************************************************************************)
Prices(g, price, s, i) == [j \in DOMAIN ChildrenOf(g, s, i) |-> price[ChildrenOf(g, s, i)[j]]]

\* The cost of the choice with its first n operands.
PriceBefore(g, price, s, i, n) == SumTo(g.choices[s][i].cost, Prices(g, price, s, i), n)
FullPrice(g, price, s, i) == PriceBefore(g, price, s, i, Len(ChildrenOf(g, s, i)))

\* Entries are for e-classes.
LEMMA EntriesInEClass ==
  ASSUME NEW g, NEW result, EntriesOK(g, result)
  PROVE  \A e \in Entries(result) : e[1] \in EClass /\ e[2] \in Nat
PROOF
  <1>1. RangeOf(result.ops) \subseteq EClass \X Nat /\ RangeOf(result.aliases) \subseteq EClass \X Nat
    BY DEF EntriesOK, Result, RangeOf
  <1> QED BY <1>1, EntriesAre

\* Prices that add up are a costing.
LEMMA EntriesCost ==
  ASSUME NEW g \in ExtractGraphs, NEW result, EntriesOK(g, result), IsSelectionMap(result), NEW price,
         \A s \in Input : price[s] = 0,
         \A e \in Entries(result) : price[e[1]] \in 0..MaxCost /\ price[e[1]] = FullPrice(g, price, e[1], e[2])
  PROVE  \E cost \in Costings(g, SelectionMap(result)) : \A s \in Terms(result) : CostOf(cost, s) = price[s]
PROOF
  <1>1. PICK sel : sel = SelectionMap(result)
    OBVIOUS
  <1>2. DOMAIN sel = Emitted(result) /\ \A e \in Entries(result) : sel[e[1]] = e[2]
    BY <1>1, SelectionMapEntries DEF EntriesOK, Emitted
  <1>3. \A s \in DOMAIN sel : s \in EClass /\ sel[s] \in DOMAIN g.choices[s]
    BY <1>2, EntriesInEClass DEF Emitted, EntriesOK, UsableChoices
  <1>4. PICK cost : cost = [s \in DOMAIN sel |-> price[s]]
    OBVIOUS
  <1>5. \A s \in Terms(result) : CostOf(cost, s) = price[s]
    BY <1>2, <1>4 DEF Terms, Emitted, CostOf
  <1>6. ASSUME NEW s \in DOMAIN sel
        PROVE  cost[s] = TermCost(g.choices[s][sel[s]], cost) /\ cost[s] \in 0..MaxCost
    <2>1. PICK e \in Entries(result) : e[1] = s /\ e[2] = sel[s]
      BY <1>2 DEF Emitted
    <2>2. PICK i : i = sel[s] /\ i \in DOMAIN g.choices[s]
      BY <1>3
    <2>3. PICK l \in Nat : l = Len(ChildrenOf(g, s, i)) /\ DOMAIN ChildrenOf(g, s, i) = 1..l
      <3>1. ChildrenOf(g, s, i) \in Seq(Symbol)
        BY <1>3, <2>2, ChoiceFacts
      <3> QED BY <3>1
    <2>4. \A j \in 1..l : CostOf(cost, ChildrenOf(g, s, i)[j]) = price[ChildrenOf(g, s, i)[j]]
      <3>1. Needs(g.choices[s][i]) \subseteq Terms(result)
        BY <2>1, <2>2 DEF EntriesOK
      <3>2. \A j \in 1..l : ChildrenOf(g, s, i)[j] \in Terms(result)
        BY <2>3, <3>1 DEF Needs, ChildrenOf
      <3> QED BY <1>5, <3>2
    <2>5. PICK costs : costs = ChildCosts(g.choices[s][i], cost)
      OBVIOUS
    <2>6. \A j \in 1..l : costs[j] = Prices(g, price, s, i)[j]
      BY <2>3, <2>4, <2>5 DEF ChildCosts, ChildrenOf, Prices
    <2>7. SumTo(g.choices[s][i].cost, costs, l) = SumTo(g.choices[s][i].cost, Prices(g, price, s, i), l)
      BY <2>6, SumSame
    <2>8. TermCost(g.choices[s][i], cost) = FullPrice(g, price, s, i)
      BY <2>3, <2>5, <2>7 DEF TermCost, FullPrice, PriceBefore, ChildrenOf
    <2> QED BY <1>4, <2>1, <2>2, <2>8
  <1>7. cost \in Costings(g, sel)
    <2>1. cost \in [DOMAIN sel -> 0..MaxCost]
      BY <1>4, <1>6
    <2> QED BY <1>6, <2>1 DEF Costings, IsCosting
  <1> QED BY <1>1, <1>5, <1>7

\* What greedy extraction remembers of a leader.
MemoPrices(memory) == [s \in Symbol |-> IF s \in Input THEN 0 ELSE memory[<<"leader", s>>].cost]

\* The reported costs of greedy extraction are those of the selected terms.
LEMMA GreedyCosts ==
  ASSUME ExtractInv, SearchCosts, CollectOnce, HasSelected("greedy"), AliasesOfInputs(graph)
  PROVE  RootCostsAreOfTerms
PROOF
  <1>1. /\ graph \in ExtractGraphs /\ MemoOK(graph, memo) /\ EntriesOK(graph, info) /\ ExactMemo(graph, memo)
        /\ Roots(graph) \subseteq Terms(info)
    BY DEF ExtractInv, ExtractTypeOK, SearchCosts, IdleInv, HasSelected
  <1>2. /\ RemembersEntries(graph, memo, info)
        /\ \A i \in DOMAIN graph.roots : /\ RootKeys(graph)[i] \in DOMAIN memo
                                         /\ info.rootCosts[i] = memo[RootKeys(graph)[i]].cost
    BY DEF CollectOnce
  <1>3. PICK price : price = MemoPrices(memo)
    OBVIOUS
  <1>4. \A s \in Input : price[s] = 0
    BY <1>3, NamesFinite DEF MemoPrices
  <1>5. \A s \in EClass : price[s] = memo[<<"leader", s>>].cost
    BY <1>3 DEF MemoPrices, EClass
  <1>6. ASSUME NEW e \in Entries(info)
        PROVE  price[e[1]] \in 0..MaxCost /\ price[e[1]] = FullPrice(graph, price, e[1], e[2])
    <2>1a. PICK s \in EClass : \E i : s = e[1] /\ i = e[2]
      BY <1>1, EntriesInEClass
    <2>1. PICK i : s = e[1] /\ i = e[2]
      BY <2>1a
    <2>2. PICK k : k = <<"leader", s>> /\ k[1] = "leader" /\ k[2] = s
      <3>1. <<"leader", s>>[1] = "leader" /\ <<"leader", s>>[2] = s
        OBVIOUS
      <3> QED BY <3>1, Zenon
    <2>3. k \in DOMAIN memo /\ i = memo[k].choice
      BY <1>2, <2>1, <2>2 DEF RemembersEntries
    <2>4. memo[k] \in Best /\ HasTerm(graph, DOMAIN memo, s, i)
      BY <1>1, <2>2, <2>3 DEF MemoOK
    <2>5. price[s] = memo[k].cost /\ memo[k].cost = FullCost(graph, memo, s, i)
      BY <1>1, <1>5, <2>2, <2>3 DEF ExactMemo, EClass
    <2>6. i \in DOMAIN graph.choices[s]
      BY <2>4 DEF HasTerm, UsableChoices
    <2>7. PICK l \in Nat : l = Len(ChildrenOf(graph, s, i)) /\ DOMAIN ChildrenOf(graph, s, i) = 1..l
                           /\ DOMAIN KeysOf(graph, s, i) = 1..l
      <3>1. ChildrenOf(graph, s, i) \in Seq(Symbol) /\ DOMAIN KeysOf(graph, s, i) = DOMAIN ChildrenOf(graph, s, i)
        BY <1>1, <2>6, ChoiceFacts
      <3> QED BY <3>1
    <2>8. ASSUME NEW j \in 1..l
          PROVE  KeyCosts(graph, memo, s, i)[j] = Prices(graph, price, s, i)[j]
      <3>1a. PICK t \in Symbol : \E q : t = ChildrenOf(graph, s, i)[j] /\ q = KeysOf(graph, s, i)[j]
                                        /\ q \in Key /\ q[2] = t
        <4>1. ChildrenOf(graph, s, i) \in Seq(Symbol) /\ j \in DOMAIN ChildrenOf(graph, s, i)
          BY <1>1, <2>6, <2>7, ChoiceFacts
        <4>2. ChildrenOf(graph, s, i)[j] \in Symbol
          BY <4>1
        <4>3. KeysOf(graph, s, i)[j] \in Key /\ KeysOf(graph, s, i)[j][2] = ChildrenOf(graph, s, i)[j]
          BY <1>1, <2>6, <4>1, ChoiceFacts
        <4> QED BY <4>2, <4>3
      <3>1. PICK q : t = ChildrenOf(graph, s, i)[j] /\ q = KeysOf(graph, s, i)[j]
                     /\ q \in Key /\ q[2] = t
        BY <3>1a
      <3>2. q \in DOMAIN memo
        BY <2>4, <2>7, <3>1 DEF HasTerm
      <3>3. CASE t \in Input
        <4>1. memo[q].cost = 0
          BY <1>1, <3>1, <3>2, <3>3 DEF ExactMemo
        <4> QED BY <1>4, <2>7, <3>1, <3>3, <4>1 DEF KeyCosts, Prices
      <3>4. CASE t \notin Input
        <4>1. t \in EClass
          BY <3>1, <3>4 DEF EClass
        <4>2. ~graph.choices[s][i].alias
          <5>1. t \in Needs(graph.choices[s][i])
            BY <2>7, <3>1 DEF Needs, ChildrenOf
          <5> QED BY <2>6, <3>4, <5>1 DEF AliasesOfInputs
        <4>3. q = <<"leader", t>>
          BY <1>1, <2>6, <2>7, <3>1, <4>2, ChoiceFacts
        <4>4. price[t] = memo[q].cost
          BY <1>5, <4>1, <4>3
        <4> QED BY <2>7, <3>1, <4>4 DEF KeyCosts, Prices
      <3> QED BY <3>3, <3>4
    <2>9. SumTo(graph.choices[s][i].cost, KeyCosts(graph, memo, s, i), l)
            = SumTo(graph.choices[s][i].cost, Prices(graph, price, s, i), l)
      BY <2>8, SumSame
    <2>10. FullCost(graph, memo, s, i) = FullPrice(graph, price, s, i)
      BY <2>7, <2>9 DEF FullCost, CostBefore, FullPrice, PriceBefore
    <2> QED BY <2>1, <2>4, <2>5, <2>10 DEF Best
  <1>7. PICK cost \in Costings(graph, SelectionMap(info)) : \A s \in Terms(info) : CostOf(cost, s) = price[s]
    BY <1>1, <1>2, <1>4, <1>6, EntriesCost DEF RemembersEntries
  <1>8. ASSUME NEW n \in DOMAIN graph.roots
        PROVE  info.rootCosts[n] = CostOf(cost, graph.roots[n])
    <2>1. PICK r \in Symbol : r = graph.roots[n] /\ RootKeys(graph)[n] = <<"leader", r>> /\ RootKeys(graph)[n][2] = r
      BY <1>1, RootFacts
    <2>2. CostOf(cost, r) = price[r]
      BY <1>1, <1>7, <2>1 DEF Roots
    <2>3. CASE r \in Input
      BY <1>1, <1>2, <1>4, <2>1, <2>2, <2>3 DEF ExactMemo
    <2>4. CASE r \notin Input
      BY <1>2, <1>5, <2>1, <2>2, <2>4 DEF EClass
    <2> QED BY <2>1, <2>3, <2>4
  <1> QED BY <1>2, <1>7, <1>8 DEF RootCostsAreOfTerms, RemembersEntries

-----------------------------------------------------------------------------
(***************************************************************************)
(* The costs that integer programming reports: an e-class is emitted once, *)
(* when the costs of its operands are known, and its cost is their sum.    *)
(***************************************************************************)
AreApart(frames) == \A m, n \in DOMAIN frames : frames[m].symbol = frames[n].symbol => m = n

ExactCosts(g, sel, result, costs) ==
  /\ IsSelectionMap(result)
  /\ AreInPlace(g, result)
  /\ Emitted(result) \subseteq DOMAIN costs
  /\ \A s \in DOMAIN costs : s \in Input => costs[s] = 0
  /\ \A e \in Entries(result) : /\ e[1] \in DOMAIN sel
                                /\ e[2] = sel[e[1]]
                                /\ Needs(g.choices[e[1]][e[2]]) \subseteq DOMAIN costs
                                /\ costs[e[1]] = FullPrice(g, costs, e[1], e[2])

ExactAssembleFrames(g, sel, costs) ==
  {f \in AssembleFrames(g, sel, DOMAIN costs) :
     /\ f.symbol \notin DOMAIN costs
     /\ f.child <= Len(ChildrenOf(g, f.symbol, sel[f.symbol])) + 1
     /\ f.cost = PriceBefore(g, costs, f.symbol, sel[f.symbol], f.child - 1)}

LpCosts ==
  /\ pc = "assemble" \/ HasSelectedLp => ExactCosts(graph, assignment.sel, info, subtreeCosts)
  /\ pc = "assemble" => /\ stack \in Seq(ExactAssembleFrames(graph, assignment.sel, subtreeCosts))
                        /\ AreApart(stack)
  /\ HasSelectedLp =>
       /\ DOMAIN subtreeCosts \subseteq Terms(info)
       /\ CostsOK(subtreeCosts)
       /\ \A i \in DOMAIN graph.roots : /\ graph.roots[i] \in DOMAIN subtreeCosts
                                        /\ info.rootCosts[i] = subtreeCosts[graph.roots[i]]

\* A price stays when more prices are known.
LEMMA PriceStays ==
  ASSUME NEW g \in ExtractGraphs, NEW costs, NEW more,
         DOMAIN costs \subseteq DOMAIN more, \A k \in DOMAIN costs : more[k] = costs[k],
         NEW s \in EClass, NEW i \in DOMAIN g.choices[s], NEW n \in 0..Len(ChildrenOf(g, s, i)),
         AreKnown(ChildrenOf(g, s, i), n + 1, DOMAIN costs)
  PROVE  PriceBefore(g, more, s, i, n) = PriceBefore(g, costs, s, i, n)
PROOF
  <1>1. ChildrenOf(g, s, i) \in Seq(Symbol)
    BY ChoiceFacts
  <1>2. n \in Nat /\ \A j \in 1..n : j \in DOMAIN ChildrenOf(g, s, i) /\ j < n + 1
    BY <1>1
  <1>3. \A j \in 1..n : ChildrenOf(g, s, i)[j] \in DOMAIN costs
    BY <1>2 DEF AreKnown
  <1>4. \A j \in 1..n : Prices(g, more, s, i)[j] = Prices(g, costs, s, i)[j]
    BY <1>2, <1>3 DEF Prices
  <1> QED BY <1>2, <1>4, SumSame DEF PriceBefore

\* So does the price of a choice with all its operands.
LEMMA FullPriceStays ==
  ASSUME NEW g \in ExtractGraphs, NEW costs, NEW more,
         DOMAIN costs \subseteq DOMAIN more, \A k \in DOMAIN costs : more[k] = costs[k],
         NEW s \in EClass, NEW i \in DOMAIN g.choices[s], Needs(g.choices[s][i]) \subseteq DOMAIN costs
  PROVE  FullPrice(g, more, s, i) = FullPrice(g, costs, s, i)
PROOF
  <1>1. ChildrenOf(g, s, i) \in Seq(Symbol)
    BY ChoiceFacts
  <1>2. Len(ChildrenOf(g, s, i)) \in 0..Len(ChildrenOf(g, s, i))
    BY <1>1
  <1>3. AreKnown(ChildrenOf(g, s, i), Len(ChildrenOf(g, s, i)) + 1, DOMAIN costs)
    BY DEF AreKnown, Needs, ChildrenOf
  <1> QED BY <1>2, <1>3, PriceStays DEF FullPrice

\* What is assembled stays exact when the cost of a name is remembered.
LEMMA AssembledStays ==
  ASSUME NEW g \in ExtractGraphs, NEW sel, SelOK(g, sel), NEW result, EntriesOK(g, result), NEW costs,
         ExactCosts(g, sel, result, costs), NEW more, NEW t, t \notin DOMAIN costs,
         DOMAIN more = DOMAIN costs \cup {t}, \A k \in DOMAIN costs : more[k] = costs[k],
         t \in Input => more[t] = 0
  PROVE  /\ ExactCosts(g, sel, result, more)
         /\ \A f \in ExactAssembleFrames(g, sel, costs) : f.symbol # t => f \in ExactAssembleFrames(g, sel, more)
PROOF
  <1>1. ASSUME NEW e \in Entries(result)
        PROVE  /\ Needs(g.choices[e[1]][e[2]]) \subseteq DOMAIN more
               /\ more[e[1]] = FullPrice(g, more, e[1], e[2])
    <2>1. e[1] \in EClass /\ e[2] \in DOMAIN g.choices[e[1]]
      BY EntriesInEClass DEF EntriesOK, UsableChoices
    <2>2. Needs(g.choices[e[1]][e[2]]) \subseteq DOMAIN costs /\ costs[e[1]] = FullPrice(g, costs, e[1], e[2])
          /\ e[1] \in DOMAIN costs
      BY DEF ExactCosts, Emitted
    <2>3. FullPrice(g, more, e[1], e[2]) = FullPrice(g, costs, e[1], e[2])
      BY <2>1, <2>2, FullPriceStays
    <2> QED BY <2>2, <2>3
  <1>2. ASSUME NEW f \in ExactAssembleFrames(g, sel, costs), f.symbol # t
        PROVE  f \in ExactAssembleFrames(g, sel, more)
    <2>1. f \in AssembleFrames(g, sel, DOMAIN costs) /\ f.symbol \notin DOMAIN costs
      BY DEF ExactAssembleFrames
    <2>2. f \in AssembleFrames(g, sel, DOMAIN more) /\ f.symbol \notin DOMAIN more
      BY <1>2, <2>1, AssembleFramesGrow
    <2>3a. PICK s \in EClass : \E i : s = f.symbol /\ i = sel[s] /\ i \in DOMAIN g.choices[s]
      BY <2>1 DEF AssembleFrames, AssembleFrame, SelOK, UsableChoices
    <2>3. PICK i : s = f.symbol /\ i = sel[s] /\ i \in DOMAIN g.choices[s]
      BY <2>3a
    <2>4. AreKnown(ChildrenOf(g, s, i), f.child, DOMAIN costs) /\ f.child \in Steps
      BY <2>1, <2>3 DEF AssembleFrames, AssembleFrame
    <2>5. f.child <= Len(ChildrenOf(g, s, i)) + 1 /\ f.cost = PriceBefore(g, costs, s, i, f.child - 1)
      BY <2>3 DEF ExactAssembleFrames
    <2>6. ChildrenOf(g, s, i) \in Seq(Symbol)
      BY <2>3, ChoiceFacts
    <2>7. f.child - 1 \in 0..Len(ChildrenOf(g, s, i)) /\ (f.child - 1) + 1 = f.child
      BY <2>4, <2>5, <2>6 DEF Steps
    <2>8. PriceBefore(g, more, s, i, f.child - 1) = PriceBefore(g, costs, s, i, f.child - 1)
      BY <2>3, <2>4, <2>7, PriceStays
    <2> QED BY <2>2, <2>3, <2>5, <2>8 DEF ExactAssembleFrames
  <1>3. \A s \in DOMAIN more : s \in Input => more[s] = 0
    BY DEF ExactCosts
  <1> QED BY <1>1, <1>2, <1>3 DEF ExactCosts

\* The frame on top of collectSelected, with its cost.
LEMMA ExactAssembleTop ==
  ASSUME ExtractInv, LpCosts, pc = "assemble"
  PROVE  /\ ExactCosts(graph, assignment.sel, info, subtreeCosts)
         /\ stack \in Seq(ExactAssembleFrames(graph, assignment.sel, subtreeCosts)) /\ AreApart(stack)
         /\ stack # <<>> => /\ Top \in ExactAssembleFrames(graph, assignment.sel, subtreeCosts)
                            /\ Top = stack[Len(stack)]
PROOF
  <1>1. /\ ExactCosts(graph, assignment.sel, info, subtreeCosts)
        /\ stack \in Seq(ExactAssembleFrames(graph, assignment.sel, subtreeCosts)) /\ AreApart(stack)
    BY DEF LpCosts
  <1> QED BY <1>1, PopFrame DEF Top

\* Frames about different names remain so when the top changes or goes, or a new one comes.
LEMMA ApartTop ==
  ASSUME NEW F, NEW s \in Seq(F), s # <<>>, AreApart(s), NEW f, f.symbol = s[Len(s)].symbol
  PROVE  AreApart([s EXCEPT ![Len(s)] = f])
PROOF
  <1>1. PICK l \in Nat \ {0} : l = Len(s) /\ DOMAIN s = 1..l
    OBVIOUS
  <1>2. PICK u : u = [s EXCEPT ![l] = f]
    OBVIOUS
  <1>3. DOMAIN u = 1..l /\ \A n \in 1..l : u[n].symbol = s[n].symbol
    BY <1>1, <1>2
  <1>4. AreApart(u)
    BY <1>1, <1>3 DEF AreApart
  <1> QED BY <1>1, <1>2, <1>4

\* The frames under the top are about other names.
LEMMA ApartPop ==
  ASSUME NEW F, NEW s \in Seq(F), s # <<>>, AreApart(s)
  PROVE  AreApart(Pop(s)) /\ \A n \in DOMAIN Pop(s) : Pop(s)[n].symbol # s[Len(s)].symbol
PROOF
  <1>1. PICK l \in Nat \ {0} : l = Len(s) /\ DOMAIN s = 1..l
    OBVIOUS
  <1>2. DOMAIN Pop(s) = 1..(l - 1) /\ \A n \in 1..(l - 1) : Pop(s)[n] = s[n]
    BY <1>1 DEF Pop
  <1>3. \A n \in 1..(l - 1) : n \in 1..l /\ n # l
    OBVIOUS
  <1>4. PICK u : u = Pop(s)
    OBVIOUS
  <1>5. AreApart(u)
    BY <1>1, <1>2, <1>3, <1>4 DEF AreApart
  <1>6. l \in 1..l
    OBVIOUS
  <1>7. \A n \in DOMAIN u : u[n].symbol # s[l].symbol
    BY <1>1, <1>2, <1>3, <1>4, <1>6 DEF AreApart
  <1> QED BY <1>1, <1>4, <1>5, <1>7

\* A frame about another name is pushed.
LEMMA ApartPush ==
  ASSUME NEW F, NEW s \in Seq(F), AreApart(s), NEW f, \A n \in DOMAIN s : s[n].symbol # f.symbol
  PROVE  AreApart(Append(s, f))
PROOF
  <1>1. s \in Seq(F \cup {f})
    BY WeakerFrames
  <1>2. PICK u : u = Append(s, f)
    OBVIOUS
  <1>3. PICK l \in Nat : l = Len(s) /\ DOMAIN s = 1..l
    OBVIOUS
  <1>4. u \in Seq(F \cup {f}) /\ Len(u) = l + 1 /\ u[l + 1] = f /\ \A n \in 1..l : u[n] = s[n]
    BY <1>1, <1>2, <1>3, PushFrame
  <1>5. DOMAIN u = 1..(l + 1)
    BY <1>4
  <1>6. \A n \in 1..(l + 1) : n \in 1..l \/ n = l + 1
    OBVIOUS
  <1>7. AreApart(u)
    BY <1>3, <1>4, <1>5, <1>6 DEF AreApart
  <1> QED BY <1>2, <1>7

\* Frames that each belong to another kind.
LEMMA FramesBecome ==
  ASSUME NEW F, NEW G, NEW s \in Seq(F), \A n \in DOMAIN s : s[n] \in G
  PROVE  s \in Seq(G)
PROOF
  <1>1. PICK l \in Nat : l = Len(s) /\ DOMAIN s = 1..l
    OBVIOUS
  <1>2. s \in [1..l -> G]
    BY <1>1
  <1> QED BY <1>1, <1>2

\* What a step within collectSelected has to show.
LEMMA LpCostsGoOn ==
  ASSUME pc' = "assemble", ExactCosts(graph, assignment.sel, info, subtreeCosts)',
         (stack \in Seq(ExactAssembleFrames(graph, assignment.sel, subtreeCosts)))', AreApart(stack')
  PROVE  LpCosts'
  BY DEF LpCosts, HasSelectedLp, HasSelected

\* What a step out of it has to show when it fails.
LEMMA LpCostsElse ==
  ASSUME pc' # "assemble", mode' = "greedy" \/ pc' # "idle" \/ ~info'.ok
  PROVE  LpCosts'
  BY DEF LpCosts, HasSelectedLp, HasSelected

\* Before anything is assembled.
LEMMA LpCostsSolve ==
  ASSUME ExtractInv, Solve PROVE LpCosts'
PROOF
  <1>1. pc' = "assemble" /\ stack = <<>> /\ info = NoInfo /\ subtreeCosts = <<>>
        /\ UNCHANGED <<graph, stack, info, subtreeCosts>>
    BY DEF Solve, ExtractInv, PopulateInv
  <1>2. IsSelectionMap(NoInfo) /\ Entries(NoInfo) = {} /\ AreInPlace(graph, NoInfo)
    BY DEF NoInfo, IsSelectionMap, Entries, AreInPlace, RangeOf
  <1>3. \A sel : ExactCosts(graph, sel, NoInfo, <<>>)
    BY <1>2 DEF ExactCosts, Emitted
  <1>4. \A F : <<>> \in Seq(F)
    OBVIOUS
  <1> QED BY <1>1, <1>3, <1>4, LpCostsGoOn DEF AreApart

\* An input costs nothing.
LEMMA LpCostsInput ==
  ASSUME ExtractInv, LpCosts, AssembleInput PROVE LpCosts'
PROOF
  <1>1. pc = "assemble" /\ IsAsking /\ Operand \in Input \ DOMAIN subtreeCosts
        /\ subtreeCosts' = Extend(subtreeCosts, Operand, 0) /\ UNCHANGED <<graph, pc, stack, info, assignment>>
    BY DEF AssembleInput, callVars
  <1>2. /\ graph \in ExtractGraphs /\ SelOK(graph, assignment.sel) /\ EntriesOK(graph, info)
        /\ ExactCosts(graph, assignment.sel, info, subtreeCosts) /\ AreApart(stack)
        /\ stack \in Seq(ExactAssembleFrames(graph, assignment.sel, subtreeCosts))
    BY <1>1, AssembleTop, ExactAssembleTop
  <1>3. PICK t \in Input : t = Operand /\ t \notin DOMAIN subtreeCosts
    BY <1>1
  <1>4. DOMAIN subtreeCosts' = DOMAIN subtreeCosts \cup {t} /\ subtreeCosts'[t] = 0
        /\ \A k \in DOMAIN subtreeCosts : subtreeCosts'[k] = subtreeCosts[k]
    BY <1>1, <1>3 DEF Extend
  <1>5. /\ ExactCosts(graph, assignment.sel, info, subtreeCosts')
        /\ \A f \in ExactAssembleFrames(graph, assignment.sel, subtreeCosts) :
             f.symbol # t => f \in ExactAssembleFrames(graph, assignment.sel, subtreeCosts')
    BY <1>2, <1>3, <1>4, AssembledStays
  <1>6. \A f \in ExactAssembleFrames(graph, assignment.sel, subtreeCosts) : f.symbol # t
    BY <1>3 DEF ExactAssembleFrames, AssembleFrames, AssembleFrame, EClass
  <1>7. stack \in Seq(ExactAssembleFrames(graph, assignment.sel, subtreeCosts'))
    BY <1>2, <1>5, <1>6, WeakerFrames
  <1> QED BY <1>1, <1>2, <1>5, <1>7, LpCostsGoOn

\* A new e-class is entered.
LEMMA LpCostsAssemble ==
  ASSUME ExtractInv, LpCosts, Assemble PROVE LpCosts'
PROOF
  <1>1. pc = "assemble" /\ IsAsking /\ Operand \in EClass \ DOMAIN subtreeCosts
        /\ UNCHANGED <<graph, mode, assignment, subtreeCosts>>
    BY DEF Assemble, lpVars
  <1>2. CASE Operand \in {stack[n].symbol : n \in DOMAIN stack} \/ Operand \notin DOMAIN assignment.sel
    <2>1. pc' = "idle" /\ ~info'.ok
      BY <1>2 DEF Assemble, Fail, NoInfo
    <2> QED BY <2>1, LpCostsElse
  <1>3. CASE ~(Operand \in {stack[n].symbol : n \in DOMAIN stack} \/ Operand \notin DOMAIN assignment.sel)
    <2>1a. PICK s \in EClass : \E i : s = Operand /\ s \in DOMAIN assignment.sel /\ i = assignment.sel[s]
      BY <1>1, <1>3
    <2>1. PICK i : s = Operand /\ s \in DOMAIN assignment.sel /\ i = assignment.sel[s]
      BY <2>1a
    <2>2. PICK f : f = [symbol |-> s, child |-> FirstChild, cost |-> Selected(s).cost]
      OBVIOUS
    <2>3. stack' = Append(stack, f) /\ UNCHANGED <<pc, info>>
      BY <1>3, <2>1, <2>2 DEF Assemble
    <2>4. /\ graph \in ExtractGraphs /\ SelOK(graph, assignment.sel) /\ EntriesOK(graph, info)
          /\ ExactCosts(graph, assignment.sel, info, subtreeCosts) /\ AreApart(stack)
          /\ stack \in Seq(ExactAssembleFrames(graph, assignment.sel, subtreeCosts))
      BY <1>1, AssembleTop, ExactAssembleTop
    <2>5. i \in UsableChoices(graph, s) /\ i \in DOMAIN graph.choices[s]
      BY <2>1, <2>4 DEF SelOK, UsableChoices
    <2>6. graph.choices[s][i].cost \in NoCost..MaxCost /\ ChildrenOf(graph, s, i) \in Seq(Symbol)
      BY <2>4, <2>5, ChoiceFacts
    <2>7. Selected(s).cost = graph.choices[s][i].cost /\ Selected(s).cost \in 0..MaxCost
      BY <2>1, <2>5, <2>6, MaxCostOK DEF Selected, IsUsable, NoCost, UsableChoices
    <2>8. f \in AssembleFrame /\ f.symbol = s /\ f.child = 1 /\ f.cost = graph.choices[s][i].cost
      BY <2>2, <2>7 DEF AssembleFrame, FirstChild, Steps
    <2>9. AreKnown(ChildrenOf(graph, s, i), 1, DOMAIN subtreeCosts) /\ 1 <= Len(ChildrenOf(graph, s, i)) + 1
      BY <2>6 DEF AreKnown
    <2>10. f.cost = PriceBefore(graph, subtreeCosts, s, i, 0)
      BY <2>8, SumStart DEF PriceBefore
    <2>11. f \in ExactAssembleFrames(graph, assignment.sel, subtreeCosts)
      <3>1. f.child - 1 = 0
        BY <2>8
      <3> QED BY <1>1, <2>1, <2>8, <2>9, <2>10, <3>1 DEF ExactAssembleFrames, AssembleFrames
    <2>12. stack' \in Seq(ExactAssembleFrames(graph, assignment.sel, subtreeCosts))
      BY <2>3, <2>4, <2>11, PushFrame
    <2>13. \A n \in DOMAIN stack : stack[n].symbol # f.symbol
      BY <1>3, <2>1, <2>8
    <2>14. AreApart(stack')
      BY <2>3, <2>4, <2>13, ApartPush
    <2> QED BY <1>1, <2>3, <2>4, <2>12, <2>14, LpCostsGoOn
  <1> QED BY <1>2, <1>3

\* The cost of an operand is added to that of the e-class.
LEMMA LpCostsAdd ==
  ASSUME ExtractInv, LpCosts, AddCost PROVE LpCosts'
PROOF
  <1>1. pc = "assemble" /\ stack # <<>> /\ IsAsking /\ Operand \in DOMAIN subtreeCosts
        /\ UNCHANGED <<graph, mode, assignment, subtreeCosts>>
    BY DEF AddCost, lpVars
  <1>2. /\ graph \in ExtractGraphs /\ SelOK(graph, assignment.sel) /\ CostsOK(subtreeCosts)
        /\ ExactCosts(graph, assignment.sel, info, subtreeCosts) /\ AreApart(stack)
        /\ stack \in Seq(ExactAssembleFrames(graph, assignment.sel, subtreeCosts))
    BY <1>1, AssembleTop, ExactAssembleTop
  <1>3. PICK f \in ExactAssembleFrames(graph, assignment.sel, subtreeCosts) : f = Top /\ f = stack[Len(stack)]
    BY <1>1, ExactAssembleTop
  <1>4. PICK cost \in 0..MaxCost : cost = subtreeCosts[Operand]
    BY <1>1, <1>2 DEF CostsOK
  <1>5. CASE Fits(f.cost, cost)
    <2>1. PICK h : h = [f EXCEPT !.child = @ + 1, !.cost = @ + cost]
      OBVIOUS
    <2>2. stack' = WithTop(h) /\ UNCHANGED <<pc, info>>
      BY <1>3, <1>4, <1>5, <2>1 DEF AddCost
    <2>3. f \in AssembleFrames(graph, assignment.sel, DOMAIN subtreeCosts) /\ f.symbol \notin DOMAIN subtreeCosts
      BY DEF ExactAssembleFrames
    <2>4a. PICK s \in EClass : \E i : s = f.symbol /\ i = assignment.sel[s] /\ i \in DOMAIN graph.choices[s]
                                      /\ s \in DOMAIN assignment.sel
      BY <1>2, <2>3 DEF AssembleFrames, AssembleFrame, SelOK, UsableChoices
    <2>4. PICK i : s = f.symbol /\ i = assignment.sel[s] /\ i \in DOMAIN graph.choices[s]
                   /\ s \in DOMAIN assignment.sel
      BY <2>4a
    <2>5. /\ f \in AssembleFrame /\ f.child \in Nat \ {0} /\ f.cost \in 0..MaxCost
          /\ AreKnown(ChildrenOf(graph, s, i), f.child, DOMAIN subtreeCosts)
      BY <2>3, <2>4 DEF AssembleFrames, AssembleFrame, Steps
    <2>6. ChildrenOf(graph, s, i) \in Seq(Symbol)
      BY <1>2, <2>4, ChoiceFacts
    <2>7. Operands = ChildrenOf(graph, s, i) /\ At = f.child
      BY <1>1, <1>3, <2>4, AssembleTop
    <2>8. f.child \in DOMAIN ChildrenOf(graph, s, i) /\ Operand = ChildrenOf(graph, s, i)[f.child]
      BY <1>1, <2>7 DEF IsAsking, Operand
    <2>9. f.child <= Len(ChildrenOf(graph, s, i)) /\ f.child - 1 \in Nat /\ (f.child - 1) + 1 = f.child
          /\ (f.child + 1) - 1 = f.child /\ f.child + 1 <= Len(ChildrenOf(graph, s, i)) + 1
      BY <2>5, <2>6, <2>8
    <2>10. f.cost = PriceBefore(graph, subtreeCosts, s, i, f.child - 1)
      BY <2>4 DEF ExactAssembleFrames
    <2>11. PriceBefore(graph, subtreeCosts, s, i, f.child) = f.cost + cost
      <3>1. Prices(graph, subtreeCosts, s, i)[f.child] = cost
        BY <1>4, <2>8 DEF Prices
      <3>2. SumTo(graph.choices[s][i].cost, Prices(graph, subtreeCosts, s, i), (f.child - 1) + 1)
              = SumTo(graph.choices[s][i].cost, Prices(graph, subtreeCosts, s, i), f.child - 1)
                + Prices(graph, subtreeCosts, s, i)[(f.child - 1) + 1]
        BY <2>9, SumNext
      <3> QED BY <2>9, <2>10, <3>1, <3>2 DEF PriceBefore
    <2>12. f.child + 1 \in Steps /\ f.cost + cost \in 0..MaxCost
      BY <1>5, <2>5, MaxCostOK DEF Fits, Steps
    <2>13. h \in AssembleFrame /\ h.symbol = s /\ h.child = f.child + 1 /\ h.cost = f.cost + cost
      BY <2>1, <2>4, <2>5, <2>12 DEF AssembleFrame
    <2>14. AreKnown(ChildrenOf(graph, s, i), f.child + 1, DOMAIN subtreeCosts)
      <3>1. DOMAIN ChildrenOf(graph, s, i) \subseteq Nat
        BY <2>6
      <3> QED BY <1>1, <2>5, <2>8, <3>1, KnownNext
    <2>15. h \in ExactAssembleFrames(graph, assignment.sel, subtreeCosts)
      BY <2>3, <2>4, <2>9, <2>11, <2>13, <2>14 DEF ExactAssembleFrames, AssembleFrames
    <2>16. stack' \in Seq(ExactAssembleFrames(graph, assignment.sel, subtreeCosts))
      BY <1>1, <1>2, <2>2, <2>15, TopFrame DEF WithTop
    <2>17. AreApart(stack')
      BY <1>1, <1>2, <1>3, <2>2, <2>4, <2>13, ApartTop DEF WithTop
    <2> QED BY <1>1, <1>2, <2>2, <2>16, <2>17, LpCostsGoOn
  <1>6. CASE ~Fits(f.cost, cost)
    <2>1. pc' = "idle" /\ ~info'.ok
      BY <1>3, <1>4, <1>6 DEF AddCost, Fail, NoInfo
    <2> QED BY <2>1, LpCostsElse
  <1> QED BY <1>5, <1>6

\* The e-class is emitted and its cost remembered.
LEMMA LpCostsAssembled ==
  ASSUME ExtractInv, LpCosts, Assembled PROVE LpCosts'
PROOF
  <1>1. pc = "assemble" /\ stack # <<>> /\ ~IsAsking /\ UNCHANGED <<graph, mode, pc, root, assignment>>
        /\ subtreeCosts' = Extend(subtreeCosts, Top.symbol, Top.cost) /\ stack' = Pop(stack)
        /\ Emit(Top.symbol, assignment.sel[Top.symbol])
    BY DEF Assembled
  <1>2. /\ graph \in ExtractGraphs /\ SelOK(graph, assignment.sel) /\ EntriesOK(graph, info)
        /\ DOMAIN subtreeCosts \subseteq Terms(info)
        /\ ExactCosts(graph, assignment.sel, info, subtreeCosts) /\ AreApart(stack)
        /\ stack \in Seq(ExactAssembleFrames(graph, assignment.sel, subtreeCosts))
    BY <1>1, AssembleTop, ExactAssembleTop
  <1>3. PICK f \in ExactAssembleFrames(graph, assignment.sel, subtreeCosts) : f = Top /\ f = stack[Len(stack)]
    BY <1>1, ExactAssembleTop
  <1>4. f \in AssembleFrames(graph, assignment.sel, DOMAIN subtreeCosts) /\ f.symbol \notin DOMAIN subtreeCosts
    BY DEF ExactAssembleFrames
  <1>5a. PICK s \in EClass : \E i : s = f.symbol /\ i = assignment.sel[s] /\ i \in DOMAIN graph.choices[s]
                                    /\ s \in DOMAIN assignment.sel
    BY <1>2, <1>4 DEF AssembleFrames, AssembleFrame, SelOK, UsableChoices
  <1>5. PICK i : s = f.symbol /\ i = assignment.sel[s] /\ i \in DOMAIN graph.choices[s]
                 /\ s \in DOMAIN assignment.sel
    BY <1>5a
  <1>6. f.child \in Nat \ {0} /\ AreKnown(ChildrenOf(graph, s, i), f.child, DOMAIN subtreeCosts)
    BY <1>4, <1>5 DEF AssembleFrames, AssembleFrame, Steps
  <1>7. ChildrenOf(graph, s, i) \in Seq(Symbol) /\ i \in Nat
    BY <1>2, <1>5, ChoiceFacts
  <1>8. f.child \notin DOMAIN ChildrenOf(graph, s, i)
    BY <1>1, <1>3, <1>5, AssembleTop DEF IsAsking
  <1>9. f.child - 1 = Len(ChildrenOf(graph, s, i))
    <2>1. f.child <= Len(ChildrenOf(graph, s, i)) + 1
      BY <1>5 DEF ExactAssembleFrames
    <2> QED BY <1>6, <1>7, <1>8, <2>1
  <1>10. f.cost = FullPrice(graph, subtreeCosts, s, i)
    BY <1>5, <1>9 DEF ExactAssembleFrames, FullPrice
  <1>11. Needs(graph.choices[s][i]) \subseteq DOMAIN subtreeCosts
    <2>1. \A j \in DOMAIN ChildrenOf(graph, s, i) : ChildrenOf(graph, s, i)[j] \in DOMAIN subtreeCosts
      BY <1>6, <1>7, <1>8, KnownAll DEF Steps
    <2> QED BY <2>1 DEF Needs, ChildrenOf
  <1>12. DOMAIN subtreeCosts' = DOMAIN subtreeCosts \cup {s} /\ subtreeCosts'[s] = f.cost
         /\ \A k \in DOMAIN subtreeCosts : subtreeCosts'[k] = subtreeCosts[k]
    BY <1>1, <1>3, <1>4, <1>5 DEF Extend
  <1>13. /\ ExactCosts(graph, assignment.sel, info, subtreeCosts')
         /\ \A h \in ExactAssembleFrames(graph, assignment.sel, subtreeCosts) :
              h.symbol # s => h \in ExactAssembleFrames(graph, assignment.sel, subtreeCosts')
    <2>1. s \notin Input
      BY DEF EClass
    <2> QED BY <1>2, <1>4, <1>5, <1>12, <2>1, AssembledStays
  <1>14. subtreeCosts'[s] = FullPrice(graph, subtreeCosts', s, i)
    BY <1>2, <1>5, <1>10, <1>11, <1>12, FullPriceStays
  <1>15. s \notin Emitted(info)
    BY <1>2, <1>4, <1>5 DEF ExactCosts
  <1>16. IsSelectionMap(info') /\ Entries(info') = Entries(info) \cup {<<s, i>>} /\ AreInPlace(graph, info')
    <2>1. info \in Result /\ IsSelectionMap(info) /\ AreInPlace(graph, info) /\ Emit(s, i)
      BY <1>1, <1>2, <1>3, <1>5 DEF EntriesOK, ExactCosts
    <2> QED BY <1>1, <1>7, <1>15, <2>1, EmitOnce
  <1>17. PICK e : e = <<s, i>> /\ e[1] = s /\ e[2] = i
    <2>1. <<s, i>>[1] = s /\ <<s, i>>[2] = i
      OBVIOUS
    <2> QED BY <2>1, Zenon
  <1>18. Emitted(info') = Emitted(info) \cup {s}
    BY <1>16, <1>17 DEF Emitted
  <1>19. ExactCosts(graph, assignment.sel, info', subtreeCosts')
    <2>1. Needs(graph.choices[s][i]) \subseteq DOMAIN subtreeCosts'
      BY <1>11, <1>12
    <2> QED BY <1>5, <1>12, <1>13, <1>14, <1>16, <1>17, <1>18, <2>1 DEF ExactCosts
  <1>20. AreApart(stack') /\ \A n \in DOMAIN stack' : stack'[n].symbol # s
    BY <1>1, <1>2, <1>3, <1>5, ApartPop
  <1>21. stack' \in Seq(ExactAssembleFrames(graph, assignment.sel, subtreeCosts'))
    <2>1. PICK r : r = stack'
      OBVIOUS
    <2>2. r \in Seq(ExactAssembleFrames(graph, assignment.sel, subtreeCosts))
      BY <1>1, <1>2, <2>1, PopFrame
    <2>3. \A n \in DOMAIN r : r[n] \in ExactAssembleFrames(graph, assignment.sel, subtreeCosts)
      BY <2>2
    <2>4. \A n \in DOMAIN r : r[n] \in ExactAssembleFrames(graph, assignment.sel, subtreeCosts')
      BY <1>13, <1>20, <2>1, <2>3
    <2>5. r \in Seq(ExactAssembleFrames(graph, assignment.sel, subtreeCosts'))
      BY <2>2, <2>4, FramesBecome
    <2> QED BY <2>1, <2>5
  <1> QED BY <1>1, <1>19, <1>20, <1>21, LpCostsGoOn

\* All roots are assembled.
LEMMA LpCostsEnd ==
  ASSUME ExtractInv, LpCosts, EndAssemble PROVE LpCosts'
PROOF
  <1>1. pc = "assemble" /\ stack = <<>> /\ ~IsAsking /\ pc' = "idle"
        /\ UNCHANGED <<graph, mode, root, stack, assignment, subtreeCosts>>
    BY DEF EndAssemble, lpVars
  <1>2. Operands = graph.roots /\ root \notin DOMAIN graph.roots /\ graph.roots \in Seq(Symbol) /\ root \in Steps
    BY <1>1, AssembleTop DEF IsAsking
  <1>3. \A i \in DOMAIN graph.roots : graph.roots[i] \in DOMAIN subtreeCosts
    BY <1>1, <1>2, AssembleTop, KnownAll
  <1>4. PICK costs : costs = [i \in DOMAIN graph.roots |-> subtreeCosts[graph.roots[i]]]
    OBVIOUS
  <1>5. costs \in Seq(0..MaxCost)
    <2>1. \A i \in DOMAIN graph.roots : subtreeCosts[graph.roots[i]] \in 0..MaxCost
      BY <1>1, <1>3, AssembleTop DEF CostsOK
    <2>2. PICK l \in Nat : l = Len(graph.roots) /\ DOMAIN graph.roots = 1..l
      BY <1>2
    <2>3. costs \in [1..l -> 0..MaxCost]
      BY <1>2, <1>4, <2>1, <2>2
    <2> QED BY <2>3, FunctionIsSeq
  <1>6. info' = [info EXCEPT !.ok = TRUE, !.rootCosts = costs]
    BY <1>2, <1>4 DEF EndAssemble
  <1>7. /\ EntriesOK(graph, info) /\ CostsOK(subtreeCosts) /\ DOMAIN subtreeCosts \subseteq Terms(info)
        /\ ExactCosts(graph, assignment.sel, info, subtreeCosts)
    BY <1>1, AssembleTop, ExactAssembleTop
  <1>8. Terms(info') = Terms(info) /\ Entries(info') = Entries(info) /\ info'.rootCosts = costs
    BY <1>5, <1>6, <1>7, ReturnFacts
  <1>9. IsSelectionMap(info') /\ AreInPlace(graph, info')
    BY <1>5, <1>6, <1>7, ReturnsOnce DEF ExactCosts
  <1>10. ExactCosts(graph, assignment.sel, info', subtreeCosts)
    BY <1>7, <1>8, <1>9 DEF ExactCosts, Emitted
  <1> QED BY <1>1, <1>3, <1>4, <1>7, <1>8, <1>10 DEF LpCosts

\* What integer programming assembles costs what it says.
LEMMA LpCostsLp ==
  ASSUME ExtractInv, LpCosts, LpNext PROVE LpCosts'
PROOF
  <1>1. CASE PopulateNode \/ PopulatedNode
    <2>1. pc' = "populate"
      BY <1>1 DEF PopulateNode, PopulatedNode, callVars
    <2> QED BY <2>1, LpCostsElse
  <1>2. CASE SolveFails
    <2>1. pc' = "idle" /\ ~info'.ok
      BY <1>2 DEF SolveFails, Fail, NoInfo
    <2> QED BY <2>1, LpCostsElse
  <1>3. CASE AssembledRoot
    <2>1. pc = "assemble" /\ UNCHANGED <<graph, mode, pc, stack, info, assignment, subtreeCosts>>
      BY <1>3 DEF AssembledRoot, lpVars
    <2> QED BY <2>1, LpCostsGoOn DEF LpCosts
  <1> QED BY <1>1, <1>2, <1>3, LpCostsSolve, LpCostsInput, LpCostsAssemble, LpCostsAdd, LpCostsAssembled, LpCostsEnd
          DEF LpNext

\* What greedy steps do to the call.
LEMMA GreedyIsGreedy ==
  ASSUME ExtractInv, GreedyNext PROVE pc' # "assemble" /\ pc' # "populate" /\ mode' = "greedy" /\ UNCHANGED graph
PROOF
  <1>0. pc \in {"search", "collect"} => mode = "greedy"
    BY DEF ExtractInv, SearchInv, CollectInv
  <1>1. CASE Search \/ CutCycle \/ TryChoice
    BY <1>0, <1>1 DEF Search, CutCycle, TryChoice
  <1>2. CASE AddChild \/ KeepBest
    BY <1>0, <1>2 DEF AddChild, KeepBest
  <1>3. CASE Memoize \/ GiveUp \/ NextRoot \/ EndSearch
    BY <1>0, <1>3 DEF Memoize, GiveUp, NextRoot, EndSearch, Fail
  <1>4. CASE SkipCollected \/ CollectSelected \/ EmitSelected \/ EndCollect
    BY <1>0, <1>4 DEF SkipCollected, CollectSelected, EmitSelected, EndCollect, Fail
  <1> QED BY <1>1, <1>2, <1>3, <1>4 DEF GreedyNext

\* What integer programming returns costs what it says, in every sequence of calls.
LEMMA LpCostsInvariant == ExtractSpec => []LpCosts
PROOF
  <1>1. ExtractInit => LpCosts
    BY DEF ExtractInit, LpCosts, HasSelectedLp, HasSelected
  <1>2. ExtractInv /\ LpCosts /\ [ExtractNext]_extractVars => LpCosts'
    <2> SUFFICES ASSUME ExtractInv, LpCosts, [ExtractNext]_extractVars PROVE LpCosts'
      OBVIOUS
    <2>1. CASE \E m \in Backends : RunExtract(m)
      <3>1. pc' \in {"search", "populate"}
        BY <2>1 DEF RunExtract
      <3> QED BY <3>1, LpCostsElse
    <2>2. CASE GreedyStep
      BY <2>2, GreedyIsGreedy, LpCostsElse DEF GreedyStep
    <2>3. CASE LpStep
      BY <2>3, LpCostsLp DEF LpStep
    <2>4. CASE UNCHANGED extractVars
      BY <2>4 DEF extractVars, callVars, lpVars, LpCosts, HasSelectedLp, HasSelected
    <2> QED BY <2>1, <2>2, <2>3, <2>4 DEF ExtractNext
  <1> QED BY <1>1, <1>2, ExtractInvariant, PTL DEF ExtractSpec

\* The prices of what is assembled, inputs included.
CostPrices(costs) == [s \in Symbol |-> IF s \in Input THEN 0 ELSE costs[s]]

\* The reported costs of integer programming are those of the selected terms.
LEMMA LpRootCosts ==
  ASSUME ExtractInv, LpCosts, HasSelectedLp
  PROVE  RootCostsAreOfTerms
PROOF
  <1>1. /\ graph \in ExtractGraphs /\ EntriesOK(graph, info) /\ Roots(graph) \subseteq Terms(info)
    BY DEF ExtractInv, ExtractTypeOK, IdleInv, HasSelectedLp, HasSelected
  <1>2. /\ ExactCosts(graph, assignment.sel, info, subtreeCosts) /\ CostsOK(subtreeCosts)
        /\ \A i \in DOMAIN graph.roots : /\ graph.roots[i] \in DOMAIN subtreeCosts
                                         /\ info.rootCosts[i] = subtreeCosts[graph.roots[i]]
    BY DEF LpCosts
  <1>3. PICK price : price = CostPrices(subtreeCosts)
    OBVIOUS
  <1>4. \A s \in Input : price[s] = 0
    BY <1>3, NamesFinite DEF CostPrices
  <1>5. \A s \in DOMAIN subtreeCosts : price[s] = subtreeCosts[s]
    BY <1>2, <1>3 DEF CostPrices, ExactCosts, CostsOK
  <1>6. ASSUME NEW e \in Entries(info)
        PROVE  price[e[1]] \in 0..MaxCost /\ price[e[1]] = FullPrice(graph, price, e[1], e[2])
    <2>1a. PICK s \in EClass : \E i : s = e[1] /\ i = e[2] /\ i \in DOMAIN graph.choices[s]
      BY <1>1, EntriesInEClass DEF EntriesOK, UsableChoices
    <2>1. PICK i : s = e[1] /\ i = e[2] /\ i \in DOMAIN graph.choices[s]
      BY <2>1a
    <2>2. /\ s \in DOMAIN subtreeCosts /\ Needs(graph.choices[s][i]) \subseteq DOMAIN subtreeCosts
          /\ subtreeCosts[s] = FullPrice(graph, subtreeCosts, s, i)
      BY <1>2, <2>1 DEF ExactCosts, Emitted
    <2>3. DOMAIN subtreeCosts \subseteq DOMAIN price
      BY <1>2, <1>3 DEF CostPrices, CostsOK
    <2>4. FullPrice(graph, price, s, i) = FullPrice(graph, subtreeCosts, s, i)
      BY <1>1, <1>5, <2>1, <2>2, <2>3, FullPriceStays
    <2> QED BY <1>2, <1>5, <2>1, <2>2, <2>4 DEF CostsOK
  <1>7. PICK cost \in Costings(graph, SelectionMap(info)) : \A s \in Terms(info) : CostOf(cost, s) = price[s]
    BY <1>1, <1>2, <1>4, <1>6, EntriesCost DEF ExactCosts
  <1>8. \A n \in DOMAIN graph.roots : info.rootCosts[n] = CostOf(cost, graph.roots[n])
    BY <1>1, <1>2, <1>5, <1>7 DEF Roots
  <1> QED BY <1>2, <1>7, <1>8 DEF RootCostsAreOfTerms, ExactCosts

(***************************************************************************)
(* Whatever the backend, the graph and the calls before: the reported cost *)
(* of a root is the cost of its selected term, which did not overflow      *)
(* (rootCosts of EGraphExtractInfo).                                       *)
(***************************************************************************)
THEOREM ExtractCosts == ExtractSpec => []RootCostsExact
PROOF
  <1>1. ExtractInv /\ SearchCosts /\ CollectOnce /\ LpCosts => RootCostsExact
    BY GreedyCosts, LpRootCosts DEF RootCostsExact
  <1> QED BY <1>1, ExtractInvariant, SearchCostsInvariant, CollectOnceInvariant, LpCostsInvariant, PTL

-----------------------------------------------------------------------------
(***************************************************************************)
(* Ranks.  Of the choices that are allowed, as many e-classes as possible  *)
(* are given one, each above what it needs: no more can be.                *)
(***************************************************************************)
IsRankedBy(g, allowed, f, rank) ==
  /\ f = [s \in DOMAIN f |-> f[s]]
  /\ rank \in [DOMAIN f -> 1..Cardinality(DOMAIN f)]
  /\ \A s \in DOMAIN f :
       /\ f[s] \in allowed[s]
       /\ \A t \in Needs(g.choices[s][f[s]]) : t \in Input \/ (t \in DOMAIN f /\ rank[t] < rank[s])

\* One more e-class can be ranked when what it needs is.
LEMMA OneMoreRanked ==
  ASSUME NEW g, NEW allowed, NEW f, NEW rank, IsRankedBy(g, allowed, f, rank), IsFiniteSet(DOMAIN f),
         NEW s, s \notin DOMAIN f, NEW i \in allowed[s],
         \A t \in Needs(g.choices[s][i]) : t \in Input \/ t \in DOMAIN f
  PROVE  IsRankedBy(g, allowed, Extend(f, s, i), Extend(rank, s, Cardinality(DOMAIN f) + 1))
PROOF
  <1>1. PICK n \in Nat : n = Cardinality(DOMAIN f)
    BY FS_CardinalityType
  <1>2. PICK h : h = Extend(f, s, i)
    OBVIOUS
  <1>3. PICK r : r = Extend(rank, s, n + 1)
    OBVIOUS
  <1>4. h = [t \in DOMAIN f \cup {s} |-> IF t = s THEN i ELSE f[t]]
    BY <1>2 DEF Extend
  <1>5. DOMAIN h = DOMAIN f \cup {s} /\ h[s] = i /\ (\A t \in DOMAIN f : h[t] = f[t]) /\ h = [t \in DOMAIN h |-> h[t]]
    BY <1>4
  <1>6. Cardinality(DOMAIN h) = n + 1
    BY <1>1, <1>5, FS_AddElement
  <1>7. rank \in [DOMAIN f -> 1..n]
    BY <1>1 DEF IsRankedBy
  <1>8. DOMAIN r = DOMAIN h /\ r[s] = n + 1 /\ \A t \in DOMAIN f : r[t] = rank[t]
    BY <1>3, <1>5, <1>7 DEF Extend
  <1>9. r \in [DOMAIN h -> 1..(n + 1)]
    <2>1. \A t \in DOMAIN f : rank[t] \in 1..(n + 1)
      BY <1>7
    <2>2. r = [t \in DOMAIN h |-> r[t]]
      BY <1>3, <1>5, <1>7 DEF Extend
    <2> QED BY <1>5, <1>8, <2>1, <2>2
  <1>10. ASSUME NEW u \in DOMAIN h
         PROVE  /\ h[u] \in allowed[u]
                /\ \A t \in Needs(g.choices[u][h[u]]) : t \in Input \/ (t \in DOMAIN h /\ r[t] < r[u])
    <2>1. CASE u = s
      <3>1. \A t \in DOMAIN f : r[t] < n + 1
        BY <1>7, <1>8
      <3> QED BY <1>5, <1>8, <2>1, <3>1
    <2>2. CASE u # s
      <3>1. u \in DOMAIN f
        BY <1>5, <2>2
      <3>2. /\ f[u] \in allowed[u]
            /\ \A t \in Needs(g.choices[u][f[u]]) : t \in Input \/ (t \in DOMAIN f /\ rank[t] < rank[u])
        BY <3>1 DEF IsRankedBy
      <3>3. h[u] = f[u] /\ r[u] = rank[u]
        BY <1>5, <1>8, <3>1
      <3> QED BY <1>5, <1>8, <3>2, <3>3
    <2> QED BY <2>1, <2>2
  <1>11. IsRankedBy(g, allowed, h, r)
    BY <1>5, <1>6, <1>9, <1>10 DEF IsRankedBy
  <1> QED BY <1>1, <1>2, <1>3, <1>11

\* The names that are ranked, at most, are closed under what is allowed.
AreAllRanked(g, N, allowed, f) ==
  \A s \in N \cap EClass : \A i \in allowed[s] :
    (\A t \in Needs(g.choices[s][i]) : t \in Input \/ t \in DOMAIN f) => s \in DOMAIN f

\* There is an assignment with ranks that no further e-class could join.
LEMMA MostRanked ==
  ASSUME NEW g, NEW N \in SUBSET Symbol, NEW allowed
  PROVE  \E f, rank :
           IsRankedBy(g, allowed, f, rank) /\ DOMAIN f \subseteq N \cap EClass /\ AreAllRanked(g, N, allowed, f)
PROOF
  <1>1. PICK C : C = N \cap EClass /\ IsFiniteSet(C)
    BY NamesFinite, FS_Subset, FS_Intersection
  <1>2. PICK c \in Nat : c = Cardinality(C)
    BY <1>1, FS_CardinalityType
  <1>3. \A S \in SUBSET C : IsFiniteSet(S) /\ Cardinality(S) \in Nat /\ Cardinality(S) <= c
    BY <1>1, <1>2, FS_Subset, FS_CardinalityType
  <1> DEFINE Some(n) == \E f, rank : /\ IsRankedBy(g, allowed, f, rank) /\ DOMAIN f \subseteq C
                                     /\ Cardinality(DOMAIN f) + n = c
  <1>4. PICK T : T = {n \in Nat : Some(n)}
    OBVIOUS
  <1>5. c \in T
    <2>1. PICK f : f = [s \in {} |-> 0] /\ DOMAIN f = {}
      OBVIOUS
    <2>2. IsRankedBy(g, allowed, f, f)
      BY <2>1 DEF IsRankedBy
    <2>3. Cardinality(DOMAIN f) + c = c
      BY <1>2, <2>1, FS_EmptySet
    <2>4. Some(c)
      BY <2>1, <2>2, <2>3
    <2> QED BY <1>2, <1>4, <2>4
  <1>6. PICK n \in T : \A m \in T : ~(m < n)
    <2>1. T \in SUBSET Nat /\ T # {}
      BY <1>4, <1>5
    <2> QED BY <2>1, LeastNumber, Zenon
  <1>7. n \in Nat /\ Some(n)
    BY <1>4, <1>6
  <1>8. PICK f, rank : IsRankedBy(g, allowed, f, rank) /\ DOMAIN f \subseteq C /\ Cardinality(DOMAIN f) + n = c
    BY <1>7
  <1>9. ASSUME NEW s \in C, NEW i \in allowed[s], s \notin DOMAIN f,
               \A t \in Needs(g.choices[s][i]) : t \in Input \/ t \in DOMAIN f
        PROVE  FALSE
    <2>1. IsFiniteSet(DOMAIN f)
      BY <1>3, <1>8
    <2>2. PICK h, r : h = Extend(f, s, i) /\ IsRankedBy(g, allowed, h, r)
      BY <1>8, <1>9, <2>1, OneMoreRanked
    <2>3. DOMAIN h = DOMAIN f \cup {s}
      BY <2>2 DEF Extend
    <2>4. Cardinality(DOMAIN h) = Cardinality(DOMAIN f) + 1 /\ DOMAIN h \subseteq C
      BY <1>8, <1>9, <2>1, <2>3, FS_AddElement
    <2>5. Cardinality(DOMAIN f) \in Nat /\ Cardinality(DOMAIN h) <= c
      BY <1>3, <1>8, <2>4
    <2>6. n - 1 \in Nat /\ Cardinality(DOMAIN h) + (n - 1) = c
      BY <1>2, <1>7, <1>8, <2>4, <2>5
    <2>7. Some(n - 1)
      BY <2>2, <2>4, <2>6
    <2>8. n - 1 \in T /\ n - 1 < n
      BY <1>4, <1>7, <2>6, <2>7
    <2> QED BY <1>6, <2>8
  <1> HIDE DEF Some
  <1>10. AreAllRanked(g, N, allowed, f)
    BY <1>1, <1>9 DEF AreAllRanked
  <1> QED BY <1>1, <1>8, <1>10

\* The names whose choices are all about names among these, or others that are still to be visited.
IsCovered(g, names, others) ==
  /\ Roots(g) \subseteq names \cup others
  /\ \A s \in names \cap EClass : \A i \in UsableChoices(g, s) : Needs(g.choices[s][i]) \subseteq names \cup others

AssignmentOf(names, f) == [active |-> DOMAIN f \cup (names \cap Input), sel |-> f]

\* What is ranked and has the roots is a feasible assignment.
LEMMA RankedIsFeasible ==
  ASSUME NEW g, NEW N \in SUBSET Symbol, IsCovered(g, N, {}),
         NEW allowed, \A s \in EClass : allowed[s] \subseteq UsableChoices(g, s),
         NEW f, NEW rank, IsRankedBy(g, allowed, f, rank), DOMAIN f \subseteq N \cap EClass,
         Roots(g) \subseteq DOMAIN f \cup Input
  PROVE  AssignmentOf(N, f) \in Assignments(g, N) /\ IsFeasible(g, N, AssignmentOf(N, f))
PROOF
  <1>1. PICK a : a = AssignmentOf(N, f) /\ a.active = DOMAIN f \cup (N \cap Input) /\ a.sel = f
    <2>1. AssignmentOf(N, f).active = DOMAIN f \cup (N \cap Input) /\ AssignmentOf(N, f).sel = f
      BY DEF AssignmentOf
    <2> QED BY <2>1, Zenon
  <1>2. \A s \in DOMAIN f : f[s] \in UsableChoices(g, s) /\ Needs(g.choices[s][f[s]]) \subseteq N
        /\ Needs(g.choices[s][f[s]]) \subseteq DOMAIN f \cup Input
    BY DEF IsRankedBy, IsCovered
  <1>3. a.active \subseteq N /\ a.active \cap EClass = DOMAIN f
    BY <1>1 DEF EClass
  <1>4. f \in Selections(g, DOMAIN f)
    <2>1. f = [s \in DOMAIN f |-> f[s]]
      BY DEF IsRankedBy
    <2>2. \A s \in DOMAIN f : f[s] \in UNION {UsableChoices(g, s1) : s1 \in DOMAIN f}
      BY <1>2
    <2>3. f \in [DOMAIN f -> UNION {UsableChoices(g, s) : s \in DOMAIN f}]
      BY <2>1, <2>2
    <2> QED BY <1>2, <2>3 DEF Selections
  <1>5. a \in Assignments(g, N)
    <2>1. PICK S \in SUBSET N : S = a.active
      BY <1>3
    <2>2. a = [active |-> S, sel |-> f] /\ f \in Selections(g, S \cap EClass)
      BY <1>1, <1>3, <1>4, <2>1 DEF AssignmentOf
    <2>3. PICK X : X = {[active |-> S, sel |-> h] : h \in Selections(g, S \cap EClass)} /\ a \in X
      BY <2>2, Zenon
    <2>4. X \in {{[active |-> A, sel |-> h] : h \in Selections(g, A \cap EClass)} : A \in SUBSET N}
      BY <2>3, Zenon
    <2> QED BY <2>3, <2>4, Zenon DEF Assignments
  <1>6. Roots(g) \subseteq a.active
    BY <1>1 DEF IsCovered
  <1>7. \A s \in DOMAIN a.sel : Needs(g.choices[s][a.sel[s]]) \subseteq a.active
    BY <1>1, <1>2
  <1>8. HasRanks(g, N, f)
    <2>1. PICK n \in Nat, m \in Nat : n = Cardinality(DOMAIN f) /\ m = Cardinality(N) /\ n <= m
      BY NamesFinite, FS_Subset, FS_CardinalityType
    <2>2. rank \in [DOMAIN f -> 1..n]
      BY <2>1 DEF IsRankedBy
    <2>3. rank \in [DOMAIN f -> 0..m]
      BY <2>1, <2>2
    <2>4. \A s \in DOMAIN f : \A t \in Needs(g.choices[s][f[s]]) : (IF t \in Input THEN 0 ELSE rank[t]) < rank[s]
      BY <2>2 DEF IsRankedBy
    <2> QED BY <2>1, <2>3, <2>4 DEF HasRanks
  <1> QED BY <1>1, <1>5, <1>6, <1>7, <1>8 DEF IsFeasible

\* Roots that have terms have a feasible assignment.
LEMMA SolvableIsFeasible ==
  ASSUME NEW g \in ExtractGraphs, NEW N \in SUBSET Symbol, IsCovered(g, N, {}), Roots(g) \subseteq Solvable(g)
  PROVE  \E a \in Assignments(g, N) : IsFeasible(g, N, a)
PROOF
  <1>1. PICK allowed : allowed = [s \in EClass |-> UsableChoices(g, s)]
    OBVIOUS
  <1>2. PICK f, rank :
          IsRankedBy(g, allowed, f, rank) /\ DOMAIN f \subseteq N \cap EClass /\ AreAllRanked(g, N, allowed, f)
    BY MostRanked
  <1>3. PICK C \in SUBSET Symbol : C = (Symbol \ N) \cup DOMAIN f \cup Input
    BY <1>2, NamesFinite DEF EClass
  <1>4. ASSUME NEW s \in EClass, NEW i \in UsableChoices(g, s), Needs(g.choices[s][i]) \subseteq C
        PROVE  s \in C
    <2> SUFFICES ASSUME s \in N PROVE s \in DOMAIN f
      BY <1>3 DEF EClass
    <2>1. Needs(g.choices[s][i]) \subseteq N
      BY DEF IsCovered
    <2>2. \A t \in Needs(g.choices[s][i]) : t \in Input \/ t \in DOMAIN f
      BY <1>3, <1>4, <2>1
    <2> QED BY <1>1, <1>2, <2>2 DEF AreAllRanked
  <1>5. IsClosed(g, C)
    BY <1>3, <1>4 DEF IsClosed
  <1>6. Roots(g) \subseteq DOMAIN f \cup Input
    BY <1>3, <1>5 DEF Solvable, IsCovered
  <1>7. \A s \in EClass : allowed[s] \subseteq UsableChoices(g, s)
    BY <1>1
  <1> QED BY <1>2, <1>6, <1>7, RankedIsFeasible

\* An extraction of the roots contains a feasible assignment.
LEMMA ExtractionIsFeasible ==
  ASSUME NEW g \in ExtractGraphs, NEW N \in SUBSET Symbol, IsCovered(g, N, {}),
         NEW sel \in Extractions(g, Roots(g))
  PROVE  \E a \in Assignments(g, N) :
           /\ IsFeasible(g, N, a)
           /\ DOMAIN a.sel \subseteq DOMAIN sel
           /\ \A s \in DOMAIN a.sel : a.sel[s] = sel[s]
PROOF
  <1>1. PICK allowed : allowed = [s \in EClass |-> IF s \in DOMAIN sel THEN {sel[s]} ELSE {}]
    OBVIOUS
  <1>2. PICK f, rank :
          IsRankedBy(g, allowed, f, rank) /\ DOMAIN f \subseteq N \cap EClass /\ AreAllRanked(g, N, allowed, f)
    BY MostRanked
  <1>3. PICK C \in SUBSET Symbol : C = (Symbol \ N) \cup DOMAIN f \cup Input
    BY <1>2, NamesFinite DEF EClass
  <1>4. /\ DOMAIN sel \subseteq EClass /\ \A s \in DOMAIN sel : sel[s] \in UsableChoices(g, s)
        /\ Roots(g) \subseteq Grounded(g, sel)
    <2>1. PICK S \in SUBSET EClass : sel \in Selections(g, S)
      BY DEF Extractions
    <2>2. DOMAIN sel = S /\ \A s \in S : sel[s] \in UsableChoices(g, s)
      BY <2>1 DEF Selections
    <2> QED BY <2>2 DEF Extractions
  <1>5. ASSUME NEW s \in DOMAIN sel, Needs(g.choices[s][sel[s]]) \subseteq C
        PROVE  s \in C
    <2> SUFFICES ASSUME s \in N PROVE s \in DOMAIN f
      BY <1>3, <1>4 DEF EClass
    <2>1. Needs(g.choices[s][sel[s]]) \subseteq N
      BY <1>4 DEF IsCovered
    <2>2. \A t \in Needs(g.choices[s][sel[s]]) : t \in Input \/ t \in DOMAIN f
      BY <1>3, <1>5, <2>1
    <2>3. s \in N \cap EClass /\ sel[s] \in allowed[s]
      BY <1>1, <1>4
    <2> QED BY <1>2, <2>2, <2>3 DEF AreAllRanked
  <1>6. IsClosedUnder(g, sel, C)
    BY <1>3, <1>5 DEF IsClosedUnder
  <1>7. Roots(g) \subseteq DOMAIN f \cup Input
    BY <1>3, <1>4, <1>6 DEF Grounded, IsCovered
  <1>8. \A s \in EClass : allowed[s] \subseteq UsableChoices(g, s)
    BY <1>1, <1>4
  <1>9. AssignmentOf(N, f) \in Assignments(g, N) /\ IsFeasible(g, N, AssignmentOf(N, f))
    BY <1>2, <1>7, <1>8, RankedIsFeasible
  <1>10. AssignmentOf(N, f).sel = f
    BY DEF AssignmentOf
  <1>11. \A s \in DOMAIN f : s \in DOMAIN sel /\ f[s] = sel[s]
    <2>1. \A s \in DOMAIN f : s \in EClass /\ f[s] \in allowed[s]
      BY <1>2 DEF IsRankedBy
    <2> QED BY <1>1, <2>1
  <1> QED BY <1>9, <1>10, <1>11

-----------------------------------------------------------------------------
\* The lexicographic order of the objectives.

\* A finite set has an element that no other precedes.
LEMMA FiniteHasMinimum ==
  ASSUME NEW T, IsFiniteSet(T), T # {}, NEW R, \A x \in T : <<x, x>> \notin R,
         \A x, y, z \in T : <<x, y>> \in R /\ <<y, z>> \in R => <<x, z>> \in R
  PROVE  \E x \in T : \A y \in T : <<y, x>> \notin R
PROOF
  <1> DEFINE Below(x) == {y \in T : <<y, x>> \in R}
  <1>1. \A x \in T : IsFiniteSet(Below(x)) /\ Cardinality(Below(x)) \in Nat
    <2> TAKE x \in T
    <2>1. Below(x) \in SUBSET T
      OBVIOUS
    <2> HIDE DEF Below
    <2> QED BY <2>1, FS_Subset, FS_CardinalityType
  <1>2. PICK Q : Q = {Cardinality(Below(x)) : x \in T} /\ Q # {} /\ Q \in SUBSET Nat
    <2> HIDE DEF Below
    <2>1. PICK Q : Q = {Cardinality(Below(x)) : x \in T}
      OBVIOUS
    <2>2. Q \in SUBSET Nat
      BY <1>1, <2>1
    <2>3. Q # {}
      BY <2>1
    <2> QED BY <2>1, <2>2, <2>3
  <1>3. PICK n \in Q : \A m \in Q : ~(m < n)
    BY <1>2, LeastNumber, Zenon
  <1>4. PICK x \in T : n = Cardinality(Below(x))
    BY <1>2
  <1>5. ASSUME NEW y \in T, <<y, x>> \in R PROVE FALSE
    <2>1. Below(y) \in SUBSET Below(x)
      BY <1>5
    <2>2. y \in Below(x) /\ y \notin Below(y)
      BY <1>5
    <2> HIDE DEF Below
    <2>3. Cardinality(Below(y)) <= Cardinality(Below(x)) /\ Cardinality(Below(y)) # Cardinality(Below(x))
      BY <1>1, <2>1, <2>2, FS_Subset
    <2>4. Cardinality(Below(y)) \in Q
      BY <1>2
    <2> QED BY <1>1, <1>3, <1>4, <2>3, <2>4
  <1> QED BY <1>5

\* The order of the indices of objectives.
LEMMA BeforeFacts ==
  ASSUME NEW p \in Nat \X Nat, NEW q \in Nat \X Nat
  PROVE  /\ ~IsBefore(p, p)
         /\ IsBefore(p, q) \/ IsBefore(q, p) \/ p = q
         /\ \A r \in Nat \X Nat : IsBefore(p, q) /\ IsBefore(q, r) => IsBefore(p, r)
PROOF
  <1>1. p = <<p[1], p[2]>> /\ q = <<q[1], q[2]>> /\ p[1] \in Nat /\ p[2] \in Nat /\ q[1] \in Nat /\ q[2] \in Nat
    OBVIOUS
  <1>2. \A r \in Nat \X Nat : r[1] \in Nat /\ r[2] \in Nat
    OBVIOUS
  <1> QED BY <1>1, <1>2 DEF IsBefore

\* Nothing is less than itself.
LEMMA LexIrreflexive ==
  ASSUME NEW P \in SUBSET (Nat \X Nat), NEW x \in [P -> Nat]
  PROVE  ~IsLexLess(x, x)
  BY DEF IsLexLess

\* What is less than something less is less.
LEMMA LexTransitive ==
  ASSUME NEW P \in SUBSET (Nat \X Nat), NEW x \in [P -> Nat], NEW y \in [P -> Nat], NEW z \in [P -> Nat],
         IsLexLess(x, y), IsLexLess(y, z)
  PROVE  IsLexLess(x, z)
PROOF
  <1>1. PICK p \in P : x[p] < y[p] /\ \A r \in P : IsBefore(r, p) => x[r] = y[r]
    BY DEF IsLexLess
  <1>2. PICK q \in P : y[q] < z[q] /\ \A r \in P : IsBefore(r, q) => y[r] = z[r]
    BY DEF IsLexLess
  <1>3. p \in Nat \X Nat /\ q \in Nat \X Nat /\ DOMAIN x = P
    OBVIOUS
  <1>4. CASE IsBefore(p, q)
    <2>1. x[p] < z[p]
      BY <1>1, <1>2, <1>4
    <2>2. \A r \in P : IsBefore(r, p) => x[r] = z[r]
      <3> TAKE r \in P
      <3>1. IsBefore(r, p) => IsBefore(r, q)
        BY <1>3, <1>4, BeforeFacts
      <3> QED BY <1>1, <1>2, <3>1
    <2> QED BY <1>3, <2>1, <2>2 DEF IsLexLess
  <1>5. CASE IsBefore(q, p)
    <2>1. x[q] < z[q]
      BY <1>1, <1>2, <1>5
    <2>2. \A r \in P : IsBefore(r, q) => x[r] = z[r]
      <3> TAKE r \in P
      <3>1. IsBefore(r, q) => IsBefore(r, p)
        BY <1>3, <1>5, BeforeFacts
      <3> QED BY <1>1, <1>2, <3>1
    <2> QED BY <1>3, <2>1, <2>2 DEF IsLexLess
  <1>6. CASE p = q
    <2>1. x[p] \in Nat /\ y[p] \in Nat /\ z[p] \in Nat
      OBVIOUS
    <2>2. x[p] < z[p]
      BY <1>1, <1>2, <1>6, <2>1
    <2> QED BY <1>1, <1>2, <1>3, <1>6, <2>2 DEF IsLexLess
  <1> QED BY <1>3, <1>4, <1>5, <1>6, BeforeFacts

\* Of two that differ one is less.
LEMMA LexTotal ==
  ASSUME NEW P \in SUBSET (Nat \X Nat), NEW x \in [P -> Nat], NEW y \in [P -> Nat], x # y
  PROVE  IsLexLess(x, y) \/ IsLexLess(y, x)
PROOF
  <1>1. PICK D : D = {p \in P : x[p] # y[p]} /\ D # {}
    <2>1. PICK D : D = {p \in P : x[p] # y[p]}
      OBVIOUS
    <2>2. D # {}
      BY <2>1
    <2> QED BY <2>1, <2>2
  <1>2. \A p \in D : p \in P /\ p[1] \in Nat /\ p[2] \in Nat /\ p = <<p[1], p[2]>>
    BY <1>1
  <1>3. PICK n \in {p[1] : p \in D} : \A m \in {p[1] : p \in D} : ~(m < n)
    <2>1. {p[1] : p \in D} \in SUBSET Nat /\ {p[1] : p \in D} # {}
      BY <1>1, <1>2
    <2> QED BY <2>1, LeastNumber
  <1>4. PICK E : E = {p[2] : p \in {q \in D : q[1] = n}} /\ E # {} /\ E \in SUBSET Nat
    <2>1. PICK E : E = {p[2] : p \in {q \in D : q[1] = n}}
      OBVIOUS
    <2>2. PICK p \in D : p[1] = n
      BY <1>3
    <2>3. p[2] \in E
      BY <2>1, <2>2
    <2>4. E \in SUBSET Nat
      BY <1>2, <2>1
    <2> QED BY <2>1, <2>3, <2>4
  <1>5. PICK i \in E : \A m \in E : ~(m < i)
    BY <1>4, LeastNumber
  <1>6. PICK p \in D : p[1] = n /\ p[2] = i
    BY <1>4, <1>5
  <1>7. ASSUME NEW q \in P, IsBefore(q, p) PROVE x[q] = y[q]
    <2> SUFFICES ASSUME q \in D PROVE FALSE
      BY <1>1
    <2>1. q[1] \in Nat /\ q[2] \in Nat /\ ~(q[1] < p[1])
      BY <1>2, <1>3, <1>6
    <2>2. q[1] = p[1] /\ q[2] < p[2]
      BY <1>7, <2>1 DEF IsBefore
    <2>3. q[2] \in E
      BY <1>4, <1>6, <2>2
    <2> QED BY <1>5, <1>6, <2>2, <2>3
  <1>8. p \in P /\ x[p] # y[p] /\ x[p] \in Nat /\ y[p] \in Nat /\ DOMAIN x = P /\ DOMAIN y = P
    BY <1>1
  <1>9. x[p] < y[p] \/ y[p] < x[p]
    BY <1>8
  <1> QED BY <1>7, <1>8, <1>9 DEF IsLexLess

\* What an assignment selects costs something for each name.
LEMMA SelectedCostNat ==
  ASSUME NEW g \in ExtractGraphs, NEW sel, SelOK(g, sel)
  PROVE  \A s : SelectedCost(g, sel, s) \in Nat
PROOF
  <1>1. ASSUME NEW s \in DOMAIN sel PROVE g.choices[s][sel[s]].cost \in Nat
    <2>1. s \in EClass /\ sel[s] \in DOMAIN g.choices[s] /\ IsUsable(g.choices[s][sel[s]])
      BY DEF SelOK, UsableChoices
    <2>2. g.choices[s][sel[s]].cost \in NoCost..MaxCost
      BY <2>1, ChoiceFacts
    <2> QED BY <2>1, <2>2, MaxCostOK DEF IsUsable, NoCost
  <1> QED BY <1>1 DEF SelectedCost

\* A selection costs a number, and not more than one that contains it.
LEMMA DagCostFacts ==
  ASSUME NEW g \in ExtractGraphs, NEW order \in Seq(Symbol), NEW sel, SelOK(g, sel)
  PROVE  /\ DagCost(g, order, sel) \in Nat
         /\ \A other : SelOK(g, other) /\ DOMAIN other \subseteq DOMAIN sel
                       /\ (\A s \in DOMAIN other : other[s] = sel[s])
                       => DagCost(g, order, other) <= DagCost(g, order, sel)
PROOF
  <1>1. PICK l \in Nat : l = Len(order) /\ DOMAIN order = 1..l
    OBVIOUS
  <1>2. PICK costs : costs = [n \in DOMAIN order |-> SelectedCost(g, sel, order[n])]
    OBVIOUS
  <1>3. \A i \in 1..l : costs[i] \in Nat
    BY <1>1, <1>2, SelectedCostNat
  <1>4. DagCost(g, order, sel) = SumTo(0, costs, l)
    BY <1>1, <1>2 DEF DagCost
  <1>5. SumTo(0, costs, l) \in Nat
    <2>1. 0 \in Nat /\ l \in 0..l
      BY <1>1
    <2> QED BY <1>1, <1>3, <2>1, SumNat
  <1>6. ASSUME NEW other, SelOK(g, other), DOMAIN other \subseteq DOMAIN sel, \A s \in DOMAIN other : other[s] = sel[s]
        PROVE  DagCost(g, order, other) <= DagCost(g, order, sel)
    <2>1. PICK others : others = [n \in DOMAIN order |-> SelectedCost(g, other, order[n])]
      OBVIOUS
    <2>2. \A i \in 1..l : others[i] \in Nat
      BY <1>1, <1>6, <2>1, SelectedCostNat
    <2>3. \A s : SelectedCost(g, other, s) = SelectedCost(g, sel, s) \/ SelectedCost(g, other, s) = 0
      BY <1>6 DEF SelectedCost
    <2>4. \A i \in 1..l : others[i] <= costs[i]
      <3> TAKE i \in 1..l
      <3>1. others[i] = SelectedCost(g, other, order[i]) /\ costs[i] = SelectedCost(g, sel, order[i])
        BY <1>1, <1>2, <2>1
      <3>2. others[i] = costs[i] \/ others[i] = 0
        BY <2>3, <3>1
      <3> QED BY <1>3, <2>2, <3>2
    <2>5. SumTo(0, others, l) <= SumTo(0, costs, l)
      BY <1>3, <2>2, <2>4, SumMonotone
    <2>6. DagCost(g, order, other) = SumTo(0, others, l)
      BY <1>1, <2>1 DEF DagCost
    <2> QED BY <1>4, <2>5, <2>6
  <1> QED BY <1>4, <1>5, <1>6

\* The objectives are numbers.
LEMMA ObjectivesFacts ==
  ASSUME NEW g \in ExtractGraphs, NEW order \in Seq(Symbol), NEW a \in Assignments(g, RangeOf(order))
  PROVE  /\ Objective(g, order) \in SUBSET (Nat \X Nat)
         /\ Objectives(g, order, a) \in [Objective(g, order) -> Nat]
         /\ <<0, 1>> \in Objective(g, order) /\ <<0, 2>> \in Objective(g, order)
         /\ Objectives(g, order, a)[<<0, 1>>] = DagCost(g, order, a.sel)
         /\ Objectives(g, order, a)[<<0, 2>>] = Cardinality(a.active)
         /\ IsFiniteSet(a.active)
         /\ \A n \in DOMAIN order : order[n] \in EClass => \A i \in UsableChoices(g, order[n]) :
              /\ <<n, i>> \in Objective(g, order)
              /\ IsChosen(a.sel, order[n], i) <=> Objectives(g, order, a)[<<n, i>>] = 0
PROOF
  <1>1. PICK P : P = Objective(g, order)
    OBVIOUS
  <1>2. P \in SUBSET (Nat \X Nat)
    <2>1. ASSUME NEW n \in DOMAIN order, order[n] \in EClass, NEW i \in UsableChoices(g, order[n])
          PROVE  <<n, i>> \in Nat \X Nat
      <3>1. i \in DOMAIN g.choices[order[n]]
        BY DEF UsableChoices
      <3>2. i \in Nat
        BY <2>1, <3>1, ChoiceFacts
      <3> QED BY <3>2
    <2>2. \A p \in P : p \in {<<0, 1>>, <<0, 2>>, <<0, 3>>} \/
                       \E n \in DOMAIN order : order[n] \in EClass /\ \E i \in UsableChoices(g, order[n]) : p = <<n, i>>
      BY <1>1 DEF Objective
    <2> QED BY <2>1, <2>2
  <1>3. <<0, 1>> \in P /\ <<0, 2>> \in P
    BY <1>1 DEF Objective
  <1>4. \A n \in DOMAIN order : order[n] \in EClass => \A i \in UsableChoices(g, order[n]) : <<n, i>> \in P
    BY <1>1 DEF Objective
  <1>5. SelOK(g, a.sel) /\ a.active \subseteq RangeOf(order) /\ DOMAIN a.sel = a.active \cap EClass
    BY AssignmentSelects
  <1>6. IsFiniteSet(a.active) /\ IsFiniteSet(DOMAIN a.sel) /\ Cardinality(a.active) \in Nat /\ Cardinality(DOMAIN a.sel) \in Nat
    <2>1. RangeOf(order) \in SUBSET Symbol
      BY DEF RangeOf
    <2>2. a.active \in SUBSET Symbol /\ DOMAIN a.sel \in SUBSET Symbol
      BY <1>5, <2>1
    <2>3. IsFiniteSet(a.active) /\ IsFiniteSet(DOMAIN a.sel)
      BY <2>2, FS_Subset, NamesFinite
    <2> QED BY <2>3, FS_CardinalityType
  <1>7. DagCost(g, order, a.sel) \in Nat
    BY <1>5, DagCostFacts
  <1>8. PICK x : x = Objectives(g, order, a)
    OBVIOUS
  <1>9. /\ DOMAIN x = P
        /\ \A p \in P : x[p] = IF p = <<0, 1>> THEN DagCost(g, order, a.sel)
                               ELSE IF p = <<0, 2>> THEN Cardinality(a.active)
                               ELSE IF p = <<0, 3>> THEN Cardinality(DOMAIN a.sel)
                               ELSE IF IsChosen(a.sel, order[p[1]], p[2]) THEN 0 ELSE 1
        /\ x = [p \in P |-> x[p]]
    BY <1>1, <1>8 DEF Objectives
  <1>10. \A p \in P : x[p] \in Nat
    BY <1>6, <1>7, <1>9
  <1>11. x[<<0, 1>>] = DagCost(g, order, a.sel) /\ x[<<0, 2>>] = Cardinality(a.active)
    BY <1>3, <1>9
  <1>12. ASSUME NEW n \in DOMAIN order, order[n] \in EClass, NEW i \in UsableChoices(g, order[n])
         PROVE  IsChosen(a.sel, order[n], i) <=> x[<<n, i>>] = 0
    <2>a. <<n, i>>[1] = n /\ <<n, i>>[2] = i
      OBVIOUS
    <2>b. <<n, i>> \in P
      BY <1>4, <1>12, Zenon
    <2>1. PICK p : p = <<n, i>> /\ p \in P /\ p[1] = n /\ p[2] = i
      BY <2>a, <2>b, Zenon
    <2>2. n # 0
      OBVIOUS
    <2>3. p # <<0, 1>> /\ p # <<0, 2>> /\ p # <<0, 3>>
      BY <2>1, <2>2
    <2>4. x[p] = IF IsChosen(a.sel, order[n], i) THEN 0 ELSE 1
      BY <1>9, <2>1, <2>3
    <2> QED BY <2>1, <2>4
  <1>13. x \in [P -> Nat]
    BY <1>9, <1>10
  <1> QED BY <1>1, <1>2, <1>3, <1>4, <1>6, <1>8, <1>11, <1>12, <1>13

-----------------------------------------------------------------------------
(***************************************************************************)
(* The solver finds a best assignment when there is a feasible one: there  *)
(* are finitely many assignments.                                          *)
(***************************************************************************)
\* The numbers of all choices.
LEMMA ChoicesFinite ==
  ASSUME NEW g \in ExtractGraphs
  PROVE  \E U : IsFiniteSet(U) /\ \A s \in EClass : DOMAIN g.choices[s] \subseteq U
PROOF
  <1>1. PICK D : D = {DOMAIN g.choices[s] : s \in EClass}
    OBVIOUS
  <1>2. IsFiniteSet(EClass)
    <2>1. EClass \in SUBSET Symbol
      BY DEF EClass
    <2> QED BY <2>1, FS_Subset, NamesFinite
  <1>3. PICK f : f = [s \in EClass |-> DOMAIN g.choices[s]]
    OBVIOUS
  <1>4. f \in Surjection(EClass, D)
    BY <1>1, <1>3 DEF Surjection
  <1>5. IsFiniteSet(D)
    BY <1>2, <1>4, FS_Surjection
  <1>6. ASSUME NEW T \in D PROVE IsFiniteSet(T)
    <2>1. PICK s \in EClass : T = DOMAIN g.choices[s]
      BY <1>1
    <2>2. g.choices[s] \in Seq(Choice)
      BY GraphsClean DEF IsCleanGraph
    <2>3. PICK l \in Nat : T = 1..l
      BY <2>1, <2>2
    <2> QED BY <2>3, FS_Interval
  <1>7. IsFiniteSet(UNION D)
    BY <1>5, <1>6, FS_UNION
  <1>8. \A s \in EClass : DOMAIN g.choices[s] \subseteq UNION D
    BY <1>1
  <1> QED BY <1>7, <1>8

\* What an assignment selects, as pairs.
PairsOf(f) == {<<s, f[s]>> : s \in DOMAIN f}

\* A function is known by its pairs.
LEMMA SamePairs ==
  ASSUME NEW S, NEW f, NEW h, f = [s \in S |-> f[s]], h = [s \in S |-> h[s]], PairsOf(f) = PairsOf(h)
  PROVE  f = h
PROOF
  <1>1. ASSUME NEW s \in S PROVE f[s] = h[s]
    <2>1. <<s, f[s]>> \in PairsOf(h)
      BY DEF PairsOf
    <2>2. PICK t \in S : <<s, f[s]>> = <<t, h[t]>>
      BY <2>1 DEF PairsOf
    <2> QED BY <2>2
  <1> QED BY <1>1

\* There are finitely many assignments.
LEMMA AssignmentsFinite ==
  ASSUME NEW g \in ExtractGraphs, NEW N \in SUBSET Symbol
  PROVE  IsFiniteSet(Assignments(g, N))
PROOF
  <1>1. PICK U : IsFiniteSet(U) /\ \A s \in EClass : DOMAIN g.choices[s] \subseteq U
    BY ChoicesFinite
  <1>2. PICK A : A = Assignments(g, N)
    OBVIOUS
  <1>3. PICK X : X = SUBSET (Symbol \X U)
    OBVIOUS
  <1>4. IsFiniteSet(SUBSET N) /\ IsFiniteSet(X)
    <2>1. IsFiniteSet(N)
      BY NamesFinite, FS_Subset
    <2>2. IsFiniteSet(Symbol \X U)
      BY <1>1, NamesFinite, FS_Product
    <2> QED BY <1>3, <2>1, <2>2, FS_SUBSET
  <1>5. IsFiniteSet((SUBSET N) \X X)
    BY <1>4, FS_Product
  <1>6. ASSUME NEW a \in A
        PROVE  /\ a.active \in SUBSET N
               /\ a = [active |-> a.active, sel |-> a.sel]
               /\ a.sel = [s \in a.active \cap EClass |-> a.sel[s]]
               /\ PairsOf(a.sel) \in X
    <2>1. PICK S \in SUBSET N : a \in {[active |-> S, sel |-> f] : f \in Selections(g, S \cap EClass)}
      BY <1>2 DEF Assignments
    <2>2. PICK f \in Selections(g, S \cap EClass) : a = [active |-> S, sel |-> f]
      BY <2>1
    <2>3. f = [s \in S \cap EClass |-> f[s]] /\ \A s \in S \cap EClass : f[s] \in UsableChoices(g, s)
      BY DEF Selections
    <2>4. \A s \in S \cap EClass : s \in Symbol /\ f[s] \in U
      BY <1>1, <2>3 DEF UsableChoices
    <2>5. PairsOf(f) \subseteq Symbol \X U
      BY <2>3, <2>4 DEF PairsOf
    <2>6. a.active = S /\ a.sel = f
      BY <2>2
    <2> QED BY <1>3, <2>2, <2>3, <2>5, <2>6
  <1>7. PICK h : h = [a \in A |-> <<a.active, PairsOf(a.sel)>>]
    OBVIOUS
  <1>8. h \in [A -> (SUBSET N) \X X]
    BY <1>6, <1>7
  <1>9. ASSUME NEW a \in A, NEW b \in A, h[a] = h[b] PROVE a = b
    <2>1. a.active = b.active /\ PairsOf(a.sel) = PairsOf(b.sel)
      BY <1>7, <1>9
    <2>2. a.sel = b.sel
      <3>1. PICK S : S = a.active \cap EClass
        OBVIOUS
      <3>2. a.sel = [s \in S |-> a.sel[s]] /\ b.sel = [s \in S |-> b.sel[s]]
        BY <1>6, <2>1, <3>1
      <3> QED BY <2>1, <3>2, SamePairs, Zenon
    <2> QED BY <1>6, <2>1, <2>2
  <1>10. h \in Injection(A, (SUBSET N) \X X)
    BY <1>8, <1>9 DEF Injection, IsInjective
  <1> QED BY <1>2, <1>5, <1>10, FS_Injection

\* A best assignment is a feasible one that no other betters.
LEMMA BestIsBest ==
  ASSUME NEW g, NEW order
  PROVE  BestAssignments(g, order) = BestOf(g, order, FeasibleAssignments(g, order))
PROOF
  <1> QED BY DEF BestAssignments

\* Where some assignment is feasible there is a best one.
LEMMA BestExists ==
  ASSUME NEW g \in ExtractGraphs, NEW order \in Seq(Symbol), FeasibleAssignments(g, order) # {}
  PROVE  BestAssignments(g, order) # {}
PROOF
  <1>1. PICK T : T = FeasibleAssignments(g, order)
    OBVIOUS
  <1>2. PICK R : R = {p \in T \X T : IsLexLess(Objectives(g, order, p[1]), Objectives(g, order, p[2]))}
    OBVIOUS
  <1>3. PICK P : P = Objective(g, order)
    OBVIOUS
  <1>4. T \subseteq Assignments(g, RangeOf(order))
    BY <1>1 DEF FeasibleAssignments
  <1>5. IsFiniteSet(T)
    <2>1. RangeOf(order) \in SUBSET Symbol
      BY DEF RangeOf
    <2> QED BY <1>4, <2>1, AssignmentsFinite, FS_Subset
  <1>6. \A a \in T : P \in SUBSET (Nat \X Nat) /\ Objectives(g, order, a) \in [P -> Nat]
    BY <1>3, <1>4, ObjectivesFacts
  <1>7. \A a, b \in T : <<a, b>> \in R <=> IsLexLess(Objectives(g, order, a), Objectives(g, order, b))
    <2> TAKE a, b \in T
    <2>1. <<a, b>>[1] = a /\ <<a, b>>[2] = b /\ <<a, b>> \in T \X T
      OBVIOUS
    <2> QED BY <1>2, <2>1, Zenon
  <1>8. \A x \in T : <<x, x>> \notin R
    BY <1>6, <1>7, LexIrreflexive
  <1>9. \A x, y, z \in T : <<x, y>> \in R /\ <<y, z>> \in R => <<x, z>> \in R
    BY <1>6, <1>7, LexTransitive
  <1>10. PICK x \in T : \A y \in T : <<y, x>> \notin R
    <2>1. T # {}
      BY <1>1
    <2> QED BY <1>5, <1>8, <1>9, <2>1, FiniteHasMinimum, Zenon
  <1>11. x \in BestOf(g, order, T)
    BY <1>7, <1>10 DEF BestOf
  <1> QED BY <1>1, <1>11, BestIsBest

\* The names that are populated can all be solved for.
LEMMA SolvableHasBest ==
  ASSUME NEW g \in ExtractGraphs, NEW order \in Seq(Symbol), IsCovered(g, RangeOf(order), {}),
         Roots(g) \subseteq Solvable(g)
  PROVE  BestAssignments(g, order) # {}
PROOF
  <1>1. RangeOf(order) \in SUBSET Symbol
    BY DEF RangeOf
  <1>2. PICK a \in Assignments(g, RangeOf(order)) : IsFeasible(g, RangeOf(order), a)
    BY <1>1, SolvableIsFeasible
  <1>3. a \in FeasibleAssignments(g, order)
    BY <1>2 DEF FeasibleAssignments
  <1> QED BY <1>3, BestExists

-----------------------------------------------------------------------------
(***************************************************************************)
(* What integer programming succeeds with: all names that matter become    *)
(* nodes, the assignment is a best one, and assembling what it selects     *)
(* meets neither a cycle nor a name without a choice, because of the       *)
(* ranks; only a sum may not fit.                                          *)
(***************************************************************************)
Pending(t) == UNION {RangeOf(t[i]) : i \in DOMAIN t}

\* The roots, and what the selected choices need.
Needed(g, sel) == Roots(g) \cup UNION {Needs(g.choices[s][sel[s]]) : s \in DOMAIN sel}

IsRanking(g, sel, rank) ==
  /\ rank \in [DOMAIN sel -> Nat]
  /\ \A s \in DOMAIN sel : \A t \in Needs(g.choices[s][sel[s]]) : t \notin Input => rank[t] < rank[s]

FallsAlong(rank, frames) ==
  \A m, n \in DOMAIN frames : m < n => rank[frames[n].symbol] < rank[frames[m].symbol]

PopulateOutcome ==
  /\ nodes \in Seq(Symbol)
  /\ todo \in Seq(Seq(Symbol))
  /\ IsCovered(graph, RangeOf(nodes), Pending(todo))
  /\ ~overflowed

SolvedOutcome ==
  /\ nodes \in Seq(Symbol)
  /\ IsCovered(graph, RangeOf(nodes), {})
  /\ assignment \in BestAssignments(graph, nodes)
  /\ ~SolverOverflows
  /\ ~overflowed
  /\ DOMAIN subtreeCosts \subseteq Needed(graph, assignment.sel)

AssembleOutcome ==
  /\ \A n \in DOMAIN stack : stack[n].symbol \in Needed(graph, assignment.sel)
  /\ \A rank : IsRanking(graph, assignment.sel, rank) => FallsAlong(rank, stack)

IsLp(m) == m \in {"z3-lp", "or-tools-lp"}

LpOutcome ==
  /\ pc = "populate" => PopulateOutcome
  /\ pc = "assemble" \/ HasSelectedLp => SolvedOutcome
  /\ pc = "assemble" => AssembleOutcome
  /\ pc = "idle" /\ IsLp(mode) /\ ~info.ok =>
       SolverOverflows \/ overflowed \/ ~(Roots(graph) \subseteq Solvable(graph))

\* What is pending after a sequence is taken apart or put in front.
LEMMA PendingFacts ==
  ASSUME NEW t \in Seq(Seq(Symbol))
  PROVE  /\ \A u \in Seq(Seq(Symbol)) : Pending(u \o t) = Pending(u) \cup Pending(t)
         /\ t # <<>> => /\ Head(t) \in Seq(Symbol)
                        /\ Tail(t) \in Seq(Seq(Symbol))
                        /\ Pending(t) = RangeOf(Head(t)) \cup Pending(Tail(t))
PROOF
  <1>1. ASSUME NEW u \in Seq(Seq(Symbol)) PROVE Pending(u \o t) = Pending(u) \cup Pending(t)
    <2>1. PICK l \in Nat, k \in Nat : Len(u) = l /\ Len(t) = k /\ DOMAIN u = 1..l /\ DOMAIN t = 1..k
      OBVIOUS
    <2>2. PICK v : v = u \o t
      OBVIOUS
    <2>3. /\ DOMAIN v = 1..(l + k)
          /\ \A i \in 1..l : v[i] = u[i]
          /\ \A i \in 1..k : v[l + i] = t[i]
      <3>1. v \in Seq(Seq(Symbol)) /\ Len(v) = l + k
        BY <2>1, <2>2, ConcatProperties, Zenon
      <3>2. \A i \in 1..(l + k) : v[i] = IF i <= l THEN u[i] ELSE t[i - l]
        BY <2>1, <2>2, ConcatProperties, Zenon
      <3>3. DOMAIN v = 1..(l + k)
        BY <3>1
      <3>4. \A i \in 1..l : i \in 1..(l + k) /\ i <= l
        OBVIOUS
      <3>5. \A i \in 1..k : l + i \in 1..(l + k) /\ ~(l + i <= l) /\ (l + i) - l = i
        OBVIOUS
      <3>6. \A i \in 1..l : v[i] = u[i]
        BY <3>2, <3>4
      <3>7. \A i \in 1..k : v[l + i] = t[i]
        BY <3>2, <3>5
      <3> QED BY <3>3, <3>6, <3>7
    <2>4. \A i \in DOMAIN v : (i \in 1..l /\ v[i] = u[i]) \/ \E j \in 1..k : v[i] = t[j]
      <3> TAKE i \in DOMAIN v
      <3>1. CASE i \in 1..l
        BY <2>3, <3>1
      <3>2. CASE i \notin 1..l
        <4>1. i - l \in 1..k /\ i = l + (i - l)
          BY <2>1, <2>3, <3>2
        <4>2. v[i] = t[i - l]
          BY <2>3, <4>1
        <4> QED BY <4>1, <4>2
      <3> QED BY <3>1, <3>2
    <2>5. Pending(v) \subseteq Pending(u) \cup Pending(t)
      BY <2>1, <2>4 DEF Pending
    <2>6. Pending(u) \subseteq Pending(v)
      <3>1. 1..l \subseteq DOMAIN v
        BY <2>1, <2>3
      <3> QED BY <2>1, <2>3, <3>1 DEF Pending
    <2>7. Pending(t) \subseteq Pending(v)
      <3>1. \A i \in 1..k : l + i \in DOMAIN v
        BY <2>1, <2>3
      <3> QED BY <2>1, <2>3, <3>1 DEF Pending
    <2> QED BY <2>2, <2>5, <2>6, <2>7
  <1>2. ASSUME t # <<>>
        PROVE  /\ Head(t) \in Seq(Symbol)
               /\ Tail(t) \in Seq(Seq(Symbol))
               /\ Pending(t) = RangeOf(Head(t)) \cup Pending(Tail(t))
    <2>1. Head(t) \in Seq(Symbol) /\ Tail(t) \in Seq(Seq(Symbol)) /\ Head(t) = t[1]
      BY <1>2
    <2>2. PICK k \in Nat : DOMAIN t = 1..(k + 1)
      <3>1. Len(t) \in Nat /\ Len(t) # 0 /\ DOMAIN t = 1..Len(t)
        BY <1>2
      <3>2. Len(t) - 1 \in Nat /\ Len(t) = (Len(t) - 1) + 1
        BY <3>1
      <3> QED BY <3>1, <3>2
    <2>3. PICK v : v = Tail(t)
      OBVIOUS
    <2>4. DOMAIN v = 1..k /\ \A i \in 1..k : v[i] = t[i + 1]
      BY <1>2, <2>2, <2>3
    <2>5. \A i \in DOMAIN t : i = 1 \/ \E j \in DOMAIN v : t[i] = v[j]
      <3> TAKE i \in DOMAIN t
      <3>1. i # 1 => i - 1 \in 1..k /\ i = (i - 1) + 1
        BY <2>2
      <3>2. i # 1 => v[i - 1] = t[i]
        BY <2>4, <3>1
      <3> QED BY <2>4, <3>1, <3>2
    <2>6. Pending(t) \subseteq RangeOf(Head(t)) \cup Pending(v)
      BY <2>1, <2>5 DEF Pending
    <2>7. RangeOf(Head(t)) \subseteq Pending(t)
      <3>1. 1 \in DOMAIN t
        BY <2>2
      <3> QED BY <2>1, <3>1 DEF Pending
    <2>8. Pending(v) \subseteq Pending(t)
      <3>1. \A i \in 1..k : i + 1 \in DOMAIN t
        BY <2>2
      <3> QED BY <2>4, <3>1 DEF Pending
    <2> QED BY <2>1, <2>3, <2>6, <2>7, <2>8
  <1> QED BY <1>1, <1>2

\* The names of a sequence, when it is taken apart or made longer.
LEMMA RangeFacts ==
  ASSUME NEW q \in Seq(Symbol)
  PROVE  /\ RangeOf(q) \in SUBSET Symbol
         /\ \A s \in Symbol : Append(q, s) \in Seq(Symbol) /\ RangeOf(Append(q, s)) = RangeOf(q) \cup {s}
         /\ q # <<>> => /\ Head(q) \in Symbol
                        /\ Tail(q) \in Seq(Symbol)
                        /\ RangeOf(q) = {Head(q)} \cup RangeOf(Tail(q))
         /\ <<q>> \in Seq(Seq(Symbol)) /\ Pending(<<q>>) = RangeOf(q)
PROOF
  <1>1. RangeOf(q) \in SUBSET Symbol
    BY DEF RangeOf
  <1>2. ASSUME NEW s \in Symbol
        PROVE  Append(q, s) \in Seq(Symbol) /\ RangeOf(Append(q, s)) = RangeOf(q) \cup {s}
    <2>1. PICK v : v = Append(q, s)
      OBVIOUS
    <2>2. PICK l \in Nat : l = Len(q) /\ DOMAIN q = 1..l
      OBVIOUS
    <2>3. DOMAIN v = 1..(l + 1) /\ v[l + 1] = s /\ \A i \in 1..l : v[i] = q[i]
      BY <2>1, <2>2
    <2>4. \A i \in DOMAIN v : i = l + 1 \/ i \in 1..l
      BY <2>2, <2>3
    <2>5. RangeOf(v) \subseteq RangeOf(q) \cup {s}
      BY <2>2, <2>3, <2>4 DEF RangeOf
    <2>6. l + 1 \in DOMAIN v /\ 1..l \subseteq DOMAIN v
      BY <2>2, <2>3
    <2>7. RangeOf(q) \cup {s} \subseteq RangeOf(v)
      BY <2>2, <2>3, <2>6 DEF RangeOf
    <2> QED BY <2>1, <2>5, <2>7
  <1>3. ASSUME q # <<>>
        PROVE  /\ Head(q) \in Symbol
               /\ Tail(q) \in Seq(Symbol)
               /\ RangeOf(q) = {Head(q)} \cup RangeOf(Tail(q))
    <2>1. Head(q) \in Symbol /\ Tail(q) \in Seq(Symbol) /\ Head(q) = q[1]
      BY <1>3
    <2>2. PICK k \in Nat : DOMAIN q = 1..(k + 1)
      <3>1. Len(q) \in Nat /\ Len(q) # 0 /\ DOMAIN q = 1..Len(q)
        BY <1>3
      <3>2. Len(q) - 1 \in Nat /\ Len(q) = (Len(q) - 1) + 1
        BY <3>1
      <3> QED BY <3>1, <3>2
    <2>3. PICK v : v = Tail(q)
      OBVIOUS
    <2>4. DOMAIN v = 1..k /\ \A i \in 1..k : v[i] = q[i + 1]
      BY <1>3, <2>2, <2>3
    <2>5. \A i \in DOMAIN q : i = 1 \/ \E j \in DOMAIN v : q[i] = v[j]
      <3> TAKE i \in DOMAIN q
      <3>1. i # 1 => i - 1 \in 1..k /\ i = (i - 1) + 1
        BY <2>2
      <3>2. i # 1 => v[i - 1] = q[i]
        BY <2>4, <3>1
      <3> QED BY <2>4, <3>1, <3>2
    <2>6. 1 \in DOMAIN q /\ \A i \in 1..k : i + 1 \in DOMAIN q
      BY <2>2
    <2>7. RangeOf(q) \subseteq {Head(q)} \cup RangeOf(v)
      BY <2>1, <2>5 DEF RangeOf
    <2>8. {Head(q)} \cup RangeOf(v) \subseteq RangeOf(q)
      BY <2>1, <2>4, <2>6 DEF RangeOf
    <2> QED BY <2>1, <2>3, <2>7, <2>8
  <1>4. <<q>> \in Seq(Seq(Symbol)) /\ Pending(<<q>>) = RangeOf(q)
    <2>1. DOMAIN <<q>> = {1} /\ <<q>>[1] = q
      OBVIOUS
    <2>2. Pending(<<q>>) = RangeOf(q)
      BY <2>1 DEF Pending
    <2> QED BY <2>2
  <1> QED BY <1>1, <1>2, <1>3, <1>4

\* A node more covers its choices.
LEMMA OneMoreCovered ==
  ASSUME NEW g, NEW names, NEW others, NEW s, NEW more, IsCovered(g, names, others),
         others \subseteq {s} \cup more,
         s \in EClass => \A i \in UsableChoices(g, s) : Needs(g.choices[s][i]) \subseteq more
  PROVE  IsCovered(g, names \cup {s}, more)
PROOF
  <1> QED BY DEF IsCovered

\* What a step that populates has to show.
LEMMA LpOutcomePopulates ==
  ASSUME pc' = "populate", PopulateOutcome' PROVE LpOutcome'
PROOF
  <1> QED BY DEF LpOutcome, HasSelectedLp, HasSelected

\* What a step that assembles has to show.
LEMMA LpOutcomeGoOn ==
  ASSUME pc' = "assemble", SolvedOutcome', AssembleOutcome' PROVE LpOutcome'
PROOF
  <1> QED BY DEF LpOutcome

\* Steps that are not of integer programming show nothing.
LEMMA LpOutcomeElse ==
  ASSUME pc' \notin {"populate", "assemble"}, pc' = "idle" => mode' = "greedy" PROVE LpOutcome'
PROOF
  <1> QED BY DEF LpOutcome, HasSelectedLp, HasSelected, IsLp

\* A node is populated.
LEMMA LpOutcomePopulateNode ==
  ASSUME ExtractInv, LpOutcome, PopulateNode PROVE LpOutcome'
PROOF
  <1>1. pc = "populate" /\ UNCHANGED <<graph, pc, overflowed>> /\ todo # <<>> /\ Head(todo) # <<>>
    BY DEF PopulateNode, callVars
  <1>2. /\ nodes \in Seq(Symbol) /\ todo \in Seq(Seq(Symbol)) /\ ~overflowed
        /\ IsCovered(graph, RangeOf(nodes), Pending(todo)) /\ graph \in ExtractGraphs
    BY <1>1 DEF LpOutcome, PopulateOutcome, ExtractInv, ExtractTypeOK
  <1>3. PICK q \in Seq(Symbol) : q = Head(todo) /\ q # <<>>
    BY <1>1, <1>2, PendingFacts
  <1>4. PICK s \in Symbol : s = Head(q)
    BY <1>3, RangeFacts
  <1>5. Tail(q) \in Seq(Symbol) /\ RangeOf(q) = {s} \cup RangeOf(Tail(q))
    BY <1>3, <1>4, RangeFacts
  <1>6. Tail(todo) \in Seq(Seq(Symbol)) /\ Pending(todo) = RangeOf(q) \cup Pending(Tail(todo))
    BY <1>1, <1>2, <1>3, PendingFacts
  <1>7. PICK rest \in Seq(Seq(Symbol)) :
          rest = <<Tail(q)>> \o Tail(todo) /\ Pending(rest) = RangeOf(Tail(q)) \cup Pending(Tail(todo))
    <2>1. PICK one \in Seq(Seq(Symbol)) : one = <<Tail(q)>> /\ Pending(one) = RangeOf(Tail(q))
      BY <1>5, RangeFacts
    <2>2. Pending(one \o Tail(todo)) = Pending(one) \cup Pending(Tail(todo))
      BY <1>6, <2>1, PendingFacts
    <2>3. one \o Tail(todo) \in Seq(Seq(Symbol))
      BY <1>6, <2>1, ConcatProperties
    <2> QED BY <2>1, <2>2, <2>3
  <1>8. Pending(todo) = {s} \cup Pending(rest)
    BY <1>5, <1>6, <1>7
  <1>9. CASE s \in RangeOf(nodes)
    <2>1. todo' = rest /\ nodes' = nodes
      BY <1>3, <1>4, <1>7, <1>9 DEF PopulateNode
    <2>2. IsCovered(graph, RangeOf(nodes), Pending(rest))
      BY <1>2, <1>8, <1>9 DEF IsCovered
    <2>3. PopulateOutcome'
      BY <1>1, <1>2, <2>1, <2>2 DEF PopulateOutcome
    <2> QED BY <1>1, <2>3, LpOutcomePopulates
  <1>10. CASE s \notin RangeOf(nodes)
    <2>1. nodes' = Append(nodes, s) /\ todo' = IF s \in Input THEN rest ELSE ChildrenOfChoices(graph, s) \o rest
      BY <1>3, <1>4, <1>7, <1>10 DEF PopulateNode
    <2>2. nodes' \in Seq(Symbol) /\ RangeOf(nodes') = RangeOf(nodes) \cup {s}
      BY <1>2, <2>1, RangeFacts
    <2>3. /\ todo' \in Seq(Seq(Symbol))
          /\ Pending(rest) \subseteq Pending(todo')
          /\ s \in EClass => \A i \in UsableChoices(graph, s) : Needs(graph.choices[s][i]) \subseteq Pending(todo')
      <3>1. CASE s \in Input
        BY <1>7, <2>1, <3>1 DEF EClass
      <3>2. CASE s \in EClass
        <4>1. PICK u : u = ChildrenOfChoices(graph, s)
          OBVIOUS
        <4>2. graph.choices[s] \in Seq(Choice)
          BY <1>2, <3>2, GraphsClean DEF IsCleanGraph
        <4>3. PICK l \in Nat : DOMAIN graph.choices[s] = 1..l
          <5>1. Len(graph.choices[s]) \in Nat /\ DOMAIN graph.choices[s] = 1..Len(graph.choices[s])
            BY <4>2
          <5> QED BY <5>1
        <4>4. /\ DOMAIN u = 1..l
              /\ \A i \in 1..l : u[i] = IF IsUsable(graph.choices[s][i]) THEN Children(graph.choices[s][i]) ELSE <<>>
              /\ u = [i \in 1..l |-> u[i]]
          BY <4>1, <4>3 DEF ChildrenOfChoices
        <4>5. \A i \in 1..l : Children(graph.choices[s][i]) \in Seq(Symbol)
          BY <1>2, <3>2, <4>3, ChoiceFacts DEF ChildrenOf
        <4>6. \A i \in 1..l : u[i] \in Seq(Symbol)
          <5> TAKE i \in 1..l
          <5>1. <<>> \in Seq(Symbol)
            OBVIOUS
          <5> QED BY <4>4, <4>5, <5>1
        <4>7. u \in [1..l -> Seq(Symbol)]
          BY <4>4, <4>6
        <4>8. u \in Seq(Seq(Symbol))
          BY <4>7, FunctionIsSeq
        <4>9. \A i \in UsableChoices(graph, s) : Needs(graph.choices[s][i]) \subseteq Pending(u)
          <5> TAKE i \in UsableChoices(graph, s)
          <5>1. i \in 1..l /\ u[i] = Children(graph.choices[s][i])
            BY <4>3, <4>4 DEF UsableChoices
          <5>2. RangeOf(u[i]) \subseteq Pending(u)
            BY <4>4, <5>1 DEF Pending
          <5> QED BY <5>1, <5>2 DEF Needs, RangeOf
        <4>10. todo' = u \o rest
          BY <2>1, <3>2, <4>1 DEF EClass
        <4>11. todo' \in Seq(Seq(Symbol))
          BY <4>8, <4>10, ConcatProperties
        <4>12. Pending(todo') = Pending(u) \cup Pending(rest)
          BY <4>8, <4>10, PendingFacts
        <4> QED BY <4>9, <4>11, <4>12
      <3> QED BY <3>1, <3>2 DEF EClass
    <2>4. IsCovered(graph, RangeOf(nodes) \cup {s}, Pending(todo'))
      BY <1>2, <1>8, <2>3, OneMoreCovered
    <2>5. PopulateOutcome'
      BY <1>1, <1>2, <2>2, <2>3, <2>4 DEF PopulateOutcome
    <2> QED BY <1>1, <2>5, LpOutcomePopulates
  <1> QED BY <1>9, <1>10

\* The choices of a node are all populated.
LEMMA LpOutcomePopulatedNode ==
  ASSUME ExtractInv, LpOutcome, PopulatedNode PROVE LpOutcome'
PROOF
  <1>1. pc = "populate" /\ UNCHANGED <<graph, pc, overflowed, nodes>> /\ todo # <<>> /\ Head(todo) = <<>>
        /\ todo' = Tail(todo)
    BY DEF PopulatedNode, callVars
  <1>2. /\ nodes \in Seq(Symbol) /\ todo \in Seq(Seq(Symbol)) /\ ~overflowed
        /\ IsCovered(graph, RangeOf(nodes), Pending(todo))
    BY <1>1 DEF LpOutcome, PopulateOutcome
  <1>3. Tail(todo) \in Seq(Seq(Symbol)) /\ Pending(todo) = RangeOf(<<>>) \cup Pending(Tail(todo))
    BY <1>1, <1>2, PendingFacts
  <1>4. RangeOf(<<>>) = {}
    BY DEF RangeOf
  <1>5. PopulateOutcome'
    BY <1>1, <1>2, <1>3, <1>4 DEF PopulateOutcome
  <1> QED BY <1>1, <1>5, LpOutcomePopulates

\* The solver returns a best assignment.
LEMMA LpOutcomeSolve ==
  ASSUME ExtractInv, LpOutcome, Solve PROVE LpOutcome'
PROOF
  <1>1. /\ pc = "populate" /\ pc' = "assemble" /\ UNCHANGED <<graph, mode, stack, overflowed, nodes, subtreeCosts>>
        /\ todo = <<>> /\ ~SolverOverflows /\ assignment' \in BestAssignments(graph, nodes)
    BY DEF Solve
  <1>2. nodes \in Seq(Symbol) /\ ~overflowed /\ IsCovered(graph, RangeOf(nodes), Pending(todo))
    BY <1>1 DEF LpOutcome, PopulateOutcome
  <1>3. stack = <<>> /\ subtreeCosts = <<>>
    BY <1>1 DEF ExtractInv, PopulateInv
  <1>4. Pending(todo) = {}
    BY <1>1 DEF Pending
  <1>5. ~SolverOverflows'
    BY <1>1 DEF SolverOverflows
  <1>6. SolvedOutcome'
    <2>1. DOMAIN subtreeCosts' = {}
      BY <1>1, <1>3
    <2>2. IsCovered(graph, RangeOf(nodes), {})
      BY <1>2, <1>4
    <2> QED BY <1>1, <1>2, <1>5, <2>1, <2>2 DEF SolvedOutcome
  <1>7. AssembleOutcome'
    BY <1>1, <1>3 DEF AssembleOutcome, FallsAlong
  <1> QED BY <1>1, <1>6, <1>7, LpOutcomeGoOn

\* The solver fails for a reason.
LEMMA LpOutcomeSolveFails ==
  ASSUME ExtractInv, LpOutcome, SolveFails PROVE LpOutcome'
PROOF
  <1>1. /\ pc = "populate" /\ pc' = "idle" /\ ~info'.ok /\ UNCHANGED <<graph, mode, nodes>>
        /\ todo = <<>>
        /\ SolverOverflows \/ BestAssignments(graph, nodes) = {}
    BY DEF SolveFails, Fail, NoInfo, lpVars
  <1>2. nodes \in Seq(Symbol) /\ IsCovered(graph, RangeOf(nodes), Pending(todo)) /\ graph \in ExtractGraphs
    BY <1>1 DEF LpOutcome, PopulateOutcome, ExtractInv, ExtractTypeOK
  <1>3. Pending(todo) = {}
    BY <1>1 DEF Pending
  <1>4. SolverOverflows \/ ~(Roots(graph) \subseteq Solvable(graph))
    BY <1>1, <1>2, <1>3, SolvableHasBest
  <1>5. SolverOverflows' \/ ~(Roots(graph) \subseteq Solvable(graph))'
    BY <1>1, <1>4 DEF SolverOverflows
  <1> QED BY <1>1, <1>5 DEF LpOutcome, HasSelectedLp, HasSelected

\* What assembling can count on.
LEMMA BestIsFeasibleFor ==
  ASSUME NEW g \in ExtractGraphs, NEW order \in Seq(Symbol), NEW a \in BestAssignments(g, order)
  PROVE  /\ a \in FeasibleAssignments(g, order)
         /\ a \in Assignments(g, RangeOf(order))
         /\ SelOK(g, a.sel) /\ DOMAIN a.sel = a.active \cap EClass /\ a.active \subseteq RangeOf(order)
         /\ Needed(g, a.sel) \subseteq a.active
         /\ \E rank : IsRanking(g, a.sel, rank)
PROOF
  <1>1. a \in FeasibleAssignments(g, order)
    BY BestIsBest DEF BestOf
  <1>2. a \in Assignments(g, RangeOf(order)) /\ IsFeasible(g, RangeOf(order), a)
    BY <1>1 DEF FeasibleAssignments
  <1>3. SelOK(g, a.sel) /\ a.active \subseteq RangeOf(order) /\ DOMAIN a.sel = a.active \cap EClass
    BY <1>2, AssignmentSelects
  <1>4. Needed(g, a.sel) \subseteq a.active
    BY <1>2 DEF IsFeasible, Needed
  <1>5. PICK rank \in [DOMAIN a.sel -> 0..Cardinality(RangeOf(order))] :
          \A s \in DOMAIN a.sel : \A t \in Needs(g.choices[s][a.sel[s]]) :
            (IF t \in Input THEN 0 ELSE rank[t]) < rank[s]
    BY <1>2 DEF IsFeasible, HasRanks
  <1>6. Cardinality(RangeOf(order)) \in Nat
    <2>1. RangeOf(order) \in SUBSET Symbol
      BY DEF RangeOf
    <2> QED BY <2>1, NamesFinite, FS_Subset, FS_CardinalityType
  <1>7. IsRanking(g, a.sel, rank)
    BY <1>5, <1>6 DEF IsRanking
  <1> QED BY <1>1, <1>2, <1>3, <1>4, <1>7

\* What is known while assembling.
LEMMA AssembleFacts ==
  ASSUME ExtractInv, LpOutcome, pc = "assemble"
  PROVE  /\ SolvedOutcome /\ AssembleOutcome
         /\ DOMAIN assignment.sel = assignment.active \cap EClass
         /\ Needed(graph, assignment.sel) \subseteq assignment.active
         /\ \E rank : IsRanking(graph, assignment.sel, rank)
         /\ stack # <<>> => Top.symbol \in DOMAIN assignment.sel
         /\ stack # <<>> /\ IsAsking =>
              Operand \in Needs(graph.choices[Top.symbol][assignment.sel[Top.symbol]])
         /\ IsAsking => Operand \in Needed(graph, assignment.sel)
PROOF
  <1>1. SolvedOutcome /\ AssembleOutcome /\ graph \in ExtractGraphs
    BY DEF LpOutcome, ExtractInv, ExtractTypeOK
  <1>2. nodes \in Seq(Symbol) /\ assignment \in BestAssignments(graph, nodes)
    BY <1>1 DEF SolvedOutcome
  <1>3. /\ DOMAIN assignment.sel = assignment.active \cap EClass
        /\ Needed(graph, assignment.sel) \subseteq assignment.active
        /\ \E rank : IsRanking(graph, assignment.sel, rank)
    BY <1>1, <1>2, BestIsFeasibleFor
  <1>4. stack # <<>> => Top.symbol \in DOMAIN assignment.sel
    BY AssembleTop DEF AssembleFrames
  <1>5. stack # <<>> /\ IsAsking =>
          Operand \in Needs(graph.choices[Top.symbol][assignment.sel[Top.symbol]])
    BY AssembleTop DEF IsAsking, Operand, Needs, ChildrenOf
  <1>6. stack = <<>> /\ IsAsking => Operand \in Roots(graph)
    BY AssembleTop DEF IsAsking, Operand, Roots
  <1>7. IsAsking => Operand \in Needed(graph, assignment.sel)
    BY <1>4, <1>5, <1>6 DEF Needed
  <1> QED BY <1>1, <1>3, <1>4, <1>5, <1>7

\* The costs of some more names are known.
LEMMA SolvedStays ==
  ASSUME SolvedOutcome, UNCHANGED <<graph, mode, overflowed, nodes, assignment>>,
         DOMAIN subtreeCosts' \subseteq Needed(graph, assignment.sel)
  PROVE  SolvedOutcome'
PROOF
  <1>1. ~SolverOverflows'
    BY DEF SolvedOutcome, SolverOverflows
  <1> QED BY <1>1 DEF SolvedOutcome

\* The frames are about names that they were about.
LEMMA AssembleStays ==
  ASSUME AssembleOutcome, UNCHANGED <<graph, assignment>>, DOMAIN stack' \subseteq DOMAIN stack,
         \A n \in DOMAIN stack' : stack'[n].symbol = stack[n].symbol
  PROVE  AssembleOutcome'
PROOF
  <1> QED BY DEF AssembleOutcome, FallsAlong

\* An input is met.
LEMMA LpOutcomeInput ==
  ASSUME ExtractInv, LpOutcome, AssembleInput PROVE LpOutcome'
PROOF
  <1>1. /\ pc = "assemble" /\ IsAsking /\ subtreeCosts' = Extend(subtreeCosts, Operand, 0)
        /\ UNCHANGED <<graph, mode, pc, stack, overflowed, nodes, assignment>>
    BY DEF AssembleInput, callVars
  <1>2. SolvedOutcome /\ AssembleOutcome /\ Operand \in Needed(graph, assignment.sel)
    BY <1>1, AssembleFacts
  <1>3. DOMAIN subtreeCosts' = DOMAIN subtreeCosts \cup {Operand}
    BY <1>1 DEF Extend
  <1>4. SolvedOutcome'
    <2>1. DOMAIN subtreeCosts' \subseteq Needed(graph, assignment.sel)
      BY <1>2, <1>3 DEF SolvedOutcome
    <2> QED BY <1>1, <1>2, <2>1, SolvedStays
  <1>5. AssembleOutcome'
    BY <1>1, <1>2, AssembleStays
  <1> QED BY <1>1, <1>4, <1>5, LpOutcomeGoOn

\* A new e-class is entered: it was given a choice, and its rank is below those of the frames.
LEMMA LpOutcomeAssemble ==
  ASSUME ExtractInv, LpOutcome, Assemble PROVE LpOutcome'
PROOF
  <1>1. /\ pc = "assemble" /\ IsAsking /\ Operand \in EClass \ DOMAIN subtreeCosts
        /\ UNCHANGED <<graph, mode, overflowed, nodes, assignment, subtreeCosts>>
    BY DEF Assemble, lpVars
  <1>2. /\ SolvedOutcome /\ AssembleOutcome
        /\ DOMAIN assignment.sel = assignment.active \cap EClass
        /\ Needed(graph, assignment.sel) \subseteq assignment.active
        /\ stack # <<>> => Top.symbol \in DOMAIN assignment.sel
        /\ stack # <<>> =>
             Operand \in Needs(graph.choices[Top.symbol][assignment.sel[Top.symbol]])
        /\ Operand \in Needed(graph, assignment.sel)
    BY <1>1, AssembleFacts
  <1>3. Operand \in DOMAIN assignment.sel /\ Operand \notin Input
    BY <1>1, <1>2 DEF EClass
  <1>4. PICK l \in Nat : l = Len(stack) /\ DOMAIN stack = 1..l /\ stack \in Seq(AssembleFrames(graph, assignment.sel, DOMAIN subtreeCosts))
    BY <1>1, AssembleTop
  <1>5. stack # <<>> => l >= 1 /\ Top = stack[l]
    BY <1>4 DEF Top
  <1>6. ASSUME NEW rank, IsRanking(graph, assignment.sel, rank), NEW n \in 1..l
        PROVE  rank[Operand] < rank[stack[n].symbol]
    <2>1. stack # <<>>
      BY <1>4, <1>6
    <2>2. rank[Operand] < rank[Top.symbol]
      BY <1>2, <1>3, <1>6, <2>1 DEF IsRanking
    <2>3. CASE n = l
      BY <1>5, <2>1, <2>2, <2>3
    <2>4. CASE n # l
      <3>1. n < l /\ l \in DOMAIN stack /\ n \in DOMAIN stack
        BY <1>4, <1>6, <2>4
      <3>2. rank[stack[l].symbol] < rank[stack[n].symbol]
        BY <1>2, <1>6, <3>1 DEF AssembleOutcome, FallsAlong
      <3>3. rank[Operand] \in Nat /\ rank[stack[l].symbol] \in Nat /\ rank[stack[n].symbol] \in Nat
        <4>1. stack[n].symbol \in DOMAIN assignment.sel /\ stack[l].symbol \in DOMAIN assignment.sel
          BY <1>4, <3>1 DEF AssembleFrames
        <4> QED BY <1>3, <1>6, <4>1 DEF IsRanking
      <3> QED BY <1>5, <2>1, <2>2, <3>2, <3>3
    <2> QED BY <2>3, <2>4
  <1>7. Operand \notin {stack[n].symbol : n \in DOMAIN stack}
    <2> SUFFICES ASSUME NEW n \in 1..l, Operand = stack[n].symbol PROVE FALSE
      BY <1>4
    <2>1. PICK rank : IsRanking(graph, assignment.sel, rank)
      BY <1>1, AssembleFacts
    <2>2. rank[Operand] < rank[Operand]
      BY <1>6, <2>1
    <2>3. rank[Operand] \in Nat
      BY <1>3, <2>1 DEF IsRanking
    <2> QED BY <2>2, <2>3
  <1>8. PICK f : f = [symbol |-> Operand, child |-> FirstChild, cost |-> Selected(Operand).cost]
    OBVIOUS
  <1>9. stack' = Append(stack, f) /\ UNCHANGED pc /\ f.symbol = Operand
    BY <1>3, <1>7, <1>8 DEF Assemble
  <1>10. DOMAIN stack' = 1..(l + 1) /\ stack'[l + 1] = f /\ \A n \in 1..l : stack'[n] = stack[n]
    BY <1>4, <1>9
  <1>11. AssembleOutcome'
    <2>1. ASSUME NEW n \in 1..(l + 1) PROVE stack'[n].symbol \in Needed(graph, assignment.sel)
      <3>1. n = l + 1 \/ n \in 1..l
        BY <2>1
      <3> QED BY <1>2, <1>4, <1>9, <1>10, <3>1 DEF AssembleOutcome
    <2>2. ASSUME NEW rank, IsRanking(graph, assignment.sel, rank) PROVE FallsAlong(rank, stack')
      <3> SUFFICES ASSUME NEW m \in 1..(l + 1), NEW n \in 1..(l + 1), m < n
                   PROVE  rank[stack'[n].symbol] < rank[stack'[m].symbol]
        BY <1>10 DEF FallsAlong
      <3>1. m \in 1..l /\ stack'[m] = stack[m]
        BY <1>10
      <3>2. CASE n = l + 1
        BY <1>6, <1>9, <1>10, <2>2, <3>1, <3>2
      <3>3. CASE n # l + 1
        <4>1. n \in 1..l /\ stack'[n] = stack[n]
          BY <1>10, <3>3
        <4> QED BY <1>2, <1>4, <2>2, <3>1, <4>1 DEF AssembleOutcome, FallsAlong
      <3> QED BY <3>2, <3>3
    <2> QED BY <1>1, <1>10, <2>1, <2>2 DEF AssembleOutcome
  <1>12. SolvedOutcome'
    <2>1. DOMAIN subtreeCosts' \subseteq Needed(graph, assignment.sel)
      BY <1>1, <1>2 DEF SolvedOutcome
    <2> QED BY <1>1, <1>2, <2>1, SolvedStays
  <1> QED BY <1>1, <1>9, <1>11, <1>12, LpOutcomeGoOn

\* The cost of an operand is added, unless the sum does not fit.
LEMMA LpOutcomeAdd ==
  ASSUME ExtractInv, LpOutcome, AddCost PROVE LpOutcome'
PROOF
  <1>1. /\ pc = "assemble" /\ stack # <<>> /\ IsAsking
        /\ UNCHANGED <<graph, mode, nodes, assignment, subtreeCosts>>
    BY DEF AddCost, lpVars
  <1>2. SolvedOutcome /\ AssembleOutcome /\ stack \in Seq(AssembleFrames(graph, assignment.sel, DOMAIN subtreeCosts))
    BY <1>1, AssembleFacts, AssembleTop
  <1>3. PICK cost : cost = subtreeCosts[Operand]
    OBVIOUS
  <1>4. CASE Fits(Top.cost, cost)
    <2>1. PICK f : f = [Top EXCEPT !.child = @ + 1, !.cost = @ + cost]
      OBVIOUS
    <2>2. stack' = WithTop(f) /\ UNCHANGED <<pc, overflowed>>
      BY <1>3, <1>4, <2>1 DEF AddCost
    <2>3. f.symbol = Top.symbol
      <3>1. Top \in AssembleFrame
        BY <1>1, AssembleTop DEF AssembleFrames
      <3> QED BY <2>1, <3>1 DEF AssembleFrame
    <2>4. DOMAIN stack' = DOMAIN stack /\ \A n \in DOMAIN stack : stack'[n].symbol = stack[n].symbol
      <3>1. PICK l \in Nat : l = Len(stack) /\ DOMAIN stack = 1..l /\ l >= 1
        BY <1>1, <1>2
      <3>2. stack' = [stack EXCEPT ![l] = f] /\ Top = stack[l]
        BY <2>2, <3>1 DEF WithTop, Top
      <3> QED BY <2>3, <3>1, <3>2
    <2>5. AssembleOutcome'
      BY <1>1, <1>2, <2>4, AssembleStays
    <2>6. SolvedOutcome'
      <3>1. DOMAIN subtreeCosts' \subseteq Needed(graph, assignment.sel)
        BY <1>1, <1>2 DEF SolvedOutcome
      <3> QED BY <1>1, <1>2, <2>2, <3>1, SolvedStays
    <2> QED BY <1>1, <2>2, <2>5, <2>6, LpOutcomeGoOn
  <1>5. CASE ~Fits(Top.cost, cost)
    <2>1. pc' = "idle" /\ ~info'.ok /\ overflowed'
      BY <1>3, <1>5 DEF AddCost, Fail, NoInfo
    <2> QED BY <2>1 DEF LpOutcome, HasSelectedLp, HasSelected
  <1> QED BY <1>4, <1>5

\* An e-class is assembled.
LEMMA LpOutcomeAssembled ==
  ASSUME ExtractInv, LpOutcome, Assembled PROVE LpOutcome'
PROOF
  <1>1. /\ pc = "assemble" /\ stack # <<>> /\ UNCHANGED <<graph, mode, pc, overflowed, nodes, assignment>>
        /\ subtreeCosts' = Extend(subtreeCosts, Top.symbol, Top.cost) /\ stack' = Pop(stack)
    BY DEF Assembled
  <1>2. SolvedOutcome /\ AssembleOutcome /\ stack \in Seq(AssembleFrames(graph, assignment.sel, DOMAIN subtreeCosts))
    BY <1>1, AssembleFacts, AssembleTop
  <1>3. PICK l \in Nat : l = Len(stack) /\ DOMAIN stack = 1..l /\ l >= 1
    BY <1>1, <1>2
  <1>4. Top.symbol \in Needed(graph, assignment.sel)
    BY <1>2, <1>3 DEF Top, AssembleOutcome
  <1>5. SolvedOutcome'
    <2>1. DOMAIN subtreeCosts' = DOMAIN subtreeCosts \cup {Top.symbol}
      BY <1>1 DEF Extend
    <2>2. DOMAIN subtreeCosts' \subseteq Needed(graph, assignment.sel)
      BY <1>2, <1>4, <2>1 DEF SolvedOutcome
    <2> QED BY <1>1, <1>2, <2>2, SolvedStays
  <1>6. AssembleOutcome'
    <2>1. DOMAIN stack' \subseteq DOMAIN stack /\ \A n \in DOMAIN stack' : stack'[n].symbol = stack[n].symbol
      BY <1>1, <1>3 DEF Pop
    <2> QED BY <1>1, <1>2, <2>1, AssembleStays
  <1> QED BY <1>1, <1>5, <1>6, LpOutcomeGoOn

\* A root is assembled, or all of them are.
LEMMA LpOutcomeRoot ==
  ASSUME ExtractInv, LpOutcome, AssembledRoot \/ EndAssemble PROVE LpOutcome'
PROOF
  <1>1. pc = "assemble" /\ UNCHANGED <<graph, mode, stack, overflowed, nodes, assignment, subtreeCosts>>
    BY DEF AssembledRoot, EndAssemble, lpVars
  <1>2. SolvedOutcome /\ AssembleOutcome
    BY <1>1, AssembleFacts
  <1>3. SolvedOutcome'
    <2>1. DOMAIN subtreeCosts' \subseteq Needed(graph, assignment.sel)
      BY <1>1, <1>2 DEF SolvedOutcome
    <2> QED BY <1>1, <1>2, <2>1, SolvedStays
  <1>4. AssembleOutcome'
    BY <1>1, <1>2, AssembleStays
  <1>5. CASE AssembledRoot
    <2>1. pc' = "assemble"
      BY <1>1, <1>5 DEF AssembledRoot
    <2> QED BY <1>3, <1>4, <2>1, LpOutcomeGoOn
  <1>6. CASE EndAssemble
    <2>1. info \in Result
      BY DEF ExtractInv, ExtractTypeOK, EntriesOK
    <2>2. pc' = "idle" /\ info'.ok
      BY <1>6, <2>1 DEF EndAssemble, Result
    <2> QED BY <1>3, <2>2 DEF LpOutcome
  <1> QED BY <1>5, <1>6

\* Steps of integer programming.
LEMMA LpOutcomeLp ==
  ASSUME ExtractInv, LpOutcome, LpNext PROVE LpOutcome'
PROOF
  <1> QED BY LpOutcomePopulateNode, LpOutcomePopulatedNode, LpOutcomeSolve, LpOutcomeSolveFails, LpOutcomeInput,
             LpOutcomeAssemble, LpOutcomeAdd, LpOutcomeAssembled, LpOutcomeRoot DEF LpNext

\* A call starts.
LEMMA LpOutcomeStart ==
  ASSUME ExtractInv, NEW m \in Backends, RunExtract(m) PROVE LpOutcome'
PROOF
  <1>1. graph \in ExtractGraphs /\ graph.roots \in Seq(Symbol)
    BY RootFacts DEF ExtractInv, ExtractTypeOK
  <1>2. pc' \in {"search", "populate"} /\ nodes' = <<>> /\ todo' = <<graph.roots>> /\ ~overflowed' /\ UNCHANGED graph
    BY DEF RunExtract
  <1>3. CASE pc' = "search"
    BY <1>3, LpOutcomeElse
  <1>4. CASE pc' = "populate"
    <2>1. <<graph.roots>> \in Seq(Seq(Symbol)) /\ Pending(<<graph.roots>>) = RangeOf(graph.roots)
      BY <1>1, RangeFacts
    <2>2. RangeOf(<<>>) = {}
      BY DEF RangeOf
    <2>3. IsCovered(graph, RangeOf(<<>>), Pending(<<graph.roots>>))
      BY <2>1, <2>2 DEF IsCovered, Roots, RangeOf
    <2>4. PopulateOutcome'
      BY <1>2, <2>1, <2>3 DEF PopulateOutcome
    <2> QED BY <1>4, <2>4, LpOutcomePopulates
  <1> QED BY <1>2, <1>3, <1>4

\* How integer programming ends, in every sequence of calls.
LEMMA LpOutcomeInvariant == ExtractSpec => []LpOutcome
PROOF
  <1>1. ExtractInit => LpOutcome
    BY DEF ExtractInit, LpOutcome, HasSelectedLp, HasSelected, IsLp
  <1>2. ExtractInv /\ LpOutcome /\ [ExtractNext]_extractVars => LpOutcome'
    <2> SUFFICES ASSUME ExtractInv, LpOutcome, [ExtractNext]_extractVars PROVE LpOutcome'
      OBVIOUS
    <2>1. CASE \E m \in Backends : RunExtract(m)
      BY <2>1, LpOutcomeStart
    <2>2. CASE GreedyStep
      <3>1. pc' # "assemble" /\ pc' # "populate" /\ mode' = "greedy"
        BY <2>2, GreedyIsGreedy DEF GreedyStep
      <3> QED BY <3>1, LpOutcomeElse
    <2>3. CASE LpStep
      BY <2>3, LpOutcomeLp DEF LpStep
    <2>4. CASE UNCHANGED extractVars
      BY <2>4 DEF extractVars, callVars, lpVars, LpOutcome, HasSelectedLp, HasSelected, PopulateOutcome, SolvedOutcome,
                  AssembleOutcome, SolverOverflows
    <2> QED BY <2>1, <2>2, <2>3, <2>4 DEF ExtractNext
  <1> QED BY <1>1, <1>2, ExtractInvariant, PTL DEF ExtractSpec

IsMap(f) == f = [s \in DOMAIN f |-> f[s]]

\* The parts of an assignment.
LEMMA AssignmentParts ==
  ASSUME NEW g, NEW names, NEW a \in Assignments(g, names)
  PROVE  /\ a.active \in SUBSET names
         /\ a = [active |-> a.active, sel |-> a.sel]
         /\ a.sel = [s \in a.active \cap EClass |-> a.sel[s]]
         /\ IsMap(a.sel)
PROOF
  <1>1. PICK S \in SUBSET names : a \in {[active |-> S, sel |-> f] : f \in Selections(g, S \cap EClass)}
    BY DEF Assignments
  <1>2. PICK f \in Selections(g, S \cap EClass) : a = [active |-> S, sel |-> f]
    BY <1>1
  <1>3. f = [s \in S \cap EClass |-> f[s]]
    BY DEF Selections
  <1>4. a.active = S /\ a.sel = f
    BY <1>2
  <1>5. IsMap(f)
    BY <1>3 DEF IsMap
  <1> QED BY <1>2, <1>3, <1>4, <1>5

-----------------------------------------------------------------------------
\* What is a term of the result is a term of the graph.
LEMMA TermsSolvable ==
  ASSUME NEW g, NEW result, EntriesOK(g, result)
  PROVE  Terms(result) \subseteq Solvable(g)
PROOF
  <1>1. \A e \in Entries(result) : e[1] \in EClass /\ e[2] \in UsableChoices(g, e[1])
    BY EntriesInEClass DEF EntriesOK
  <1>2. ASSUME NEW S \in SUBSET Symbol, IsClosed(g, S) PROVE Terms(result) \subseteq S
    <2>1. Input \subseteq S
      BY <1>2 DEF IsClosed
    <2>2. \A e \in Entries(result) : Needs(g.choices[e[1]][e[2]]) \subseteq S => e[1] \in S
      BY <1>1, <1>2 DEF IsClosed
    <2> QED BY <2>1, <2>2 DEF EntriesOK
  <1>3. Terms(result) \subseteq Symbol
    BY <1>1, NamesFinite DEF Terms, EClass
  <1> QED BY <1>2, <1>3 DEF Solvable

\* How integer programming ends.
LEMMA LpCompletes ==
  ASSUME ExtractInv, LpOutcome PROVE LpComplete
PROOF
  <1> SUFFICES ASSUME IsLp(mode), pc = "idle"
               PROVE  info.ok <=> Roots(graph) \subseteq Solvable(graph) /\ ~SolverOverflows /\ ~overflowed
    BY DEF LpComplete, IsLp
  <1>1. CASE info.ok
    <2>1. HasSelectedLp
      BY <1>1 DEF HasSelectedLp, HasSelected, IsLp
    <2>2. ~SolverOverflows /\ ~overflowed
      BY <2>1 DEF LpOutcome, SolvedOutcome
    <2>3. EntriesOK(graph, info) /\ Roots(graph) \subseteq Terms(info)
      BY <1>1 DEF ExtractInv, ExtractTypeOK, IdleInv
    <2> QED BY <1>1, <2>2, <2>3, TermsSolvable
  <1>2. CASE ~info.ok
    BY <1>2 DEF LpOutcome
  <1> QED BY <1>1, <1>2

(***************************************************************************)
(* Whatever the graph, the bounds and the calls before: the integer        *)
(* programs of Z3Extract.cpp and OrToolsExtract.cpp succeed exactly when   *)
(* the roots have terms and the sums fit.  No rank constraint excludes the *)
(* only acyclic selection, and none is missing.                            *)
(***************************************************************************)
THEOREM LpExtractComplete == ExtractSpec => []LpComplete
PROOF
  <1>1. ExtractInv /\ LpOutcome => LpComplete
    BY LpCompletes
  <1> QED BY <1>1, ExtractInvariant, LpOutcomeInvariant, PTL

-----------------------------------------------------------------------------
\* The cost is the first objective, and the number of nodes the second.
LEMMA ObjectiveFirst ==
  ASSUME NEW g \in ExtractGraphs, NEW order \in Seq(Symbol), NEW q \in Objective(g, order)
  PROVE  ~IsBefore(q, <<0, 1>>) /\ (IsBefore(q, <<0, 2>>) => q = <<0, 1>>)
PROOF
  <1>1. CASE q \in {<<0, 1>>, <<0, 2>>, <<0, 3>>}
    BY <1>1 DEF IsBefore
  <1>2. CASE q \notin {<<0, 1>>, <<0, 2>>, <<0, 3>>}
    <2>1. PICK n \in DOMAIN order : order[n] \in EClass /\ \E i \in UsableChoices(g, order[n]) : q = <<n, i>>
      BY <1>2 DEF Objective
    <2>2. q[1] = n
      BY <2>1
    <2>3. n \in Nat /\ n >= 1
      OBVIOUS
    <2> QED BY <2>2, <2>3 DEF IsBefore
  <1> QED BY <1>1, <1>2

\* A best assignment costs no more than another, and has no more nodes if it costs the same.
LEMMA BestIsLeast ==
  ASSUME NEW g \in ExtractGraphs, NEW order \in Seq(Symbol),
         NEW a \in BestAssignments(g, order), NEW b \in FeasibleAssignments(g, order)
  PROVE  /\ DagCost(g, order, a.sel) <= DagCost(g, order, b.sel)
         /\ DagCost(g, order, a.sel) = DagCost(g, order, b.sel) => Cardinality(a.active) <= Cardinality(b.active)
PROOF
  <1>1. a \in Assignments(g, RangeOf(order)) /\ b \in Assignments(g, RangeOf(order))
    BY BestIsFeasibleFor DEF FeasibleAssignments
  <1>2. PICK P : P = Objective(g, order)
    OBVIOUS
  <1>3. PICK x : x = Objectives(g, order, a)
    OBVIOUS
  <1>4. PICK y : y = Objectives(g, order, b)
    OBVIOUS
  <1>5. PICK p : p = <<0, 1>>
    OBVIOUS
  <1>6. PICK q : q = <<0, 2>>
    OBVIOUS
  <1>7. /\ x \in [P -> Nat] /\ p \in P /\ q \in P
        /\ x[p] = DagCost(g, order, a.sel) /\ x[q] = Cardinality(a.active)
    BY <1>1, <1>2, <1>3, <1>5, <1>6, ObjectivesFacts
  <1>8. /\ y \in [P -> Nat]
        /\ y[p] = DagCost(g, order, b.sel) /\ y[q] = Cardinality(b.active)
    BY <1>1, <1>2, <1>4, <1>5, <1>6, ObjectivesFacts
  <1>9. ~IsLexLess(y, x)
    BY <1>3, <1>4, BestIsBest DEF BestOf
  <1>10. \A r \in P : ~IsBefore(r, p) /\ (IsBefore(r, q) => r = p)
    BY <1>2, <1>5, <1>6, ObjectiveFirst
  <1>11. ~(y[p] < x[p])
    BY <1>7, <1>8, <1>9, <1>10 DEF IsLexLess
  <1>12. y[p] = x[p] => ~(y[q] < x[q])
    BY <1>7, <1>8, <1>9, <1>10 DEF IsLexLess
  <1>13. x[p] \in Nat /\ y[p] \in Nat /\ x[q] \in Nat /\ y[q] \in Nat
    BY <1>7, <1>8
  <1> QED BY <1>7, <1>8, <1>11, <1>12, <1>13

\* The last objectives tell best assignments apart by what they select.
LEMMA BestAreEqual ==
  ASSUME NEW g \in ExtractGraphs, NEW order \in Seq(Symbol),
         NEW a \in BestAssignments(g, order), NEW b \in BestAssignments(g, order)
  PROVE  a.sel = b.sel /\ Cardinality(a.active) = Cardinality(b.active)
PROOF
  <1>1. /\ a \in FeasibleAssignments(g, order) /\ b \in FeasibleAssignments(g, order)
        /\ a \in Assignments(g, RangeOf(order)) /\ b \in Assignments(g, RangeOf(order))
        /\ DOMAIN a.sel \subseteq RangeOf(order) \cap EClass /\ SelOK(g, a.sel)
        /\ DOMAIN b.sel \subseteq RangeOf(order) \cap EClass /\ SelOK(g, b.sel)
    BY BestIsFeasibleFor
  <1>2. PICK P : P = Objective(g, order)
    OBVIOUS
  <1>3. PICK x : x = Objectives(g, order, a)
    OBVIOUS
  <1>4. PICK y : y = Objectives(g, order, b)
    OBVIOUS
  <1>5. P \in SUBSET (Nat \X Nat) /\ x \in [P -> Nat] /\ y \in [P -> Nat]
    BY <1>1, <1>2, <1>3, <1>4, ObjectivesFacts
  <1>6. ~IsLexLess(y, x) /\ ~IsLexLess(x, y)
    BY <1>1, <1>3, <1>4, BestIsBest DEF BestOf
  <1>7. x = y
    BY <1>5, <1>6, LexTotal
  <1>8. Cardinality(a.active) = Cardinality(b.active)
    <2>1. x[<<0, 2>>] = Cardinality(a.active)
      BY <1>1, <1>3, ObjectivesFacts
    <2>2. y[<<0, 2>>] = Cardinality(b.active)
      BY <1>1, <1>4, ObjectivesFacts
    <2> QED BY <1>7, <2>1, <2>2
  <1>9. ASSUME NEW n \in DOMAIN order, order[n] \in EClass, NEW i \in UsableChoices(g, order[n])
        PROVE  IsChosen(a.sel, order[n], i) <=> IsChosen(b.sel, order[n], i)
    <2>1. IsChosen(a.sel, order[n], i) <=> x[<<n, i>>] = 0
      BY <1>1, <1>3, <1>9, ObjectivesFacts
    <2>2. IsChosen(b.sel, order[n], i) <=> y[<<n, i>>] = 0
      BY <1>1, <1>4, <1>9, ObjectivesFacts
    <2> QED BY <1>7, <2>1, <2>2
  <1>10. ASSUME NEW s \in DOMAIN a.sel PROVE s \in DOMAIN b.sel /\ b.sel[s] = a.sel[s]
    <2>1. PICK n \in DOMAIN order : order[n] = s /\ s \in EClass
      BY <1>1 DEF RangeOf
    <2>2. a.sel[s] \in UsableChoices(g, s)
      BY <1>1 DEF SelOK
    <2> QED BY <1>9, <2>1, <2>2 DEF IsChosen
  <1>11. ASSUME NEW s \in DOMAIN b.sel PROVE s \in DOMAIN a.sel
    <2>1. PICK n \in DOMAIN order : order[n] = s /\ s \in EClass
      BY <1>1 DEF RangeOf
    <2>2. b.sel[s] \in UsableChoices(g, s)
      BY <1>1 DEF SelOK
    <2> QED BY <1>9, <2>1, <2>2 DEF IsChosen
  <1>12. a.sel = [s \in DOMAIN a.sel |-> a.sel[s]] /\ b.sel = [s \in DOMAIN b.sel |-> b.sel[s]]
    <2>1. IsMap(a.sel) /\ IsMap(b.sel)
      BY <1>1, AssignmentParts
    <2> QED BY <2>1 DEF IsMap
  <1>13. DOMAIN a.sel = DOMAIN b.sel
    BY <1>10, <1>11
  <1> QED BY <1>8, <1>10, <1>12, <1>13

\* What integer programming selects is part of the assignment.
LEMMA LpSelection ==
  ASSUME ExtractInv, LpCosts, LpOutcome, HasSelectedLp
  PROVE  /\ graph \in ExtractGraphs /\ nodes \in Seq(Symbol) /\ IsCovered(graph, RangeOf(nodes), {})
         /\ assignment \in BestAssignments(graph, nodes)
         /\ IsSelectionMap(info) /\ EntriesOK(graph, info)
         /\ DOMAIN SelectionMap(info) = Emitted(info)
         /\ IsMap(SelectionMap(info))
         /\ Emitted(info) \subseteq DOMAIN assignment.sel
         /\ \A s \in Emitted(info) : SelectionMap(info)[s] = assignment.sel[s]
         /\ SelOK(graph, SelectionMap(info))
PROOF
  <1>1. graph \in ExtractGraphs /\ EntriesOK(graph, info) /\ info \in Result
    BY DEF ExtractInv, ExtractTypeOK, EntriesOK
  <1>2. nodes \in Seq(Symbol) /\ IsCovered(graph, RangeOf(nodes), {}) /\ assignment \in BestAssignments(graph, nodes)
    BY DEF LpOutcome, SolvedOutcome
  <1>3. /\ IsSelectionMap(info)
        /\ \A e \in Entries(info) : e[1] \in DOMAIN assignment.sel /\ e[2] = assignment.sel[e[1]]
    BY DEF LpCosts, ExactCosts
  <1>4. PICK sel : sel = SelectionMap(info)
    OBVIOUS
  <1>5. DOMAIN sel = Emitted(info) /\ \A e \in Entries(info) : sel[e[1]] = e[2]
    BY <1>1, <1>3, <1>4, SelectionMapEntries DEF Emitted
  <1>6. IsMap(sel)
    BY <1>4 DEF SelectionMap, IsMap
  <1>7. Emitted(info) \subseteq DOMAIN assignment.sel /\ \A s \in Emitted(info) : sel[s] = assignment.sel[s]
    BY <1>3, <1>5 DEF Emitted
  <1>8. SelOK(graph, assignment.sel)
    BY <1>1, <1>2, BestIsFeasibleFor
  <1>9. SelOK(graph, sel)
    BY <1>5, <1>7, <1>8 DEF SelOK
  <1> QED BY <1>1, <1>2, <1>3, <1>4, <1>5, <1>6, <1>7, <1>9

\* What integer programming selects costs the least.
LEMMA LpSelectsCheapest ==
  ASSUME ExtractInv, LpCosts, LpOutcome PROVE LpCheapest
PROOF
  <1> SUFFICES ASSUME HasSelectedLp
               PROVE  /\ DOMAIN SelectionMap(info) \subseteq RangeOf(nodes)
                      /\ \A sel \in Extractions(graph, Roots(graph)) :
                           DagCost(graph, nodes, SelectionMap(info)) <= DagCost(graph, nodes, sel)
    BY DEF LpCheapest
  <1>1. PICK a \in BestAssignments(graph, nodes) : a = assignment
    BY LpSelection
  <1>2. PICK m : m = SelectionMap(info)
    OBVIOUS
  <1>3. /\ graph \in ExtractGraphs /\ nodes \in Seq(Symbol) /\ IsCovered(graph, RangeOf(nodes), {})
        /\ DOMAIN m \subseteq DOMAIN a.sel /\ SelOK(graph, m) /\ \A s \in DOMAIN m : m[s] = a.sel[s]
    BY <1>1, <1>2, LpSelection
  <1>4. SelOK(graph, a.sel) /\ DOMAIN a.sel \subseteq RangeOf(nodes)
    BY <1>3, BestIsFeasibleFor
  <1>5. DagCost(graph, nodes, m) <= DagCost(graph, nodes, a.sel)
    BY <1>3, <1>4, DagCostFacts
  <1>6. ASSUME NEW sel \in Extractions(graph, Roots(graph))
        PROVE  DagCost(graph, nodes, m) <= DagCost(graph, nodes, sel)
    <2>1. RangeOf(nodes) \in SUBSET Symbol
      BY <1>3 DEF RangeOf
    <2>2. PICK b \in Assignments(graph, RangeOf(nodes)) :
            /\ IsFeasible(graph, RangeOf(nodes), b)
            /\ DOMAIN b.sel \subseteq DOMAIN sel
            /\ \A s \in DOMAIN b.sel : b.sel[s] = sel[s]
      BY <1>3, <2>1, ExtractionIsFeasible
    <2>3. b \in FeasibleAssignments(graph, nodes)
      BY <2>2 DEF FeasibleAssignments
    <2>4. DagCost(graph, nodes, a.sel) <= DagCost(graph, nodes, b.sel)
      BY <1>3, <2>3, BestIsLeast
    <2>5. SelOK(graph, sel)
      <3>1. PICK S \in SUBSET EClass : sel \in Selections(graph, S)
        BY DEF Extractions
      <3> QED BY <3>1 DEF Selections, SelOK
    <2>6. SelOK(graph, b.sel)
      BY <2>2, AssignmentSelects
    <2>7. DagCost(graph, nodes, b.sel) <= DagCost(graph, nodes, sel)
      BY <1>3, <2>2, <2>5, <2>6, DagCostFacts
    <2>8. /\ DagCost(graph, nodes, m) \in Nat /\ DagCost(graph, nodes, a.sel) \in Nat
          /\ DagCost(graph, nodes, b.sel) \in Nat /\ DagCost(graph, nodes, sel) \in Nat
      BY <1>3, <1>4, <2>5, <2>6, DagCostFacts
    <2> QED BY <1>5, <2>4, <2>7, <2>8
  <1> QED BY <1>2, <1>3, <1>4, <1>6

(***************************************************************************)
(* Whatever the graph, the bounds and the calls before: no block that      *)
(* gives the roots terms costs less than the one that integer programming  *)
(* selects (the cost objective of Z3Extract.cpp and OrToolsExtract.cpp).   *)
(***************************************************************************)
THEOREM LpExtractCheapest == ExtractSpec => []LpCheapest
PROOF
  <1>1. ExtractInv /\ LpCosts /\ LpOutcome => LpCheapest
    BY LpSelectsCheapest
  <1> QED BY <1>1, ExtractInvariant, LpCostsInvariant, LpOutcomeInvariant, PTL

-----------------------------------------------------------------------------
\* What is assembled is feasible by itself.
AssembledPart(result, costs, sel) == [active |-> DOMAIN costs, sel |-> [s \in Emitted(result) |-> sel[s]]]

\* The assembled part of a best assignment satisfies the constraints by itself.
LEMMA AssembledIsFeasible ==
  ASSUME ExtractInv, LpCosts, LpOutcome, HasSelectedLp
  PROVE  AssembledPart(info, subtreeCosts, assignment.sel) \in FeasibleAssignments(graph, nodes)
PROOF
  <1>1. PICK a \in BestAssignments(graph, nodes) : a = assignment
    BY LpSelection
  <1>2. /\ graph \in ExtractGraphs /\ nodes \in Seq(Symbol)
        /\ Emitted(info) \subseteq DOMAIN a.sel /\ EntriesOK(graph, info)
    BY <1>1, LpSelection
  <1>3. /\ a \in FeasibleAssignments(graph, nodes)
        /\ SelOK(graph, a.sel) /\ DOMAIN a.sel = a.active \cap EClass /\ a.active \subseteq RangeOf(nodes)
        /\ Needed(graph, a.sel) \subseteq a.active
    BY <1>2, BestIsFeasibleFor
  <1>4. PICK S : S = DOMAIN subtreeCosts
    OBVIOUS
  <1>5. PICK h : h = [s \in Emitted(info) |-> a.sel[s]]
    OBVIOUS
  <1>6. S \subseteq RangeOf(nodes)
    BY <1>1, <1>3, <1>4 DEF LpOutcome, SolvedOutcome
  <1>7. S \cap EClass = Emitted(info)
    <2>1. Emitted(info) \subseteq S /\ S \subseteq Input \cup Emitted(info)
      BY <1>4 DEF LpCosts, ExactCosts, Terms, Emitted
    <2>2. Emitted(info) \subseteq EClass
      BY <1>2, EntriesInEClass DEF Emitted
    <2> QED BY <2>1, <2>2 DEF EClass
  <1>8. h \in Selections(graph, S \cap EClass)
    <2>1. \A s \in Emitted(info) : h[s] \in UsableChoices(graph, s)
      BY <1>2, <1>3, <1>5 DEF SelOK
    <2> QED BY <1>5, <1>7, <2>1 DEF Selections
  <1>9. PICK b : b = [active |-> S, sel |-> h]
    OBVIOUS
  <1>10. b \in Assignments(graph, RangeOf(nodes)) /\ b.active = S /\ b.sel = h
    <2>1. PICK X : X = {[active |-> S, sel |-> f] : f \in Selections(graph, S \cap EClass)}
      OBVIOUS
    <2>2. b \in X
      BY <1>8, <1>9, <2>1
    <2>3. X \in {{[active |-> T, sel |-> f] : f \in Selections(graph, T \cap EClass)} : T \in SUBSET RangeOf(nodes)}
      BY <1>6, <2>1, Zenon
    <2> QED BY <1>9, <2>2, <2>3 DEF Assignments
  <1>11. Roots(graph) \subseteq S
    BY <1>4 DEF Roots, LpCosts
  <1>12. \A s \in DOMAIN h : Needs(graph.choices[s][h[s]]) \subseteq S
    <2>1. \A e \in Entries(info) : e[2] = a.sel[e[1]] /\ Needs(graph.choices[e[1]][e[2]]) \subseteq S
      BY <1>1, <1>4 DEF LpCosts, ExactCosts
    <2> QED BY <1>5, <2>1 DEF Emitted
  <1>13. HasRanks(graph, RangeOf(nodes), h)
    <2>1. PICK rank \in [DOMAIN a.sel -> 0..Cardinality(RangeOf(nodes))] :
            \A s \in DOMAIN a.sel : \A t \in Needs(graph.choices[s][a.sel[s]]) :
              (IF t \in Input THEN 0 ELSE rank[t]) < rank[s]
      BY <1>3 DEF FeasibleAssignments, IsFeasible, HasRanks
    <2>2. PICK r : r = [s \in DOMAIN h |-> rank[s]]
      OBVIOUS
    <2>3. DOMAIN h \subseteq DOMAIN a.sel
      BY <1>2, <1>5
    <2>4. r \in [DOMAIN h -> 0..Cardinality(RangeOf(nodes))]
      BY <2>1, <2>2, <2>3
    <2>5. ASSUME NEW s \in DOMAIN h, NEW t \in Needs(graph.choices[s][h[s]])
          PROVE  (IF t \in Input THEN 0 ELSE r[t]) < r[s]
      <3>1. h[s] = a.sel[s] /\ s \in DOMAIN a.sel
        BY <1>5, <2>3
      <3>2. (IF t \in Input THEN 0 ELSE rank[t]) < rank[s]
        BY <2>1, <2>5, <3>1
      <3>3. t \in S /\ t \in Symbol
        <4>1. RangeOf(nodes) \subseteq Symbol
          BY <1>2 DEF RangeOf
        <4> QED BY <1>6, <1>12, <2>5, <4>1
      <3>4. t \notin Input => t \in DOMAIN h
        BY <1>5, <1>7, <3>3 DEF EClass
      <3> QED BY <2>2, <3>2, <3>4
    <2> QED BY <2>4, <2>5 DEF HasRanks
  <1>14. IsFeasible(graph, RangeOf(nodes), b)
    BY <1>10, <1>11, <1>12, <1>13 DEF IsFeasible
  <1>15. b = AssembledPart(info, subtreeCosts, assignment.sel)
    BY <1>1, <1>4, <1>5, <1>9 DEF AssembledPart
  <1> QED BY <1>10, <1>14, <1>15 DEF FeasibleAssignments

\* Everything that is active was assembled.
LEMMA AllIsAssembled ==
  ASSUME ExtractInv, LpCosts, LpOutcome, HasSelectedLp
  PROVE  assignment.active = DOMAIN subtreeCosts /\ assignment.sel = SelectionMap(info)
PROOF
  <1>1. PICK a \in BestAssignments(graph, nodes) : a = assignment
    BY LpSelection
  <1>2. PICK m : m = SelectionMap(info)
    OBVIOUS
  <1>3. /\ graph \in ExtractGraphs /\ nodes \in Seq(Symbol)
        /\ DOMAIN m = Emitted(info) /\ IsMap(m)
        /\ Emitted(info) \subseteq DOMAIN a.sel /\ \A s \in Emitted(info) : m[s] = a.sel[s]
    BY <1>1, <1>2, LpSelection
  <1>4. /\ a \in Assignments(graph, RangeOf(nodes))
        /\ SelOK(graph, a.sel) /\ DOMAIN a.sel = a.active \cap EClass
        /\ Needed(graph, a.sel) \subseteq a.active
    BY <1>3, BestIsFeasibleFor
  <1>5. PICK b \in FeasibleAssignments(graph, nodes) : b = AssembledPart(info, subtreeCosts, a.sel)
    BY <1>1, AssembledIsFeasible
  <1>6. b.active = DOMAIN subtreeCosts /\ DOMAIN b.sel = Emitted(info) /\ \A s \in DOMAIN b.sel : b.sel[s] = a.sel[s]
    BY <1>5 DEF AssembledPart
  <1>7. b \in Assignments(graph, RangeOf(nodes))
    BY DEF FeasibleAssignments
  <1>8. SelOK(graph, b.sel) /\ DOMAIN b.sel = b.active \cap EClass
    BY <1>7, AssignmentSelects
  <1>9. /\ DagCost(graph, nodes, b.sel) <= DagCost(graph, nodes, a.sel)
        /\ DagCost(graph, nodes, b.sel) \in Nat /\ DagCost(graph, nodes, a.sel) \in Nat
    BY <1>3, <1>4, <1>6, <1>8, DagCostFacts
  <1>10. Cardinality(a.active) <= Cardinality(b.active)
    BY <1>3, <1>9, BestIsLeast
  <1>11. b.active \subseteq a.active
    BY <1>1, <1>4, <1>6 DEF LpOutcome, SolvedOutcome
  <1>12. IsFiniteSet(a.active) /\ IsFiniteSet(b.active)
    BY <1>3, <1>4, <1>7, ObjectivesFacts
  <1>13. a.active = b.active
    <2>1. /\ Cardinality(b.active) <= Cardinality(a.active)
          /\ Cardinality(a.active) = Cardinality(b.active) => a.active = b.active
      BY <1>11, <1>12, FS_Subset
    <2>2. Cardinality(a.active) \in Nat /\ Cardinality(b.active) \in Nat
      BY <1>12, FS_CardinalityType
    <2> QED BY <1>10, <2>1, <2>2
  <1>14. DOMAIN a.sel = DOMAIN m
    BY <1>3, <1>4, <1>6, <1>8, <1>13
  <1>15. IsMap(a.sel)
    BY <1>4, AssignmentParts
  <1>16. a.sel = m
    BY <1>3, <1>14, <1>15 DEF IsMap
  <1> QED BY <1>1, <1>2, <1>6, <1>13, <1>16

\* There is one best assignment.
LEMMA LpSelectsStable ==
  ASSUME ExtractInv, LpCosts, LpOutcome PROVE LpStable
PROOF
  <1> SUFFICES ASSUME HasSelectedLp
               PROVE  \E best \in BestAssignments(graph, nodes) :
                        BestAssignments(graph, nodes) = {best} /\ best.sel = SelectionMap(info)
    BY DEF LpStable
  <1>1. PICK a \in BestAssignments(graph, nodes) : a = assignment
    BY LpSelection
  <1>2. graph \in ExtractGraphs /\ nodes \in Seq(Symbol)
    BY LpSelection
  <1>3. a.active = DOMAIN subtreeCosts /\ a.sel = SelectionMap(info)
    BY <1>1, AllIsAssembled
  <1>4. a.active \subseteq Needed(graph, a.sel)
    BY <1>1, <1>3 DEF LpOutcome, SolvedOutcome
  <1>5. ASSUME NEW b \in BestAssignments(graph, nodes) PROVE b = a
    <2>1. a.sel = b.sel /\ Cardinality(a.active) = Cardinality(b.active)
      BY <1>2, BestAreEqual
    <2>2. a \in Assignments(graph, RangeOf(nodes)) /\ b \in Assignments(graph, RangeOf(nodes))
      BY <1>2, BestIsFeasibleFor
    <2>3. Needed(graph, b.sel) \subseteq b.active
      BY <1>2, BestIsFeasibleFor
    <2>4. a.active \subseteq b.active
      BY <1>4, <2>1, <2>3
    <2>5. IsFiniteSet(b.active)
      BY <1>2, <2>2, ObjectivesFacts
    <2>6. a.active = b.active
      BY <2>1, <2>4, <2>5, FS_Subset
    <2>7. a = [active |-> a.active, sel |-> a.sel] /\ b = [active |-> b.active, sel |-> b.sel]
      BY <2>2, AssignmentParts
    <2> QED BY <2>1, <2>6, <2>7
  <1>6. BestAssignments(graph, nodes) = {a}
    BY <1>5
  <1> QED BY <1>3, <1>6

(***************************************************************************)
(* Whatever the graph, the bounds and the calls before: there is one best  *)
(* assignment, and it selects just what the roots need (the objectives     *)
(* that Z3Extract.cpp and OrToolsExtract.cpp add to the cost).             *)
(***************************************************************************)
THEOREM LpExtractStable == ExtractSpec => []LpStable
PROOF
  <1>1. ExtractInv /\ LpCosts /\ LpOutcome => LpStable
    BY LpSelectsStable
  <1> QED BY <1>1, ExtractInvariant, LpCostsInvariant, LpOutcomeInvariant, PTL
-----------------------------------------------------------------------------
(***************************************************************************)
(* The order of greedy extraction: each frame of the search is about an    *)
(* operand of the one below, and what is remembered has no cycle, because  *)
(* an operand is remembered before what needs it.                          *)
(***************************************************************************)
IsFounded(g, memory) ==
  \A S \in SUBSET DOMAIN memory : S # {} =>
    \E k \in S : k[2] \in EClass =>
      \A j \in DOMAIN KeysOf(g, k[2], memory[k].choice) : KeysOf(g, k[2], memory[k].choice)[j] \notin S

SearchOrder ==
  /\ pc = "search" => IsChain(graph, stack, root)
  /\ IsFounded(graph, memo)

\* What is remembered remains without a cycle when a key is remembered.
LEMMA FoundedGrows ==
  ASSUME NEW g, NEW memory, MemoOK(g, memory), IsFounded(g, memory),
         NEW more, NEW k, k \notin DOMAIN memory,
         DOMAIN more = DOMAIN memory \cup {k}, \A l \in DOMAIN memory : more[l] = memory[l],
         k[2] \in EClass => HasTerm(g, DOMAIN memory, k[2], more[k].choice)
  PROVE  IsFounded(g, more)
PROOF
  <1>1. ASSUME NEW l \in DOMAIN more, l[2] \in EClass
        PROVE  \A j \in DOMAIN KeysOf(g, l[2], more[l].choice) : KeysOf(g, l[2], more[l].choice)[j] \in DOMAIN memory
    <2>1. CASE l = k
      BY <1>1, <2>1 DEF HasTerm
    <2>2. CASE l \in DOMAIN memory
      BY <1>1, <2>2 DEF MemoOK, HasTerm
    <2> QED BY <2>1, <2>2
  <1>2. ASSUME NEW S \in SUBSET DOMAIN more, S # {}
        PROVE  \E l \in S : l[2] \in EClass =>
                 \A j \in DOMAIN KeysOf(g, l[2], more[l].choice) : KeysOf(g, l[2], more[l].choice)[j] \notin S
    <2>1. CASE S \cap DOMAIN memory = {}
      <3>1. PICK l \in S : TRUE
        BY <1>2
      <3> QED BY <1>1, <2>1, <3>1
    <2>2. CASE S \cap DOMAIN memory # {}
      <3>1. PICK l \in S \cap DOMAIN memory : l[2] \in EClass =>
              \A j \in DOMAIN KeysOf(g, l[2], memory[l].choice) :
                KeysOf(g, l[2], memory[l].choice)[j] \notin S \cap DOMAIN memory
        BY <2>2 DEF IsFounded
      <3>2. more[l] = memory[l]
        OBVIOUS
      <3> QED BY <1>1, <3>1, <3>2
    <2> QED BY <2>1, <2>2
  <1> QED BY <1>2 DEF IsFounded

\* The steps that change only the frame on top of the search.
TopStep == CutCycle \/ TryChoice \/ AddChild \/ KeepBest

\* What such a step changes.
LEMMA TopStepFacts ==
  ASSUME ExtractInv, TopStep
  PROVE  /\ pc = "search" /\ stack # <<>> /\ UNCHANGED <<graph, mode, pc, root, info, memo>>
         /\ stack \in Seq(SearchFrames(graph, DOMAIN memo)) /\ Top = stack[Len(stack)]
         /\ \E f : f.key = Top.key /\ stack' = WithTop(f)
PROOF
  <1>1. pc = "search" /\ UNCHANGED <<graph, mode, pc, root, info, memo>>
    BY DEF TopStep, CutCycle, TryChoice, AddChild, KeepBest
  <1>2. stack # <<>>
    <2>1. CASE CutCycle
      <3>1. PICK n \in DOMAIN stack : Callee = stack[n].key
        BY <2>1 DEF CutCycle, ActiveKeys
      <3> QED BY <3>1
    <2> QED BY <2>1 DEF TopStep, TryChoice, AddChild, KeepBest
  <1>3. stack \in Seq(SearchFrames(graph, DOMAIN memo)) /\ Top = stack[Len(stack)]
    BY <1>1 DEF ExtractInv, SearchInv, Top
  <1>4. PICK t \in SearchFrame : t = Top
    BY <1>1, <1>2, SearchTop DEF SearchFrames
  <1>5. \E f : f.key = t.key /\ stack' = WithTop(f)
    <2>1. CASE CutCycle
      BY <1>4, <2>1 DEF CutCycle, Abandon, SearchFrame
    <2>2. CASE TryChoice
      <3>1. PICK i \in t.left : stack' = WithTop(IF IsUsable(graph.choices[t.key[2]][i])
                               THEN [t EXCEPT !.left = @ \ {i}, !.choice = i, !.child = FirstChild,
                                              !.cost = graph.choices[t.key[2]][i].cost]
                               ELSE [t EXCEPT !.left = @ \ {i}])
        BY <1>4, <2>2 DEF TryChoice
      <3>2. [t EXCEPT !.left = @ \ {i}, !.choice = i, !.child = FirstChild,
                      !.cost = graph.choices[t.key[2]][i].cost].key = t.key
            /\ [t EXCEPT !.left = @ \ {i}].key = t.key
        BY DEF SearchFrame
      <3> QED BY <3>1, <3>2
    <2>3. CASE AddChild
      <3>1. PICK cost : stack' = WithTop([t EXCEPT !.child = @ + 1, !.cost = @ + cost]) \/ stack' = WithTop(Abandon(t))
        BY <1>4, <2>3 DEF AddChild
      <3>2. [t EXCEPT !.child = @ + 1, !.cost = @ + cost].key = t.key /\ Abandon(t).key = t.key
        BY DEF SearchFrame, Abandon
      <3> QED BY <3>1, <3>2
    <2>4. CASE KeepBest
      <3>1. PICK best : stack' = WithTop([t EXCEPT !.choice = 0, !.best = best])
        BY <1>4, <2>4 DEF KeepBest
      <3>2. [t EXCEPT !.choice = 0, !.best = best].key = t.key
        BY DEF SearchFrame
      <3> QED BY <3>1, <3>2
    <2> QED BY <2>1, <2>2, <2>3, <2>4 DEF TopStep
  <1> QED BY <1>1, <1>2, <1>3, <1>4, <1>5

\* The frame on top changes.
LEMMA OrderTop ==
  ASSUME ExtractInv, SearchOrder, TopStep PROVE SearchOrder'
PROOF
  <1>1. /\ pc = "search" /\ stack # <<>> /\ UNCHANGED <<graph, pc, root, memo>>
        /\ stack \in Seq(SearchFrames(graph, DOMAIN memo)) /\ Top = stack[Len(stack)]
    BY TopStepFacts
  <1>2. PICK f : f.key = Top.key /\ stack' = WithTop(f)
    BY TopStepFacts
  <1>3. IsChain(graph, stack', root)
    BY <1>1, <1>2, ChainTops DEF SearchOrder, WithTop
  <1> QED BY <1>1, <1>3 DEF SearchOrder

\* A key is searched, or an input remembered.
LEMMA OrderSearch ==
  ASSUME ExtractInv, SearchOrder, Search PROVE SearchOrder'
PROOF
  <1>1. pc = "search" /\ IsCalling /\ Callee \notin DOMAIN memo /\ UNCHANGED <<graph, pc, root>>
    BY DEF Search
  <1>2. PICK k \in Key : k = Callee
    BY <1>1, SearchTop
  <1>3. /\ stack \in Seq(SearchFrames(graph, DOMAIN memo)) /\ MemoOK(graph, memo)
        /\ IsChain(graph, stack, root) /\ IsFounded(graph, memo)
    BY <1>1 DEF ExtractInv, ExtractTypeOK, SearchInv, SearchOrder
  <1>4. CASE k[2] \in Input
    <2>1. memo' = Extend(memo, k, NoBest) /\ UNCHANGED stack
      BY <1>2, <1>4 DEF Search
    <2>2. PICK more : more = memo' /\ DOMAIN more = DOMAIN memo \cup {k} /\ \A l \in DOMAIN memo : more[l] = memo[l]
      BY <1>1, <1>2, <2>1 DEF Extend
    <2>3. k[2] \notin EClass
      BY <1>4 DEF EClass
    <2>4. IsFounded(graph, more)
      BY <1>1, <1>2, <1>3, <2>2, <2>3, FoundedGrows
    <2> QED BY <1>1, <1>3, <2>1, <2>2, <2>4 DEF SearchOrder
  <1>5. CASE k[2] \notin Input
    <2>1. PICK f : f = [key |-> k, left |-> DOMAIN graph.choices[k[2]], choice |-> 0, child |-> 1,
                        cost |-> 0, best |-> NoBest]
      OBVIOUS
    <2>2. stack' = Append(stack, f) /\ UNCHANGED memo /\ f.key = k
      BY <1>2, <1>5, <2>1 DEF Search
    <2>3. stack = <<>> => root \in DOMAIN graph.roots /\ k = RootKeys(graph)[root]
      BY <1>1, <1>2, SearchTop DEF IsCalling, Callee, RootKeys
    <2>4. PICK e : e = Top /\ e = stack[Len(stack)]
      BY DEF Top
    <2>5. stack # <<>> => /\ e.choice # 0
                          /\ e.child \in DOMAIN KeysOf(graph, e.key[2], e.choice)
                          /\ k = KeysOf(graph, e.key[2], e.choice)[e.child]
      BY <1>1, <1>2, <2>4, SearchTop DEF IsCalling, Callee
    <2>6. IsChain(graph, stack', root)
      BY <1>3, <2>2, <2>3, <2>4, <2>5, ChainPushes
    <2> QED BY <1>1, <1>3, <2>2, <2>6 DEF SearchOrder
  <1> QED BY <1>4, <1>5

\* A key is remembered.
LEMMA OrderMemoize ==
  ASSUME ExtractInv, SearchCosts, SearchOrder, Memoize PROVE SearchOrder'
PROOF
  <1>1. /\ pc = "search" /\ stack # <<>> /\ UNCHANGED <<graph, pc, root>>
        /\ Top.best.choice # 0 /\ memo' = Extend(memo, Top.key, Top.best) /\ stack' = Pop(stack)
    BY DEF Memoize
  <1>2. PICK f \in ExactFrames(graph, memo) : f = Top
    BY <1>1, ExactTop
  <1>3. /\ stack \in Seq(SearchFrames(graph, DOMAIN memo)) /\ MemoOK(graph, memo)
        /\ IsChain(graph, stack, root) /\ IsFounded(graph, memo)
    BY <1>1 DEF ExtractInv, ExtractTypeOK, SearchInv, SearchOrder
  <1>4. PICK k : k = f.key /\ k \notin DOMAIN memo /\ HasTerm(graph, DOMAIN memo, k[2], f.best.choice)
    BY <1>1, <1>2 DEF ExactFrames, SearchFrames
  <1>5. PICK more : /\ more = memo' /\ DOMAIN more = DOMAIN memo \cup {k} /\ more[k] = f.best
                    /\ \A l \in DOMAIN memo : more[l] = memo[l]
    BY <1>1, <1>2, <1>4 DEF Extend
  <1>6. IsFounded(graph, more)
    BY <1>3, <1>4, <1>5, FoundedGrows
  <1>7. IsChain(graph, stack', root)
    BY <1>1, <1>3, ChainPops
  <1> QED BY <1>1, <1>5, <1>6, <1>7 DEF SearchOrder

\* A search fails.
LEMMA OrderGiveUp ==
  ASSUME ExtractInv, SearchOrder, GiveUp PROVE SearchOrder'
PROOF
  <1>1. pc = "search" /\ stack # <<>> /\ UNCHANGED <<graph, root, memo>>
    BY DEF GiveUp
  <1>2. stack \in Seq(SearchFrames(graph, DOMAIN memo)) /\ IsChain(graph, stack, root)
    BY <1>1 DEF ExtractInv, SearchInv, SearchOrder
  <1>3. CASE Len(stack) = 1
    <2>1. pc' = "idle"
      BY <1>3 DEF GiveUp, Fail
    <2> QED BY <1>1, <2>1 DEF SearchOrder
  <1>4. CASE Len(stack) # 1
    <2>1. PICK rest : rest = Pop(stack)
      OBVIOUS
    <2>2. /\ rest \in Seq(SearchFrames(graph, DOMAIN memo)) /\ Len(rest) = Len(stack) - 1 /\ rest # <<>>
          /\ IsChain(graph, rest, root)
      BY <1>1, <1>2, <1>4, <2>1, PopFrame, PopLast, ChainPops
    <2>3. stack' = [rest EXCEPT ![Len(rest)] = Abandon(@)]
      BY <1>4, <2>1, <2>2 DEF GiveUp
    <2>4. PICK f \in SearchFrames(graph, DOMAIN memo) : f = rest[Len(rest)]
      BY <2>2, PopFrame
    <2>5. Abandon(f).key = f.key
      BY DEF Abandon, SearchFrames, SearchFrame
    <2>6. stack' = [rest EXCEPT ![Len(rest)] = Abandon(f)]
      BY <2>3, <2>4
    <2>7. IsChain(graph, stack', root)
      BY <2>2, <2>4, <2>5, <2>6, ChainTops
    <2> QED BY <1>1, <2>7 DEF SearchOrder
  <1> QED BY <1>3, <1>4

\* The other steps leave what is remembered alone.
LEMMA OrderOther ==
  ASSUME SearchOrder, UNCHANGED <<graph, memo>>, pc' # "search" \/ stack' = <<>> \/ UNCHANGED <<pc, stack, root>>
  PROVE  SearchOrder'
PROOF
  <1>1. IsFounded(graph, memo)'
    BY DEF SearchOrder
  <1>2. ASSUME pc' = "search" PROVE IsChain(graph, stack, root)'
    <2>1. CASE stack' = <<>>
      BY <2>1 DEF IsChain
    <2>2. CASE UNCHANGED <<pc, stack, root>>
      BY <1>2, <2>2 DEF SearchOrder
    <2> QED BY <1>2, <2>1, <2>2
  <1> QED BY <1>1, <1>2 DEF SearchOrder

\* Every step of greedy extraction keeps the order.
LEMMA OrderGreedy ==
  ASSUME ExtractInv, SearchCosts, SearchOrder, GreedyNext PROVE SearchOrder'
PROOF
  <1>1. CASE NextRoot \/ EndSearch \/ SkipCollected \/ CollectSelected \/ EmitSelected \/ EndCollect
    <2>1. UNCHANGED <<graph, memo>> /\ (pc' # "search" \/ stack' = <<>>)
      BY <1>1 DEF NextRoot, EndSearch, SkipCollected, CollectSelected, EmitSelected, EndCollect, Fail
    <2> QED BY <2>1, OrderOther
  <1>2. CASE TopStep
    BY <1>2, OrderTop
  <1> QED BY <1>1, <1>2, OrderSearch, OrderMemoize, OrderGiveUp DEF GreedyNext, TopStep

\* What greedy extraction remembers has no cycle, in every sequence of calls.
LEMMA SearchOrderInvariant == ExtractSpec => []SearchOrder
PROOF
  <1>0. \A g : IsFounded(g, <<>>) /\ \A r : IsChain(g, <<>>, r)
    BY DEF IsFounded, IsChain
  <1>1. ExtractInit => SearchOrder
    BY <1>0 DEF ExtractInit, SearchOrder
  <1>2. ExtractInv /\ SearchCosts /\ SearchOrder /\ [ExtractNext]_extractVars => SearchOrder'
    <2> SUFFICES ASSUME ExtractInv, SearchCosts, SearchOrder, [ExtractNext]_extractVars PROVE SearchOrder'
      OBVIOUS
    <2>1. CASE \E m \in Backends : RunExtract(m)
      <3>1. memo' = <<>> /\ stack' = <<>>
        BY <2>1 DEF RunExtract
      <3> QED BY <1>0, <3>1 DEF SearchOrder
    <2>2. CASE GreedyStep
      BY <2>2, OrderGreedy DEF GreedyStep
    <2>3. CASE LpStep
      BY <2>3, LpLeavesSearch, OrderOther DEF LpStep
    <2>4. CASE UNCHANGED extractVars
      BY <2>4, OrderOther DEF extractVars, callVars
    <2> QED BY <2>1, <2>2, <2>3, <2>4 DEF ExtractNext
  <1> QED BY <1>1, <1>2, ExtractInvariant, SearchCostsInvariant, PTL DEF ExtractSpec

-----------------------------------------------------------------------------
(***************************************************************************)
(* What the search has tried.  A choice that was dropped, or had a term    *)
(* found for it, is done: if the e-class has no term yet, the choice has   *)
(* none without the symbols that are being computed; and, without cycles,  *)
(* no term with this choice is cheaper than the best one.                  *)
(***************************************************************************)
\* The names that have a finite term without the names A.
IsClosedWithout(g, A, S) ==
  /\ Input \subseteq S
  /\ \A s \in EClass \ A : \A i \in UsableChoices(g, s) : Needs(g.choices[s][i]) \subseteq S => s \in S

SolvableWithout(g, A) == {s \in Symbol : \A S \in SUBSET Symbol : IsClosedWithout(g, A, S) => s \in S}

\* The symbols of the first n frames.
SymbolsTo(frames, n) == {frames[m].key[2] : m \in 1..n}

\* A selection gives all its e-classes terms, with these costs.
IsPriced(g, sel, cost) ==
  /\ SelOK(g, sel)
  /\ DOMAIN sel \subseteq Grounded(g, sel)
  /\ cost \in Costings(g, sel)

\* The e-class has a term with this choice and cost.
HasPrice(g, s, i, c) == \E sel, cost : IsPriced(g, sel, cost) /\ s \in DOMAIN sel /\ sel[s] = i /\ cost[s] = c

IsCheapMemo(g, memory) ==
  \A k \in DOMAIN memory : \A i, c : HasPrice(g, k[2], i, c) => memory[k].cost <= c

IsDone(g, over, symbols, s, i, best) ==
  /\ ~over /\ best.choice = 0 => ~(Needs(g.choices[s][i]) \subseteq SolvableWithout(g, symbols))
  /\ IsAcyclic(g) => \A c : HasPrice(g, s, i, c) => best.choice # 0 /\ best.cost <= c

AreDone(g, over, symbols, f) ==
  \A i \in UsableChoices(g, f.key[2]) :
    i \in f.left \/ i = f.choice \/ IsDone(g, over, symbols, f.key[2], i, f.best)

SearchTries ==
  /\ IsAcyclic(graph) => IsCheapMemo(graph, memo)
  /\ pc = "search" => \A n \in DOMAIN stack : AreDone(graph, overflowed, SymbolsTo(stack, n), stack[n])
  /\ mode = "greedy" /\ pc = "idle" /\ ~info.ok /\ ~overflowed /\ AliasesOfInputs(graph) =>
       ~(Roots(graph) \subseteq Solvable(graph))

\* Nothing is avoided.
LEMMA SolvableWithoutNothing ==
  ASSUME NEW g PROVE SolvableWithout(g, {}) = Solvable(g)
PROOF
  <1>1. \A S : IsClosedWithout(g, {}, S) <=> IsClosed(g, S)
    BY DEF IsClosedWithout, IsClosed
  <1> QED BY <1>1 DEF SolvableWithout, Solvable

\* A symbol that is being computed has no term without itself.
LEMMA AvoidedHasNone ==
  ASSUME NEW g, NEW A, NEW s \in A \cap EClass
  PROVE  s \notin SolvableWithout(g, A)
PROOF
  <1>1. PICK S \in SUBSET Symbol : S = Symbol \ {s}
    OBVIOUS
  <1>2. Input \subseteq S
    BY <1>1, NamesFinite DEF EClass
  <1>3. \A t \in EClass \ A : t \in S
    BY <1>1 DEF EClass
  <1>4. IsClosedWithout(g, A, S)
    BY <1>2, <1>3 DEF IsClosedWithout
  <1> QED BY <1>1, <1>4 DEF SolvableWithout

(***************************************************************************)
(* An e-class whose choices all have no term without itself has none: a    *)
(* term of it would have a smallest one within.                            *)
(***************************************************************************)
LEMMA NoChoiceNoTerm ==
  ASSUME NEW g, NEW A, NEW t \in EClass,
         \A i \in UsableChoices(g, t) : ~(Needs(g.choices[t][i]) \subseteq SolvableWithout(g, A \cup {t}))
  PROVE  t \notin SolvableWithout(g, A)
PROOF
  <1>1. PICK D \in SUBSET Symbol : D = SolvableWithout(g, A \cup {t})
    BY DEF SolvableWithout
  <1>2. \A S \in SUBSET Symbol : IsClosedWithout(g, A \cup {t}, S) => D \subseteq S
    BY <1>1 DEF SolvableWithout
  <1>3. Input \subseteq D
    BY <1>1, NamesFinite DEF SolvableWithout, IsClosedWithout
  <1>4. ASSUME NEW s \in EClass \ A, NEW i \in UsableChoices(g, s), Needs(g.choices[s][i]) \subseteq D
        PROVE  s \in D
    <2>1. s # t
      BY <1>1, <1>4
    <2>2. ASSUME NEW S \in SUBSET Symbol, IsClosedWithout(g, A \cup {t}, S) PROVE s \in S
      <3>1. Needs(g.choices[s][i]) \subseteq S
        BY <1>2, <1>4, <2>2
      <3>2. s \in EClass \ (A \cup {t})
        BY <2>1
      <3> QED BY <2>2, <3>1, <3>2 DEF IsClosedWithout
    <2>3. s \in Symbol
      BY DEF EClass
    <2> QED BY <1>1, <2>2, <2>3 DEF SolvableWithout
  <1>5. IsClosedWithout(g, A, D)
    BY <1>3, <1>4 DEF IsClosedWithout
  <1>6. t \notin D
    BY <1>1, AvoidedHasNone
  <1> QED BY <1>5, <1>6 DEF SolvableWithout

\* What a priced selection needs is priced.
LEMMA PricedNeeds ==
  ASSUME NEW g, NEW sel, NEW cost, IsPriced(g, sel, cost), NEW s \in DOMAIN sel
  PROVE  Needs(g.choices[s][sel[s]]) \subseteq Input \cup DOMAIN sel
PROOF
  <1>1. PICK G \in SUBSET Symbol : G = Grounded(g, sel)
    BY DEF Grounded
  <1>2. \A S \in SUBSET Symbol : IsClosedUnder(g, sel, S) => G \subseteq S
    BY <1>1 DEF Grounded
  <1>3. DOMAIN sel \subseteq EClass /\ DOMAIN sel \subseteq G
    BY <1>1 DEF IsPriced, SelOK
  <1>4. G \subseteq Input \cup DOMAIN sel
    <2>1. PICK S \in SUBSET Symbol : S = Input \cup DOMAIN sel
      BY <1>3, NamesFinite DEF EClass
    <2>2. IsClosedUnder(g, sel, S)
      BY <2>1 DEF IsClosedUnder
    <2> QED BY <1>2, <2>1, <2>2
  <1>5. Input \subseteq G
    BY <1>1, NamesFinite DEF Grounded, IsClosedUnder
  <1>6. Needs(g.choices[s][sel[s]]) \subseteq G
    <2> SUFFICES ASSUME ~(Needs(g.choices[s][sel[s]]) \subseteq G) PROVE FALSE
      OBVIOUS
    <2>1. PICK S \in SUBSET Symbol : S = G \ {s}
      OBVIOUS
    <2>2. Input \subseteq S
      BY <1>3, <1>5, <2>1 DEF EClass
    <2>3. ASSUME NEW t \in DOMAIN sel, Needs(g.choices[t][sel[t]]) \subseteq S PROVE t \in S
      <3>1. t # s
        BY <2>1, <2>3
      <3> QED BY <1>3, <2>1, <3>1
    <2>4. IsClosedUnder(g, sel, S)
      BY <2>2, <2>3 DEF IsClosedUnder
    <2>5. G \subseteq S
      BY <1>2, <2>4
    <2> QED BY <1>3, <2>1, <2>5
  <1> QED BY <1>4, <1>6

\* A sum of numbers is at most one of more of them.
LEMMA SumGrows ==
  ASSUME NEW first \in Nat, NEW number, NEW n \in Nat, \A i \in 1..n : number[i] \in Nat, NEW k \in 0..n
  PROVE  SumTo(first, number, k) <= SumTo(first, number, n)
PROOF
  <1>1. \A m \in 0..n : SumTo(first, number, m) \in Nat
    BY SumNat
  <1>2. PICK T : T = {m \in 0..n : k <= m /\ ~(SumTo(first, number, k) <= SumTo(first, number, m))}
    OBVIOUS
  <1>3. T = {}
    <2> SUFFICES ASSUME T # {} PROVE FALSE
      OBVIOUS
    <2>1. T \in SUBSET Nat
      BY <1>2
    <2>2. PICK m \in T : \A o \in T : ~(o < m)
      BY <2>1, LeastNumber
    <2>3. m \in 0..n /\ k <= m /\ ~(SumTo(first, number, k) <= SumTo(first, number, m))
      BY <1>2
    <2>4. m # k
      BY <1>1, <2>3
    <2>5. PICK o \in 0..n : m = o + 1 /\ k <= o /\ o \in Nat
      <3>1. m - 1 \in 0..n /\ m = (m - 1) + 1 /\ k <= m - 1
        BY <2>3, <2>4
      <3> QED BY <3>1
    <2>6. SumTo(first, number, k) <= SumTo(first, number, o)
      BY <1>2, <2>2, <2>5
    <2>7. SumTo(first, number, o + 1) = SumTo(first, number, o) + number[o + 1]
      BY <2>5, SumNext
    <2>8. number[o + 1] \in Nat
      BY <2>3, <2>5
    <2> QED BY <1>1, <2>3, <2>5, <2>6, <2>7, <2>8
  <1>4. n \in 0..n /\ k <= n
    OBVIOUS
  <1> QED BY <1>2, <1>3, <1>4

\* What a term costs, by its operands.
LEMMA PriceFacts ==
  ASSUME NEW g \in ExtractGraphs, NEW s, NEW i, NEW c, HasPrice(g, s, i, c)
  PROVE  /\ s \in EClass /\ i \in UsableChoices(g, s) /\ c \in 0..MaxCost
         /\ \E number :
              /\ c = SumTo(g.choices[s][i].cost, number, Len(ChildrenOf(g, s, i)))
              /\ \A j \in DOMAIN ChildrenOf(g, s, i) :
                   /\ number[j] \in Nat
                   /\ \/ ChildrenOf(g, s, i)[j] \in Input
                      \/ \E h : HasPrice(g, ChildrenOf(g, s, i)[j], h, number[j])
PROOF
  <1>1. PICK sel, cost : IsPriced(g, sel, cost) /\ s \in DOMAIN sel /\ sel[s] = i /\ cost[s] = c
    BY DEF HasPrice
  <1>2. SelOK(g, sel) /\ cost \in [DOMAIN sel -> 0..MaxCost] /\ IsCosting(g, sel, cost)
    BY <1>1 DEF IsPriced, Costings
  <1>3. s \in EClass /\ i \in UsableChoices(g, s) /\ c \in 0..MaxCost
    BY <1>1, <1>2 DEF SelOK
  <1>4. PICK number : number = ChildCosts(g.choices[s][i], cost)
    OBVIOUS
  <1>5. c = SumTo(g.choices[s][i].cost, number, Len(ChildrenOf(g, s, i)))
    BY <1>1, <1>2, <1>4 DEF IsCosting, TermCost, ChildrenOf
  <1>6. ASSUME NEW j \in DOMAIN ChildrenOf(g, s, i)
        PROVE  /\ number[j] \in Nat
               /\ \/ ChildrenOf(g, s, i)[j] \in Input
                  \/ \E h : HasPrice(g, ChildrenOf(g, s, i)[j], h, number[j])
    <2>1. PICK t : t = ChildrenOf(g, s, i)[j] /\ t \in Needs(g.choices[s][i])
      BY DEF Needs, ChildrenOf
    <2>2. number[j] = CostOf(cost, t)
      BY <1>4, <2>1 DEF ChildCosts, ChildrenOf
    <2>3. t \in Input \cup DOMAIN sel
      BY <1>1, <2>1, PricedNeeds
    <2>4. CASE t \in Input
      BY <2>1, <2>2, <2>4 DEF CostOf
    <2>5. CASE t \notin Input
      <3>1. t \in DOMAIN sel /\ number[j] = cost[t]
        BY <2>2, <2>3, <2>5 DEF CostOf
      <3>2. HasPrice(g, t, sel[t], number[j])
        BY <1>1, <3>1 DEF HasPrice
      <3>3. cost[t] \in 0..MaxCost
        BY <1>2, <3>1
      <3>4. number[j] \in Nat
        BY <3>1, <3>3, MaxCostOK
      <3> QED BY <2>1, <3>2, <3>4
    <2> QED BY <2>4, <2>5
  <1> QED BY <1>3, <1>5, <1>6

\* Without cycles, no term with the choice is cheaper than its operands as they are remembered.
LEMMA PriceBounds ==
  ASSUME NEW g \in ExtractGraphs, NEW memory, MemoOK(g, memory), ExactMemo(g, memory), IsCheapMemo(g, memory),
         NEW s, NEW i, NEW c, HasPrice(g, s, i, c),
         NEW n \in 0..Len(ChildrenOf(g, s, i)), AreKnown(KeysOf(g, s, i), n + 1, DOMAIN memory)
  PROVE  CostBefore(g, memory, s, i, n) <= c /\ c \in 0..MaxCost /\ CostBefore(g, memory, s, i, n) \in Nat
PROOF
  <1>1. s \in EClass /\ i \in UsableChoices(g, s) /\ c \in 0..MaxCost
    BY PriceFacts
  <1>2. PICK number :
          /\ c = SumTo(g.choices[s][i].cost, number, Len(ChildrenOf(g, s, i)))
          /\ \A j \in DOMAIN ChildrenOf(g, s, i) :
               /\ number[j] \in Nat
               /\ \/ ChildrenOf(g, s, i)[j] \in Input
                  \/ \E h : HasPrice(g, ChildrenOf(g, s, i)[j], h, number[j])
    BY PriceFacts
  <1>3. i \in DOMAIN g.choices[s] /\ IsUsable(g.choices[s][i])
    BY <1>1 DEF UsableChoices
  <1>4. /\ ChildrenOf(g, s, i) \in Seq(Symbol)
        /\ DOMAIN KeysOf(g, s, i) = DOMAIN ChildrenOf(g, s, i)
        /\ \A j \in DOMAIN ChildrenOf(g, s, i) : KeysOf(g, s, i)[j][2] = ChildrenOf(g, s, i)[j]
        /\ g.choices[s][i].cost \in NoCost..MaxCost
    BY <1>1, <1>3, ChoiceFacts
  <1>5. PICK first \in Nat : first = g.choices[s][i].cost
    BY <1>3, <1>4, MaxCostOK DEF IsUsable, NoCost
  <1>6. PICK l \in Nat : l = Len(ChildrenOf(g, s, i)) /\ DOMAIN ChildrenOf(g, s, i) = 1..l
    BY <1>4
  <1>7. PICK costs : costs = KeyCosts(g, memory, s, i)
    OBVIOUS
  <1>8. ASSUME NEW j \in 1..n PROVE costs[j] \in Nat /\ costs[j] <= number[j]
    <2>1. j \in 1..l /\ j < n + 1
      BY <1>6
    <2>2. PICK k : k = KeysOf(g, s, i)[j] /\ k \in DOMAIN memory /\ k[2] = ChildrenOf(g, s, i)[j]
      BY <1>4, <1>6, <2>1 DEF AreKnown
    <2>3. costs[j] = memory[k].cost
      BY <1>4, <1>6, <1>7, <2>1, <2>2 DEF KeyCosts
    <2>4. memory[k].cost \in Nat
      BY <2>2, MaxCostOK DEF MemoOK, Best
    <2>5. number[j] \in Nat /\ (k[2] \in Input \/ \E h : HasPrice(g, k[2], h, number[j]))
      BY <1>2, <1>6, <2>1, <2>2
    <2>6. CASE k[2] \in Input
      <3>1. memory[k].cost = 0
        BY <2>2, <2>6 DEF ExactMemo
      <3> QED BY <2>3, <2>5, <3>1
    <2>7. CASE \E h : HasPrice(g, k[2], h, number[j])
      BY <2>2, <2>3, <2>4, <2>7 DEF IsCheapMemo
    <2> QED BY <2>5, <2>6, <2>7
  <1>9. n \in Nat /\ n \in 0..l /\ \A j \in 1..n : j \in 1..l
    BY <1>6
  <1>10. \A j \in 1..l : number[j] \in Nat
    BY <1>2, <1>6
  <1>11. \A j \in 1..n : costs[j] \in Nat /\ number[j] \in Nat /\ costs[j] <= number[j]
    BY <1>8, <1>9, <1>10
  <1>12. first <= first
    OBVIOUS
  <1>13. SumTo(first, costs, n) <= SumTo(first, number, n)
    BY <1>9, <1>11, <1>12, SumMonotone
  <1>14. SumTo(first, number, n) <= SumTo(first, number, l)
    BY <1>9, <1>10, SumGrows
  <1>15. SumTo(first, costs, n) \in Nat /\ SumTo(first, number, n) \in Nat /\ SumTo(first, number, l) \in Nat
    <2>1. n \in 0..n /\ l \in 0..l
      BY <1>9
    <2>2. SumTo(first, costs, n) \in Nat
      BY <1>9, <1>11, <2>1, SumNat
    <2>3. SumTo(first, number, n) \in Nat /\ SumTo(first, number, l) \in Nat
      BY <1>9, <1>10, <2>1, SumNat
    <2> QED BY <2>2, <2>3
  <1> QED BY <1>1, <1>2, <1>5, <1>6, <1>7, <1>13, <1>14, <1>15 DEF CostBefore

\* The frames from m on, whose last one asks for the symbol of the first, are a cycle.
LEMMA ChainIsCycle ==
  ASSUME NEW g \in ExtractGraphs, NEW known, NEW frames \in Seq(SearchFrames(g, known)), NEW r, IsChain(g, frames, r),
         NEW m \in DOMAIN frames, NEW f, f = frames[Len(frames)], f.choice # 0,
         f.child \in DOMAIN KeysOf(g, f.key[2], f.choice),
         KeysOf(g, f.key[2], f.choice)[f.child][2] = frames[m].key[2]
  PROVE  ~IsAcyclic(g)
PROOF
  <1>1. PICK l \in Nat : l = Len(frames) /\ DOMAIN frames = 1..l /\ m \in 1..l /\ f = frames[l]
    OBVIOUS
  <1>2. PICK S : S = {frames[n].key[2] : n \in m..l}
    OBVIOUS
  <1>3. \A n \in 1..l : frames[n].key[2] \in EClass
    BY <1>1 DEF SearchFrames, SearchFrame
  <1>4. S \in SUBSET EClass /\ S # {}
    <2>1. \A n \in m..l : n \in 1..l
      BY <1>1
    <2>2. m \in m..l
      BY <1>1
    <2> QED BY <1>2, <1>3, <2>1, <2>2
  <1>5. ASSUME NEW n \in m..l
        PROVE  \E i \in DOMAIN g.choices[frames[n].key[2]] : Needs(g.choices[frames[n].key[2]][i]) \cap S # {}
    <2>1. n \in 1..l
      BY <1>1
    <2>2. PICK e \in SearchFrames(g, known) : e = frames[n]
      BY <1>1, <2>1
    <2>3. /\ e.choice # 0 /\ e.child \in DOMAIN KeysOf(g, e.key[2], e.choice)
          /\ KeysOf(g, e.key[2], e.choice)[e.child][2] \in S
      <3>1. CASE n = l
        <4>1. m \in m..l
          BY <1>1
        <4> QED BY <1>1, <1>2, <2>2, <3>1, <4>1
      <3>2. CASE n # l
        <4>1. n + 1 \in m..l /\ n + 1 \in DOMAIN frames /\ n + 1 > 1 /\ (n + 1) - 1 = n
          BY <1>1, <2>1, <3>2
        <4>2. /\ frames[n].choice # 0
              /\ frames[n].child \in DOMAIN KeysOf(g, frames[n].key[2], frames[n].choice)
              /\ frames[n + 1].key = KeysOf(g, frames[n].key[2], frames[n].choice)[frames[n].child]
          BY <4>1 DEF IsChain
        <4>3. frames[n + 1].key[2] \in S
          BY <1>2, <4>1
        <4> QED BY <2>2, <4>2, <4>3
      <3> QED BY <3>1, <3>2
    <2>4. e.key[2] \in EClass /\ e.choice \in DOMAIN g.choices[e.key[2]]
      BY <1>3, <2>1, <2>2, <2>3 DEF SearchFrames, UsableChoices
    <2>5. /\ DOMAIN KeysOf(g, e.key[2], e.choice) = DOMAIN ChildrenOf(g, e.key[2], e.choice)
          /\ \A j \in DOMAIN ChildrenOf(g, e.key[2], e.choice) :
               KeysOf(g, e.key[2], e.choice)[j][2] = ChildrenOf(g, e.key[2], e.choice)[j]
      BY <2>4, ChoiceFacts
    <2>6. ChildrenOf(g, e.key[2], e.choice)[e.child] \in Needs(g.choices[e.key[2]][e.choice])
      BY <2>3, <2>5 DEF Needs, ChildrenOf
    <2> QED BY <2>2, <2>3, <2>4, <2>5, <2>6
  <1>6. \A s \in S : \E i \in DOMAIN g.choices[s] : Needs(g.choices[s][i]) \cap S # {}
    BY <1>2, <1>5
  <1> QED BY <1>4, <1>6 DEF IsAcyclic

\* The symbols of frames with the same keys.
LEMMA SameSymbols ==
  ASSUME NEW frames, NEW others, NEW n, \A m \in 1..n : others[m].key = frames[m].key
  PROVE  SymbolsTo(others, n) = SymbolsTo(frames, n)
PROOF
  <1> QED BY DEF SymbolsTo

\* What is done remains so when a sum does not fit.
LEMMA DoneStays ==
  ASSUME NEW g, NEW over, NEW more, over => more, NEW A, NEW f, AreDone(g, over, A, f)
  PROVE  AreDone(g, more, A, f)
PROOF
  <1> QED BY DEF AreDone, IsDone

\* A choice that is done may be dropped.
LEMMA DoneAbandon ==
  ASSUME NEW g, NEW over, NEW more, over => more, NEW A, NEW known, NEW f \in SearchFrames(g, known),
         AreDone(g, over, A, f), IsDone(g, more, A, f.key[2], f.choice, f.best)
  PROVE  AreDone(g, more, A, Abandon(f))
PROOF
  <1>1. Abandon(f).key = f.key /\ Abandon(f).left = f.left /\ Abandon(f).best = f.best
    BY DEF Abandon, SearchFrames, SearchFrame
  <1>2. AreDone(g, more, A, f)
    BY DoneStays
  <1> QED BY <1>1, <1>2 DEF AreDone

\* A step that changes only the frame on top.
LEMMA TriesTop ==
  ASSUME ExtractInv, SearchTries, pc = "search", UNCHANGED <<graph, pc, memo>>, stack # <<>>,
         overflowed => overflowed', NEW f, f.key = Top.key, stack' = WithTop(f),
         AreDone(graph, overflowed', SymbolsTo(stack, Len(stack)), f)
  PROVE  SearchTries'
PROOF
  <1>1. stack \in Seq(SearchFrames(graph, DOMAIN memo))
    BY DEF ExtractInv, SearchInv
  <1>2. PICK l \in Nat \ {0} : l = Len(stack) /\ DOMAIN stack = 1..l
    BY <1>1
  <1>3. PICK u : u = stack'
    OBVIOUS
  <1>4. DOMAIN u = 1..l /\ u[l] = f /\ \A n \in 1..l : n # l => u[n] = stack[n]
    BY <1>2, <1>3 DEF WithTop
  <1>5. \A n \in 1..l : u[n].key = stack[n].key
    BY <1>2, <1>4 DEF Top
  <1>6. ASSUME NEW n \in 1..l PROVE AreDone(graph, overflowed', SymbolsTo(u, n), u[n])
    <2>1. \A m \in 1..n : m \in 1..l
      OBVIOUS
    <2>2. SymbolsTo(u, n) = SymbolsTo(stack, n)
      BY <1>5, <2>1, SameSymbols
    <2>3. CASE n = l
      BY <1>2, <1>4, <2>2, <2>3
    <2>4. CASE n # l
      <3>1. AreDone(graph, overflowed, SymbolsTo(stack, n), stack[n])
        BY <1>2 DEF SearchTries
      <3>2. AreDone(graph, overflowed', SymbolsTo(stack, n), stack[n])
        BY <3>1, DoneStays
      <3> QED BY <1>4, <2>2, <2>4, <3>2
    <2> QED BY <2>3, <2>4
  <1>7. \A n \in DOMAIN u : AreDone(graph, overflowed', SymbolsTo(u, n), u[n])
    BY <1>4, <1>6
  <1>8. IsAcyclic(graph) => IsCheapMemo(graph, memo)
    BY DEF SearchTries
  <1> QED BY <1>3, <1>7, <1>8 DEF SearchTries

\* What the frame on top asks for.
LEMMA TopAsks ==
  ASSUME ExtractInv, SearchCosts, SearchTries, pc = "search", stack # <<>>
  PROVE  /\ graph \in ExtractGraphs /\ Top \in SearchFrames(graph, DOMAIN memo) /\ Top \in SearchFrame
         /\ Top.key[2] \in EClass /\ Top = stack[Len(stack)]
         /\ AreDone(graph, overflowed, SymbolsTo(stack, Len(stack)), Top)
         /\ IsCalling => /\ Top.choice # 0 /\ Top.choice \in UsableChoices(graph, Top.key[2])
                         /\ Top.child \in DOMAIN KeysOf(graph, Top.key[2], Top.choice)
                         /\ Callee = KeysOf(graph, Top.key[2], Top.choice)[Top.child]
                         /\ Callee[2] \in Needs(graph.choices[Top.key[2]][Top.choice])
PROOF
  <1>1. graph \in ExtractGraphs /\ Top \in SearchFrames(graph, DOMAIN memo) /\ Top \in SearchFrame
        /\ Top.key[2] \in EClass /\ Top = stack[Len(stack)] /\ stack \in Seq(SearchFrames(graph, DOMAIN memo))
    BY ExactTop DEF ExtractInv, SearchInv
  <1>2. PICK l \in Nat \ {0} : l = Len(stack) /\ DOMAIN stack = 1..l /\ l \in 1..l
    BY <1>1
  <1>3. AreDone(graph, overflowed, SymbolsTo(stack, Len(stack)), Top)
    BY <1>1, <1>2 DEF SearchTries
  <1>4. ASSUME IsCalling
        PROVE  /\ Top.choice # 0 /\ Top.choice \in UsableChoices(graph, Top.key[2])
               /\ Top.child \in DOMAIN KeysOf(graph, Top.key[2], Top.choice)
               /\ Callee = KeysOf(graph, Top.key[2], Top.choice)[Top.child]
               /\ Callee[2] \in Needs(graph.choices[Top.key[2]][Top.choice])
    <2>1. /\ Top.choice # 0 /\ Top.choice \in UsableChoices(graph, Top.key[2])
          /\ Top.child \in DOMAIN KeysOf(graph, Top.key[2], Top.choice)
          /\ Callee = KeysOf(graph, Top.key[2], Top.choice)[Top.child]
      BY <1>4, SearchTop DEF IsCalling, Callee
    <2>2a. PICK s \in EClass : \E i : i \in DOMAIN graph.choices[s] /\ s = Top.key[2] /\ i = Top.choice
      BY <1>1, <2>1 DEF UsableChoices
    <2>2. PICK i : i \in DOMAIN graph.choices[s] /\ s = Top.key[2] /\ i = Top.choice
      BY <2>2a
    <2>3. /\ DOMAIN KeysOf(graph, s, i) = DOMAIN ChildrenOf(graph, s, i)
          /\ \A j \in DOMAIN ChildrenOf(graph, s, i) : KeysOf(graph, s, i)[j][2] = ChildrenOf(graph, s, i)[j]
      BY <1>1, <2>2, ChoiceFacts
    <2>4. Callee[2] = ChildrenOf(graph, s, i)[Top.child] /\ Top.child \in DOMAIN ChildrenOf(graph, s, i)
      BY <2>1, <2>2, <2>3
    <2> QED BY <2>1, <2>2, <2>4 DEF Needs, ChildrenOf
  <1> QED BY <1>1, <1>3, <1>4

\* A symbol that is being computed is asked for: this choice needs the symbol itself.
LEMMA TriesCutCycle ==
  ASSUME ExtractInv, SearchCosts, SearchOrder, SearchTries, CutCycle PROVE SearchTries'
PROOF
  <1>1. pc = "search" /\ IsCalling /\ stack' = WithTop(Abandon(Top)) /\ UNCHANGED <<graph, pc, memo, overflowed>>
    BY DEF CutCycle
  <1>2. PICK m \in DOMAIN stack : Callee = stack[m].key
    BY DEF CutCycle, ActiveKeys
  <1>3. stack # <<>>
    BY <1>2
  <1>4. PICK f \in SearchFrames(graph, DOMAIN memo) : f = Top
    BY <1>1, <1>3, TopAsks
  <1>5. /\ f.choice # 0 /\ f.child \in DOMAIN KeysOf(graph, f.key[2], f.choice)
        /\ KeysOf(graph, f.key[2], f.choice)[f.child][2] = stack[m].key[2]
        /\ stack[m].key[2] \in Needs(graph.choices[f.key[2]][f.choice])
        /\ f = stack[Len(stack)] /\ graph \in ExtractGraphs
        /\ AreDone(graph, overflowed, SymbolsTo(stack, Len(stack)), f)
        /\ f \in SearchFrame
    BY <1>1, <1>2, <1>3, <1>4, TopAsks
  <1>6. /\ stack \in Seq(SearchFrames(graph, DOMAIN memo)) /\ IsChain(graph, stack, root)
    BY <1>1 DEF ExtractInv, SearchInv, SearchOrder
  <1>7. stack[m].key[2] \in SymbolsTo(stack, Len(stack)) \cap EClass
    <2>1. DOMAIN stack = 1..Len(stack)
      BY <1>6
    <2>2. stack[m] \in SearchFrame
      BY <1>6 DEF SearchFrames
    <2> QED BY <2>1, <2>2 DEF SymbolsTo, SearchFrame
  <1>8. stack[m].key[2] \notin SolvableWithout(graph, SymbolsTo(stack, Len(stack)))
    BY <1>7, AvoidedHasNone
  <1>9. ~IsAcyclic(graph)
    BY <1>5, <1>6, ChainIsCycle
  <1>10. IsDone(graph, overflowed, SymbolsTo(stack, Len(stack)), f.key[2], f.choice, f.best)
    BY <1>5, <1>8, <1>9 DEF IsDone
  <1>11. AreDone(graph, overflowed, SymbolsTo(stack, Len(stack)), Abandon(f))
    BY <1>5, <1>10, DoneAbandon
  <1>12. Abandon(f).key = f.key
    BY <1>5 DEF Abandon, SearchFrame
  <1> QED BY <1>1, <1>3, <1>4, <1>11, <1>12, TriesTop

\* The next choice: one without a cost gives no term.
LEMMA TriesTryChoice ==
  ASSUME ExtractInv, SearchCosts, SearchTries, TryChoice PROVE SearchTries'
PROOF
  <1>1. pc = "search" /\ stack # <<>> /\ UNCHANGED <<graph, pc, memo, overflowed>>
    BY DEF TryChoice
  <1>2. PICK f \in SearchFrame : f = Top /\ f.choice = 0 /\ f.key[2] \in EClass
                                /\ f \in SearchFrames(graph, DOMAIN memo)
    BY <1>1, TopAsks DEF TryChoice
  <1>3. PICK i \in f.left : stack' = WithTop(IF IsUsable(graph.choices[f.key[2]][i])
                               THEN [f EXCEPT !.left = @ \ {i}, !.choice = i, !.child = FirstChild,
                                              !.cost = graph.choices[f.key[2]][i].cost]
                               ELSE [f EXCEPT !.left = @ \ {i}])
    BY <1>2 DEF TryChoice
  <1>4. PICK A : A = SymbolsTo(stack, Len(stack)) /\ AreDone(graph, overflowed, A, f)
    BY <1>1, <1>2, TopAsks
  <1>5. 0 \notin UsableChoices(graph, f.key[2])
    BY <1>1, <1>2, ChoiceFacts, TopAsks DEF UsableChoices
  <1>6. PICK h : /\ stack' = WithTop(h) /\ h.key = f.key /\ h.left = f.left \ {i} /\ h.best = f.best
                 /\ h.choice = IF IsUsable(graph.choices[f.key[2]][i]) THEN i ELSE 0
    <2>1. CASE IsUsable(graph.choices[f.key[2]][i])
      <3>1. PICK h : h = [f EXCEPT !.left = @ \ {i}, !.choice = i, !.child = FirstChild,
                                   !.cost = graph.choices[f.key[2]][i].cost]
        OBVIOUS
      <3>2. h.key = f.key /\ h.left = f.left \ {i} /\ h.best = f.best /\ h.choice = i
        BY <3>1 DEF SearchFrame
      <3>3. stack' = WithTop(h)
        BY <1>3, <2>1, <3>1
      <3>4. h.choice = IF IsUsable(graph.choices[f.key[2]][i]) THEN i ELSE 0
        BY <2>1, <3>2
      <3> QED BY <3>2, <3>3, <3>4, Zenon
    <2>2. CASE ~IsUsable(graph.choices[f.key[2]][i])
      <3>1. PICK h : h = [f EXCEPT !.left = @ \ {i}]
        OBVIOUS
      <3>2. h.key = f.key /\ h.left = f.left \ {i} /\ h.best = f.best /\ h.choice = 0
        BY <1>2, <3>1 DEF SearchFrame
      <3>3. stack' = WithTop(h)
        BY <1>3, <2>2, <3>1
      <3>4. h.choice = IF IsUsable(graph.choices[f.key[2]][i]) THEN i ELSE 0
        BY <2>2, <3>2
      <3> QED BY <3>2, <3>3, <3>4, Zenon
    <2> QED BY <2>1, <2>2
  <1>7. ASSUME NEW j \in UsableChoices(graph, f.key[2])
        PROVE  j \in h.left \/ j = h.choice \/ IsDone(graph, overflowed, A, f.key[2], j, f.best)
    <2>1. j = i => j = h.choice
      BY <1>6 DEF UsableChoices
    <2>2. j \in f.left \/ IsDone(graph, overflowed, A, f.key[2], j, f.best)
      BY <1>2, <1>4, <1>5 DEF AreDone
    <2> QED BY <1>6, <2>1, <2>2
  <1>8. AreDone(graph, overflowed, A, h)
    BY <1>6, <1>7 DEF AreDone
  <1>9. h.key = Top.key
    BY <1>2, <1>6
  <1> QED BY <1>1, <1>4, <1>6, <1>8, <1>9, TriesTop

\* An operand is added; a choice whose cost does not fit has no term that costs what is allowed.
LEMMA TriesAddChild ==
  ASSUME ExtractInv, SearchCosts, SearchTries, AddChild PROVE SearchTries'
PROOF
  <1>1. pc = "search" /\ stack # <<>> /\ UNCHANGED <<graph, pc, memo>> /\ IsCalling /\ Callee \in DOMAIN memo
    BY DEF AddChild
  <1>2. PICK f \in SearchFrame : f = Top /\ f.key[2] \in EClass /\ f \in SearchFrames(graph, DOMAIN memo)
    BY <1>1, TopAsks
  <1>3. /\ f.choice # 0 /\ f.choice \in UsableChoices(graph, f.key[2])
        /\ Callee = KeysOf(graph, f.key[2], f.choice)[f.child] /\ f.child \in DOMAIN KeysOf(graph, f.key[2], f.choice)
        /\ graph \in ExtractGraphs
    BY <1>1, <1>2, TopAsks
  <1>4. PICK cost : cost = memo[Callee].cost
    OBVIOUS
  <1>5. PICK A : A = SymbolsTo(stack, Len(stack)) /\ AreDone(graph, overflowed, A, f)
    BY <1>1, <1>2, TopAsks
  <1>6. CASE Fits(f.cost, cost)
    <2>1. PICK h : h = [f EXCEPT !.child = @ + 1, !.cost = @ + cost]
      OBVIOUS
    <2>2. stack' = WithTop(h) /\ UNCHANGED overflowed
      BY <1>2, <1>4, <1>6, <2>1 DEF AddChild
    <2>3. h.key = f.key /\ h.left = f.left /\ h.best = f.best /\ h.choice = f.choice
      BY <2>1 DEF SearchFrame
    <2>4. AreDone(graph, overflowed', A, h)
      BY <1>5, <2>2, <2>3 DEF AreDone
    <2> QED BY <1>1, <1>2, <1>5, <2>2, <2>3, <2>4, TriesTop
  <1>7. CASE ~Fits(f.cost, cost)
    <2>1. stack' = WithTop(Abandon(f)) /\ overflowed' = TRUE
      BY <1>2, <1>4, <1>7 DEF AddChild
    <2>2a. PICK s \in EClass : \E i : s = f.key[2] /\ i = f.choice /\ i \in UsableChoices(graph, s) /\ i \in DOMAIN graph.choices[s]
      BY <1>2, <1>3 DEF UsableChoices
    <2>2. PICK i : s = f.key[2] /\ i = f.choice /\ i \in UsableChoices(graph, s) /\ i \in DOMAIN graph.choices[s]
      BY <2>2a
    <2>3. ChildrenOf(graph, s, i) \in Seq(Symbol) /\ DOMAIN KeysOf(graph, s, i) = DOMAIN ChildrenOf(graph, s, i)
      BY <1>3, <2>2, ChoiceFacts
    <2>4. PICK l \in Nat : l = Len(ChildrenOf(graph, s, i)) /\ DOMAIN KeysOf(graph, s, i) = 1..l
      BY <2>3
    <2>5. PICK n \in Nat : f.child = n + 1 /\ n + 1 <= l
      <3>1. f.child \in 1..l
        BY <1>3, <2>2, <2>4
      <3>2. f.child - 1 \in Nat /\ f.child = (f.child - 1) + 1
        BY <3>1
      <3> QED BY <3>1, <3>2
    <2>6. f.cost = CostBefore(graph, memo, s, i, n)
      <3>1. f \in ExactFrames(graph, memo)
        BY <1>1, <1>2, ExactTop
      <3> QED BY <1>3, <2>2, <2>5, <3>1 DEF ExactFrames
    <2>7. KeyCosts(graph, memo, s, i)[n + 1] = cost
      BY <1>3, <1>4, <2>2, <2>5 DEF KeyCosts
    <2>8. CostBefore(graph, memo, s, i, n + 1) = f.cost + cost
      BY <2>6, <2>7, SumNext DEF CostBefore
    <2>9. AreKnown(KeysOf(graph, s, i), (n + 1) + 1, DOMAIN memo)
      <3>1. AreKnown(KeysOf(graph, s, i), n + 1, DOMAIN memo)
        BY <1>2, <1>3, <2>2, <2>5 DEF SearchFrames
      <3>2. KeysOf(graph, s, i)[n + 1] \in DOMAIN memo
        BY <1>1, <1>3, <2>2, <2>5
      <3>3. DOMAIN KeysOf(graph, s, i) \subseteq Nat /\ n + 1 \in Nat
        BY <2>4
      <3> QED BY <3>1, <3>2, <3>3, KnownNext
    <2>10. f.cost \in Nat /\ cost \in Nat /\ f.cost + cost > MaxCost
      <3>1. f.cost \in 0..MaxCost
        BY DEF SearchFrame
      <3>2. memo[Callee] \in Best
        BY <1>1 DEF ExtractInv, ExtractTypeOK, MemoOK
      <3>3. cost \in 0..MaxCost
        BY <1>4, <3>2 DEF Best
      <3> QED BY <1>7, <3>1, <3>3, MaxCostOK DEF Fits
    <2>11. ASSUME IsAcyclic(graph), NEW c, HasPrice(graph, s, i, c) PROVE FALSE
      <3>1. MemoOK(graph, memo) /\ ExactMemo(graph, memo) /\ IsCheapMemo(graph, memo)
        BY <1>1, <2>11, ExactTop DEF SearchTries
      <3>2. n + 1 \in 0..Len(ChildrenOf(graph, s, i))
        BY <2>4, <2>5
      <3>3. CostBefore(graph, memo, s, i, n + 1) <= c /\ c \in 0..MaxCost
        BY <1>3, <2>9, <2>11, <3>1, <3>2, PriceBounds
      <3> QED BY <2>8, <2>10, <3>3, MaxCostOK
    <2>12. IsDone(graph, overflowed', A, s, i, f.best)
      BY <2>1, <2>11 DEF IsDone
    <2>13. AreDone(graph, overflowed', A, Abandon(f))
      BY <1>2, <1>5, <2>1, <2>2, <2>12, DoneAbandon
    <2>14. Abandon(f).key = f.key
      BY DEF Abandon, SearchFrame
    <2> QED BY <1>1, <1>2, <1>5, <2>1, <2>13, <2>14, TriesTop
  <1> QED BY <1>6, <1>7

\* A choice whose operands all have terms, as cheap as they can be, has a term as cheap as it can be.
LEMMA TriesKeepBest ==
  ASSUME ExtractInv, SearchCosts, SearchTries, KeepBest PROVE SearchTries'
PROOF
  <1>1. pc = "search" /\ stack # <<>> /\ UNCHANGED <<graph, pc, memo, overflowed>> /\ ~IsCalling /\ Top.choice # 0
    BY DEF KeepBest
  <1>2. PICK f \in SearchFrame : f = Top /\ f.key[2] \in EClass /\ f \in SearchFrames(graph, DOMAIN memo)
    BY <1>1, TopAsks
  <1>3. PICK A : A = SymbolsTo(stack, Len(stack)) /\ AreDone(graph, overflowed, A, f)
    BY <1>1, <1>2, TopAsks
  <1>4a. PICK s \in EClass : \E i : /\ s = f.key[2] /\ i = f.choice /\ i \in UsableChoices(graph, s)
                                    /\ i \in DOMAIN graph.choices[s] /\ f.child \notin DOMAIN KeysOf(graph, s, i)
                                    /\ graph \in ExtractGraphs /\ f \in ExactFrames(graph, memo)
    BY <1>1, <1>2, SearchTop, ExactTop DEF IsCalling, UsableChoices
  <1>4. PICK i : /\ s = f.key[2] /\ i = f.choice /\ i \in UsableChoices(graph, s)
                 /\ i \in DOMAIN graph.choices[s] /\ f.child \notin DOMAIN KeysOf(graph, s, i)
                 /\ graph \in ExtractGraphs /\ f \in ExactFrames(graph, memo)
    BY <1>4a
  <1>5. ChildrenOf(graph, s, i) \in Seq(Symbol) /\ DOMAIN KeysOf(graph, s, i) = DOMAIN ChildrenOf(graph, s, i)
    BY <1>4, ChoiceFacts
  <1>6. PICK l \in Nat : l = Len(ChildrenOf(graph, s, i)) /\ DOMAIN KeysOf(graph, s, i) = 1..l
    BY <1>5
  <1>7. f.child - 1 = l /\ f.child = l + 1
    <2>1. f.child \in Steps /\ f.child <= l + 1
      BY <1>1, <1>2, <1>4, <1>6 DEF ExactFrames, SearchFrame
    <2> QED BY <1>4, <1>6, <2>1 DEF Steps
  <1>8. f.cost = CostBefore(graph, memo, s, i, l)
    BY <1>1, <1>2, <1>4, <1>7 DEF ExactFrames
  <1>9. ASSUME IsAcyclic(graph), NEW c, HasPrice(graph, s, i, c) PROVE f.cost <= c /\ c \in Nat
    <2>1. MemoOK(graph, memo) /\ ExactMemo(graph, memo) /\ IsCheapMemo(graph, memo)
      BY <1>1, <1>9, ExactTop DEF SearchTries
    <2>2. l \in 0..Len(ChildrenOf(graph, s, i)) /\ AreKnown(KeysOf(graph, s, i), l + 1, DOMAIN memo)
      BY <1>1, <1>2, <1>4, <1>6, <1>7 DEF SearchFrames
    <2>3. CostBefore(graph, memo, s, i, l) <= c /\ c \in 0..MaxCost
      BY <1>4, <1>9, <2>1, <2>2, PriceBounds
    <2> QED BY <1>8, <2>3, MaxCostOK
  <1>10. PICK best : best = IF IsBetter(f.cost, f.best) THEN [choice |-> i, cost |-> f.cost] ELSE f.best
    OBVIOUS
  <1>11. PICK h : h = [f EXCEPT !.choice = 0, !.best = best]
    OBVIOUS
  <1>12. stack' = WithTop(h)
    BY <1>2, <1>4, <1>10, <1>11 DEF KeepBest
  <1>13. h.key = f.key /\ h.choice = 0 /\ h.left = f.left /\ h.best = best
    BY <1>11 DEF SearchFrame
  <1>14. /\ best.choice # 0 /\ best.cost <= f.cost
         /\ f.best.choice # 0 => best.cost <= f.best.cost
         /\ f.cost \in Nat /\ f.best.cost \in Nat /\ best.cost \in Nat
    <2>1. f.cost \in 0..MaxCost /\ f.best \in Best
      BY DEF SearchFrame
    <2>2. f.cost \in Nat /\ f.best.cost \in Nat
      BY <2>1, MaxCostOK DEF Best
    <2>3. CASE IsBetter(f.cost, f.best)
      <3>1. best.choice = i /\ best.cost = f.cost
        BY <1>10, <2>3
      <3>2. i # 0
        BY <1>1, <1>2, <1>4
      <3> QED BY <2>2, <2>3, <3>1, <3>2 DEF IsBetter
    <2>4. CASE ~IsBetter(f.cost, f.best)
      BY <1>10, <2>2, <2>4 DEF IsBetter
    <2> QED BY <2>3, <2>4
  <1>15. ASSUME NEW j \in UsableChoices(graph, s), j \notin f.left
         PROVE  IsDone(graph, overflowed, A, s, j, best)
    <2>1. ASSUME IsAcyclic(graph), NEW c, HasPrice(graph, s, j, c) PROVE best.cost <= c
      <3>1. CASE j = i
        BY <1>9, <1>14, <2>1, <3>1
      <3>2. CASE j # i
        <4>1. IsDone(graph, overflowed, A, s, j, f.best)
          BY <1>3, <1>4, <1>15, <3>2 DEF AreDone
        <4>2. f.best.choice # 0 /\ f.best.cost <= c
          BY <2>1, <4>1 DEF IsDone
        <4>3. c \in Nat
          BY <1>4, <2>1, PriceFacts, MaxCostOK
        <4> QED BY <1>14, <4>2, <4>3
      <3> QED BY <3>1, <3>2
    <2> QED BY <1>14, <2>1 DEF IsDone
  <1>16. AreDone(graph, overflowed, A, h)
    BY <1>4, <1>13, <1>15 DEF AreDone
  <1> QED BY <1>1, <1>2, <1>3, <1>12, <1>13, <1>16, TriesTop

\* The frames of another stack with the keys of this one, when those that changed are done.
LEMMA TriesFrames ==
  ASSUME SearchTries, pc = "search", UNCHANGED overflowed, NEW frames, NEW n \in Nat,
         1..n \subseteq DOMAIN stack, \A m \in 1..n : frames[m].key = stack[m].key,
         \A m \in 1..n : frames[m] = stack[m] \/ AreDone(graph, overflowed, SymbolsTo(stack, m), frames[m])
  PROVE  \A m \in 1..n : AreDone(graph, overflowed, SymbolsTo(frames, m), frames[m])
PROOF
  <1> TAKE m \in 1..n
  <1>1. \A o \in 1..m : o \in 1..n
    OBVIOUS
  <1>2. SymbolsTo(frames, m) = SymbolsTo(stack, m)
    BY <1>1, SameSymbols
  <1>3. AreDone(graph, overflowed, SymbolsTo(stack, m), stack[m])
    BY DEF SearchTries
  <1> QED BY <1>2, <1>3

\* A key is searched: all its choices are left; an input needs no search.
LEMMA TriesSearch ==
  ASSUME ExtractInv, SearchTries, Search PROVE SearchTries'
PROOF
  <1>1. pc = "search" /\ IsCalling /\ UNCHANGED <<graph, pc, overflowed>> /\ stack \in Seq(SearchFrames(graph, DOMAIN memo))
        /\ graph \in ExtractGraphs /\ Callee \notin DOMAIN memo
    BY DEF Search, ExtractInv, ExtractTypeOK, SearchInv
  <1>2. PICK k : k = Callee
    OBVIOUS
  <1>3. CASE k[2] \in Input
    <2>1. memo' = Extend(memo, k, NoBest) /\ UNCHANGED stack
      BY <1>2, <1>3 DEF Search
    <2>2. PICK more : more = memo' /\ DOMAIN more = DOMAIN memo \cup {k} /\ \A l \in DOMAIN memo : more[l] = memo[l]
      BY <1>1, <1>2, <2>1 DEF Extend
    <2>3. \A i, c : ~HasPrice(graph, k[2], i, c)
      BY <1>1, <1>3, PriceFacts DEF EClass
    <2>4. IsCheapMemo(graph, memo) => IsCheapMemo(graph, more)
      BY <2>2, <2>3 DEF IsCheapMemo
    <2> QED BY <1>1, <2>1, <2>2, <2>4 DEF SearchTries
  <1>4. CASE k[2] \notin Input
    <2>1. PICK f : f = [key |-> k, left |-> DOMAIN graph.choices[k[2]], choice |-> 0, child |-> 1,
                        cost |-> 0, best |-> NoBest]
      OBVIOUS
    <2>2. stack' = Append(stack, f) /\ UNCHANGED memo
      BY <1>2, <1>4, <2>1 DEF Search
    <2>3. PICK l \in Nat : l = Len(stack) /\ DOMAIN stack = 1..l
      BY <1>1
    <2>4. PICK u : u = Append(stack, f)
      OBVIOUS
    <2>5. DOMAIN u = 1..(l + 1) /\ u[l + 1] = f /\ \A n \in 1..l : u[n] = stack[n]
      <3>1. stack \in Seq(SearchFrames(graph, DOMAIN memo) \cup {f})
        BY <1>1, WeakerFrames
      <3>2. u \in Seq(SearchFrames(graph, DOMAIN memo) \cup {f}) /\ Len(u) = l + 1 /\ u[l + 1] = f
            /\ \A n \in 1..l : u[n] = stack[n]
        BY <2>3, <2>4, <3>1, PushFrame
      <3> QED BY <3>2
    <2>6. \A n \in 1..l : AreDone(graph, overflowed, SymbolsTo(u, n), u[n])
      BY <1>1, <2>3, <2>5, TriesFrames
    <2>7. AreDone(graph, overflowed, SymbolsTo(u, l + 1), f)
      BY <2>1 DEF AreDone, UsableChoices
    <2>8. \A n \in 1..(l + 1) : n \in 1..l \/ n = l + 1
      OBVIOUS
    <2>9. \A n \in DOMAIN u : AreDone(graph, overflowed, SymbolsTo(u, n), u[n])
      BY <2>5, <2>6, <2>7, <2>8
    <2> QED BY <1>1, <2>2, <2>4, <2>9 DEF SearchTries
  <1> QED BY <1>3, <1>4

\* All choices are done, and the best term is remembered: there is none cheaper.
LEMMA TriesMemoize ==
  ASSUME ExtractInv, SearchCosts, SearchTries, Memoize PROVE SearchTries'
PROOF
  <1>1. /\ pc = "search" /\ stack # <<>> /\ UNCHANGED <<graph, pc, overflowed>>
        /\ Top.choice = 0 /\ Top.left = {} /\ Top.best.choice # 0
        /\ memo' = Extend(memo, Top.key, Top.best) /\ stack' = Pop(stack)
    BY DEF Memoize
  <1>2. PICK f \in SearchFrame : f = Top /\ AreDone(graph, overflowed, SymbolsTo(stack, Len(stack)), f)
                                 /\ graph \in ExtractGraphs
    BY <1>1, TopAsks
  <1>3. PICK k : k = f.key /\ k \notin DOMAIN memo
    BY <1>1, <1>2, ExactTop DEF ExactFrames
  <1>4. PICK more : more = memo' /\ DOMAIN more = DOMAIN memo \cup {k} /\ more[k] = f.best
                    /\ \A l \in DOMAIN memo : more[l] = memo[l]
    BY <1>1, <1>2, <1>3 DEF Extend
  <1>5. IsAcyclic(graph) => IsCheapMemo(graph, more)
    <2>1. ASSUME IsAcyclic(graph), NEW i, NEW c, HasPrice(graph, k[2], i, c) PROVE f.best.cost <= c
      <3>1. i \in UsableChoices(graph, k[2]) /\ i # 0
        <4>1. k[2] \in EClass /\ i \in UsableChoices(graph, k[2])
          BY <1>2, <2>1, PriceFacts
        <4> QED BY <1>2, <4>1, ChoiceFacts DEF UsableChoices
      <3>2. IsDone(graph, overflowed, SymbolsTo(stack, Len(stack)), k[2], i, f.best)
        BY <1>1, <1>2, <1>3, <3>1 DEF AreDone
      <3> QED BY <2>1, <3>2 DEF IsDone
    <2>2. IsAcyclic(graph) => IsCheapMemo(graph, memo)
      BY DEF SearchTries
    <2> QED BY <1>4, <2>1, <2>2 DEF IsCheapMemo
  <1>6. PICK u : u = Pop(stack)
    OBVIOUS
  <1>7. PICK l \in Nat : DOMAIN u = 1..l /\ 1..l \subseteq DOMAIN stack /\ \A n \in 1..l : u[n] = stack[n]
    <2>1. stack \in Seq(SearchFrames(graph, DOMAIN memo))
      BY <1>1 DEF ExtractInv, SearchInv
    <2>2. PICK m \in Nat \ {0} : m = Len(stack) /\ DOMAIN stack = 1..m
      BY <1>1, <2>1
    <2>3. m - 1 \in Nat /\ 1..(m - 1) \subseteq 1..m /\ DOMAIN u = 1..(m - 1) /\ \A n \in 1..(m - 1) : u[n] = stack[n]
      BY <1>6, <2>2 DEF Pop
    <2> QED BY <2>2, <2>3
  <1>8. \A n \in 1..l : AreDone(graph, overflowed, SymbolsTo(u, n), u[n])
    BY <1>1, <1>7, TriesFrames
  <1> QED BY <1>1, <1>4, <1>5, <1>6, <1>7, <1>8 DEF SearchTries

\* No choice has a term: the choice of the caller has none, or the root that was asked for.
LEMMA TriesGiveUp ==
  ASSUME ExtractInv, SearchCosts, SearchOrder, SearchTries, GiveUp PROVE SearchTries'
PROOF
  <1>1. /\ pc = "search" /\ stack # <<>> /\ UNCHANGED <<graph, mode, memo, overflowed>>
        /\ Top.choice = 0 /\ Top.left = {} /\ Top.best.choice = 0
    BY DEF GiveUp
  <1>2. PICK f \in SearchFrame :
          /\ f = Top /\ AreDone(graph, overflowed, SymbolsTo(stack, Len(stack)), f) /\ graph \in ExtractGraphs
          /\ f = stack[Len(stack)] /\ f.key[2] \in EClass
    BY <1>1, TopAsks
  <1>3. PICK t \in EClass : t = f.key[2]
    BY <1>2
  <1>4. PICK l \in Nat \ {0} : l = Len(stack) /\ DOMAIN stack = 1..l /\ l \in 1..l
    <2>1. stack \in Seq(SearchFrames(graph, DOMAIN memo))
      BY <1>1 DEF ExtractInv, SearchInv
    <2> QED BY <1>1, <2>1
  <1>5. ASSUME NEW i \in UsableChoices(graph, t)
        PROVE  IsDone(graph, overflowed, SymbolsTo(stack, l), t, i, f.best)
    <2>1. i # 0
      BY <1>2, ChoiceFacts DEF UsableChoices
    <2> QED BY <1>1, <1>2, <1>3, <1>4, <2>1 DEF AreDone
  <1>6. ~overflowed => \A i \in UsableChoices(graph, t) :
                         ~(Needs(graph.choices[t][i]) \subseteq SolvableWithout(graph, SymbolsTo(stack, l)))
    BY <1>1, <1>2, <1>5 DEF IsDone
  <1>7. ASSUME IsAcyclic(graph), NEW i, NEW c, HasPrice(graph, t, i, c) PROVE FALSE
    <2>1. i \in UsableChoices(graph, t)
      BY <1>2, <1>7, PriceFacts
    <2> QED BY <1>1, <1>2, <1>5, <1>7, <2>1 DEF IsDone
  <1>8. PICK A : A = SymbolsTo(stack, l - 1) /\ SymbolsTo(stack, l) = A \cup {t}
    <2>1. \A n : n \in 1..l <=> n \in 1..(l - 1) \/ n = l
      OBVIOUS
    <2>2. stack[l].key[2] = t
      BY <1>2, <1>3, <1>4
    <2>3. PICK A : A = SymbolsTo(stack, l - 1)
      OBVIOUS
    <2>4. \A s : s \in SymbolsTo(stack, l) <=> s \in A \/ s = t
      <3> TAKE s
      <3>1. s \in SymbolsTo(stack, l) <=> \E n \in 1..l : s = stack[n].key[2]
        BY DEF SymbolsTo
      <3>2. s \in A <=> \E n \in 1..(l - 1) : s = stack[n].key[2]
        BY <2>3 DEF SymbolsTo
      <3> QED BY <1>4, <2>1, <2>2, <3>1, <3>2
    <2> QED BY <2>3, <2>4
  <1>9. ~overflowed => t \notin SolvableWithout(graph, A)
    BY <1>6, <1>8, NoChoiceNoTerm
  <1>10. IsChain(graph, stack, root) /\ (IsAcyclic(graph) => IsCheapMemo(graph, memo))
    BY <1>1 DEF SearchOrder, SearchTries
  <1>11. CASE l = 1
    <2>1. pc' = "idle"
      BY <1>4, <1>11 DEF GiveUp, Fail
    <2>2. A = {}
      BY <1>8, <1>11 DEF SymbolsTo
    <2>3. ~overflowed => t \notin Solvable(graph)
      BY <1>9, <2>2, SolvableWithoutNothing
    <2>4. root \in DOMAIN graph.roots /\ f.key = RootKeys(graph)[root]
      BY <1>2, <1>4, <1>10, <1>11 DEF IsChain
    <2>5. t \in Roots(graph)
      BY <1>2, <1>3, <2>4, RootFacts DEF Roots
    <2> QED BY <1>1, <1>10, <2>1, <2>3, <2>5 DEF SearchTries
  <1>12. CASE l # 1
    <2>1. PICK n \in Nat \ {0} : n = l - 1 /\ n \in 1..l /\ l > 1 /\ n + 1 = l
      BY <1>12
    <2>2. PICK e \in SearchFrames(graph, DOMAIN memo) : e = stack[n]
      BY <1>1, <1>4, <2>1 DEF ExtractInv, SearchInv
    <2>3. /\ e.choice # 0 /\ e.child \in DOMAIN KeysOf(graph, e.key[2], e.choice)
          /\ f.key = KeysOf(graph, e.key[2], e.choice)[e.child]
      BY <1>2, <1>4, <1>10, <2>1, <2>2 DEF IsChain
    <2>4. e \in SearchFrame /\ e.key[2] \in EClass /\ e.choice \in DOMAIN graph.choices[e.key[2]]
      BY <2>2, <2>3 DEF SearchFrames, SearchFrame, UsableChoices
    <2>5. e.child \in DOMAIN ChildrenOf(graph, e.key[2], e.choice) /\ t = ChildrenOf(graph, e.key[2], e.choice)[e.child]
      BY <1>2, <1>3, <2>3, <2>4, ChoiceFacts
    <2>6. t \in Needs(graph.choices[e.key[2]][e.choice])
      BY <2>5 DEF Needs, ChildrenOf
    <2>7. ASSUME IsAcyclic(graph), NEW c, HasPrice(graph, e.key[2], e.choice, c) PROVE FALSE
      <3>1. PICK number :
              \A j \in DOMAIN ChildrenOf(graph, e.key[2], e.choice) :
                 /\ number[j] \in Nat
                 /\ \/ ChildrenOf(graph, e.key[2], e.choice)[j] \in Input
                    \/ \E h : HasPrice(graph, ChildrenOf(graph, e.key[2], e.choice)[j], h, number[j])
        BY <1>2, <2>7, PriceFacts
      <3>2. t \in Input \/ \E h : HasPrice(graph, t, h, number[e.child])
        BY <2>5, <3>1
      <3> QED BY <1>7, <2>7, <3>2 DEF EClass
    <2>8. IsDone(graph, overflowed, A, e.key[2], e.choice, e.best)
      BY <1>9, <2>6, <2>7 DEF IsDone
    <2>9. AreDone(graph, overflowed, A, e)
      BY <1>1, <1>4, <1>8, <2>1, <2>2 DEF SearchTries
    <2>10. AreDone(graph, overflowed, A, Abandon(e)) /\ Abandon(e).key = e.key
      BY <2>2, <2>4, <2>8, <2>9, DoneAbandon DEF Abandon, SearchFrame
    <2>11. PICK u : u = [Pop(stack) EXCEPT ![n] = Abandon(@)]
      OBVIOUS
    <2>12. stack' = u /\ UNCHANGED pc
      BY <1>4, <1>12, <2>1, <2>11 DEF GiveUp
    <2>13. DOMAIN u = 1..n /\ u[n] = Abandon(e) /\ \A m \in 1..n : m # n => u[m] = stack[m]
      <3>0. Len(stack) - 1 = n
        BY <1>4, <2>1
      <3>1. PICK rest : rest = Pop(stack) /\ DOMAIN rest = 1..n /\ \A m \in 1..n : rest[m] = stack[m]
        <4>1. PICK rest : rest = Pop(stack)
          OBVIOUS
        <4>2. rest = [m \in 1..n |-> stack[m]]
          BY <3>0, <4>1 DEF Pop
        <4> QED BY <4>1, <4>2
      <3> QED BY <2>1, <2>2, <2>11, <3>1
    <2>14. 1..n \subseteq DOMAIN stack
      BY <1>4, <2>1
    <2>15. \A m \in 1..n : u[m].key = stack[m].key
      BY <2>2, <2>10, <2>13
    <2>16. \A m \in 1..n : u[m] = stack[m] \/ AreDone(graph, overflowed, SymbolsTo(stack, m), u[m])
      BY <1>8, <2>1, <2>10, <2>13
    <2>17. \A m \in 1..n : AreDone(graph, overflowed, SymbolsTo(u, m), u[m])
      BY <1>1, <2>14, <2>15, <2>16, TriesFrames
    <2> QED BY <1>1, <1>10, <2>12, <2>13, <2>17 DEF SearchTries
  <1> QED BY <1>11, <1>12

\* What is asked for while aliases are of inputs is not being collected: what is remembered has no cycle.
LEMMA CollectMeetsNoCycle ==
  ASSUME ExtractInv, SearchOrder, CollectOnce, pc = "collect", AliasesOfInputs(graph), IsCalling,
         ~IsCollected(Callee)
  PROVE  Callee[2] \notin CollectingSymbols
PROOF
  <1>1. PICK s : s = stack /\ s \in Seq(CollectFrames(graph, memo, Terms(info)))
    BY CollectTop
  <1>2. PICK l \in Nat : l = Len(s) /\ DOMAIN s = 1..l
    BY <1>1
  <1>3. PICK k \in Key : k = Callee /\ IsPlainKey(graph, k)
    BY CollectTop, CalleeIsPlain
  <1>4. k[1] = "leader" /\ k = <<k[1], k[2]>>
    <2>1. k[2] \notin Input
      BY <1>3 DEF IsCollected
    <2> QED BY <1>3, <2>1 DEF IsPlainKey, Key
  <1>5. /\ IsFounded(graph, memo) /\ IsChain(graph, s, root)
        /\ \A n \in DOMAIN s : s[n].key[1] = "leader"
    BY <1>1 DEF ExtractInv, CollectInv, SearchOrder, CollectOnce
  <1>6. ASSUME NEW n \in 1..l
        PROVE  /\ s[n].key \in DOMAIN memo /\ s[n].choice = memo[s[n].key].choice
               /\ s[n].key[2] \in EClass /\ s[n].key = <<"leader", s[n].key[2]>>
    <2>1. PICK f \in CollectFrames(graph, memo, Terms(info)) : f = s[n]
      BY <1>1, <1>2
    <2>2. f.key \in DOMAIN memo /\ f.choice = memo[f.key].choice /\ f.key \in {"leader", "raw"} \X EClass
      BY DEF CollectFrames, CollectFrame
    <2>3. f.key = <<f.key[1], f.key[2]>> /\ f.key[2] \in EClass
      BY <2>2
    <2> QED BY <1>2, <1>5, <2>1, <2>2, <2>3
  <1> SUFFICES ASSUME k[2] \in CollectingSymbols PROVE FALSE
    BY <1>3
  <1>7. PICK m \in 1..l : s[m].key[2] = k[2]
    BY <1>1, <1>2 DEF CollectingSymbols
  <1>8. s[m].key = k
    BY <1>4, <1>6, <1>7
  <1>9. PICK S : S = {s[n].key : n \in m..l}
    OBVIOUS
  <1>10. \A n \in m..l : n \in 1..l
    OBVIOUS
  <1>11. S \in SUBSET DOMAIN memo /\ S # {}
    <2>1. m \in m..l
      OBVIOUS
    <2> QED BY <1>6, <1>9, <1>10, <2>1
  <1>12. ASSUME NEW n \in m..l
         PROVE  \E j \in DOMAIN KeysOf(graph, s[n].key[2], memo[s[n].key].choice) :
                  KeysOf(graph, s[n].key[2], memo[s[n].key].choice)[j] \in S
    <2>1. n \in 1..l /\ s[n].choice = memo[s[n].key].choice
      BY <1>6, <1>10
    <2>2. CASE n = l
      <3>1. s # <<>> /\ Top = s[l]
        BY <1>1, <1>2, <2>1, <2>2 DEF Top
      <3>2. Wanted = KeysOf(graph, Top.key[2], Top.choice) /\ At = Top.child
        BY <1>1, <3>1, CollectTop
      <3>3. Top.child \in DOMAIN KeysOf(graph, Top.key[2], Top.choice)
            /\ k = KeysOf(graph, Top.key[2], Top.choice)[Top.child]
        BY <1>3, <3>2 DEF IsCalling, Callee
      <3>4. k \in S
        <4>1. m \in m..l
          OBVIOUS
        <4> QED BY <1>8, <1>9, <4>1
      <3> QED BY <2>1, <2>2, <3>1, <3>3, <3>4
    <2>3. CASE n # l
      <3>1. n + 1 \in m..l /\ n + 1 \in DOMAIN s /\ n + 1 > 1 /\ (n + 1) - 1 = n
        BY <1>2, <2>1, <2>3
      <3>2. /\ s[n].child \in DOMAIN KeysOf(graph, s[n].key[2], s[n].choice)
            /\ s[n + 1].key = KeysOf(graph, s[n].key[2], s[n].choice)[s[n].child]
        BY <1>5, <3>1 DEF IsChain
      <3>3. s[n + 1].key \in S
        BY <1>9, <3>1
      <3> QED BY <2>1, <3>2, <3>3
    <2> QED BY <2>2, <2>3
  <1>13. \A n \in m..l : s[n].key[2] \in EClass
    BY <1>6, <1>10
  <1>14. \A q \in S : /\ q[2] \in EClass
                      /\ \E j \in DOMAIN KeysOf(graph, q[2], memo[q].choice) : KeysOf(graph, q[2], memo[q].choice)[j] \in S
    BY <1>9, <1>12, <1>13
  <1> QED BY <1>5, <1>11, <1>14 DEF IsFounded

\* The other steps, none of which ends a call of greedy extraction without a result.
LEMMA TriesOther ==
  ASSUME SearchTries, UNCHANGED <<graph, memo>>, pc' # "search" \/ stack' = <<>>,
         pc' # "idle" \/ info'.ok \/ mode' # "greedy" \/ ~AliasesOfInputs(graph)
  PROVE  SearchTries'
PROOF
  <1>1. (IsAcyclic(graph) => IsCheapMemo(graph, memo))'
    BY DEF SearchTries
  <1>2. pc' = "search" => \A n \in DOMAIN stack' : FALSE
    OBVIOUS
  <1> QED BY <1>1, <1>2 DEF SearchTries

\* The steps of collectSelected, and those of the loop over the roots.
LEMMA TriesGreedy ==
  ASSUME ExtractInv, SearchCosts, SearchOrder, CollectOnce, SearchTries, GreedyNext PROVE SearchTries'
PROOF
  <1>1. CASE NextRoot \/ EndSearch \/ SkipCollected \/ EmitSelected
    <2>1. UNCHANGED <<graph, memo>> /\ pc' # "idle" /\ (pc' # "search" \/ stack' = <<>>)
      BY <1>1 DEF NextRoot, EndSearch, SkipCollected, EmitSelected
    <2> QED BY <2>1, TriesOther
  <1>2. CASE CollectSelected
    <2>1. pc = "collect" /\ IsCalling /\ ~IsCollected(Callee) /\ UNCHANGED <<graph, memo>>
      BY <1>2 DEF CollectSelected
    <2>2. pc' # "search" /\ (pc' # "idle" \/ ~AliasesOfInputs(graph))
      <3>1. CASE Callee[2] \in CollectingSymbols
        BY <1>2, <2>1, <3>1, CollectMeetsNoCycle DEF CollectSelected, Fail
      <3>2. CASE Callee[2] \notin CollectingSymbols
        BY <1>2, <2>1, <3>2 DEF CollectSelected
      <3> QED BY <3>1, <3>2
    <2> QED BY <2>1, <2>2, TriesOther
  <1>3. CASE EndCollect
    <2>1. pc' = "idle" /\ UNCHANGED <<graph, memo>>
      BY <1>3 DEF EndCollect
    <2>2. info'.ok
      BY <1>3 DEF EndCollect, ExtractInv, ExtractTypeOK, EntriesOK, Result
    <2> QED BY <2>1, <2>2, TriesOther
  <1> QED BY <1>1, <1>2, <1>3, TriesSearch, TriesCutCycle, TriesTryChoice, TriesAddChild, TriesKeepBest,
             TriesMemoize, TriesGiveUp DEF GreedyNext

\* What greedy extraction has tried is done, in every sequence of calls.
LEMMA SearchTriesInvariant == ExtractSpec => []SearchTries
PROOF
  <1>0. \A g : IsCheapMemo(g, <<>>)
    BY DEF IsCheapMemo
  <1>1. ExtractInit => SearchTries
    BY <1>0 DEF ExtractInit, SearchTries
  <1>2. ExtractInv /\ SearchCosts /\ SearchOrder /\ CollectOnce /\ SearchTries /\ [ExtractNext]_extractVars => SearchTries'
    <2> SUFFICES ASSUME ExtractInv, SearchCosts, SearchOrder, CollectOnce, SearchTries, [ExtractNext]_extractVars
                 PROVE  SearchTries'
      OBVIOUS
    <2>1. CASE \E m \in Backends : RunExtract(m)
      <3>1. memo' = <<>> /\ stack' = <<>> /\ pc' # "idle"
        BY <2>1 DEF RunExtract
      <3>2. \A n \in DOMAIN stack' : FALSE
        BY <3>1
      <3> QED BY <1>0, <3>1, <3>2 DEF SearchTries
    <2>2. CASE GreedyStep
      BY <2>2, TriesGreedy DEF GreedyStep
    <2>3. CASE LpStep
      BY <2>3, LpLeavesSearch, LpLeavesCollect, TriesOther DEF LpStep
    <2>4. CASE UNCHANGED extractVars
      BY <2>4 DEF extractVars, callVars, SearchTries
    <2> QED BY <2>1, <2>2, <2>3, <2>4 DEF ExtractNext
  <1> QED BY <1>1, <1>2, ExtractInvariant, SearchCostsInvariant, SearchOrderInvariant, CollectOnceInvariant, PTL
          DEF ExtractSpec

-----------------------------------------------------------------------------
\* Greedy extraction ends with a selection exactly when the roots have terms.
LEMMA GreedyCompletes ==
  ASSUME ExtractInv, CollectOnce, SearchTries PROVE GreedyComplete
PROOF
  <1> SUFFICES ASSUME mode = "greedy", pc = "idle", ~overflowed, AliasesOfInputs(graph)
               PROVE  info.ok /\ IsSelectionMap(info) <=> Roots(graph) \subseteq Solvable(graph)
    BY DEF GreedyComplete
  <1>1. ASSUME info.ok PROVE IsSelectionMap(info) /\ Roots(graph) \subseteq Solvable(graph)
    <2>1. IsSelectionMap(info)
      BY <1>1 DEF CollectOnce, HasSelected, RemembersEntries
    <2>2. Roots(graph) \subseteq Terms(info) /\ Terms(info) \subseteq Solvable(graph)
      BY <1>1, TermsSolvable DEF ExtractInv, ExtractTypeOK, IdleInv
    <2> QED BY <2>1, <2>2
  <1>2. Roots(graph) \subseteq Solvable(graph) => info.ok
    BY DEF SearchTries
  <1> QED BY <1>1, <1>2

(***************************************************************************)
(* Greedy extraction (GreedyExtract.cpp) finds a selection exactly when    *)
(* every root has a finite term, for every clean graph whose aliases are   *)
(* of inputs, cyclic or not, unless a sum did not fit.                     *)
(***************************************************************************)
THEOREM GreedyExtractComplete == ExtractSpec => []GreedyComplete
PROOF
  <1>1. ExtractInv /\ CollectOnce /\ SearchTries => GreedyComplete
    BY GreedyCompletes
  <1> QED BY <1>1, ExtractInvariant, CollectOnceInvariant, SearchTriesInvariant, PTL

\* An extraction with a costing is priced, and has an entry for each e-class it is for.
LEMMA ExtractionIsPriced ==
  ASSUME NEW g, NEW r \in EClass, NEW sel \in Extractions(g, {r}), NEW cost \in Costings(g, sel)
  PROVE  HasPrice(g, r, sel[r], cost[r])
PROOF
  <1>1. PICK S \in SUBSET EClass : sel \in Selections(g, S)
    BY DEF Extractions
  <1>2. DOMAIN sel = S /\ \A s \in S : sel[s] \in UsableChoices(g, s)
    BY <1>1 DEF Selections
  <1>3. DOMAIN sel \subseteq Grounded(g, sel) /\ r \in Grounded(g, sel)
    BY DEF Extractions
  <1>4. IsPriced(g, sel, cost)
    BY <1>2, <1>3 DEF IsPriced, SelOK
  <1>5. r \in DOMAIN sel
    <2>1. PICK C \in SUBSET Symbol : C = Input \cup DOMAIN sel
      BY <1>2, NamesFinite DEF EClass
    <2>2. IsClosedUnder(g, sel, C)
      BY <2>1 DEF IsClosedUnder
    <2> QED BY <1>3, <2>1, <2>2 DEF Grounded, EClass
  <1> QED BY <1>4, <1>5 DEF HasPrice

\* What greedy extraction reports of a root is the least cost.
LEMMA GreedySelectsCheapest ==
  ASSUME ExtractInv, SearchCosts, CollectOnce, SearchTries PROVE GreedyCheapest
PROOF
  <1> SUFFICES ASSUME HasSelected("greedy"), IsAcyclic(graph), NEW i \in DOMAIN graph.roots,
                      NEW sel \in Extractions(graph, {graph.roots[i]}), NEW cost \in Costings(graph, sel)
               PROVE  info.rootCosts[i] <= CostOf(cost, graph.roots[i])
    BY DEF GreedyCheapest
  <1>1. /\ graph \in ExtractGraphs /\ ExactMemo(graph, memo) /\ IsCheapMemo(graph, memo)
    BY DEF ExtractInv, ExtractTypeOK, SearchCosts, SearchTries
  <1>2. PICK k : k = RootKeys(graph)[i] /\ k \in DOMAIN memo /\ info.rootCosts[i] = memo[k].cost
    BY DEF CollectOnce
  <1>3. PICK r \in Symbol : r = graph.roots[i] /\ k[2] = r
    BY <1>1, <1>2, RootFacts
  <1>4. CASE r \in Input
    <2>1. memo[k].cost = 0
      BY <1>1, <1>2, <1>3, <1>4 DEF ExactMemo
    <2> QED BY <1>2, <1>3, <1>4, <2>1 DEF CostOf
  <1>5. CASE r \notin Input
    <2>1. HasPrice(graph, r, sel[r], cost[r])
      BY <1>3, <1>5, ExtractionIsPriced DEF EClass
    <2>2. memo[k].cost <= cost[r]
      BY <1>1, <1>2, <1>3, <2>1 DEF IsCheapMemo
    <2> QED BY <1>2, <1>3, <1>5, <2>2 DEF CostOf
  <1> QED BY <1>4, <1>5

(***************************************************************************)
(* Without cycles, what greedy extraction reports of a root is at most the *)
(* cost of every other term of it: computeBest's memo is of cheapest terms *)
(* because no candidate is cut or dropped that would have been cheaper.    *)
(***************************************************************************)
THEOREM GreedyExtractCheapest == ExtractSpec => []GreedyCheapest
PROOF
  <1>1. ExtractInv /\ SearchCosts /\ CollectOnce /\ SearchTries => GreedyCheapest
    BY GreedySelectsCheapest
  <1> QED BY <1>1, ExtractInvariant, SearchCostsInvariant, CollectOnceInvariant, SearchTriesInvariant, PTL
=============================================================================
