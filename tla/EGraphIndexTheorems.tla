------------------------- MODULE EGraphIndexTheorems -------------------------
(***************************************************************************)
(* A handle denotes the occurrence it was made for until the generations   *)
(* have gone round, and lookups find the candidates of a class, for every  *)
(* width of the counter and every body.                                    *)
(***************************************************************************)
EXTENDS EGraphIndex, EGraphCongruence, SequenceTheorems, WellFoundedInduction

USE DEF HasCandidates

-----------------------------------------------------------------------------
\* Remainders, for a divisor that is a constant of the model.

\* Quotient and remainder.
LEMMA Division ==
  ASSUME NEW M \in Nat \ {0}, NEW a \in Nat
  PROVE  (a % M) \in 0..(M-1) /\ (a \div M) \in Int /\ a = (M * (a \div M)) + (a % M)
PROOF BY SMT

\* A positive multiple is not less than the width.
LEMMA MultipleIsLarge ==
  ASSUME NEW M \in Nat \ {0}, NEW k \in Int, k > 0
  PROVE  M * k >= M
PROOF BY SMTT(30)

\* Multiplication distributes over a difference.
LEMMA Distribute ==
  ASSUME NEW M \in Int, NEW k \in Int, NEW j \in Int
  PROVE  (M * k) - (M * j) = M * (k - j)
PROOF BY SMTT(30)

\* Two remainders that differ by a multiple are the same.
LEMMA SmallMultiple ==
  ASSUME NEW M \in Nat \ {0}, NEW k \in Int, NEW r \in Int, -M < r, r < M, r = M * k
  PROVE  r = 0
PROOF
  <1>1. CASE k > 0
    BY <1>1, MultipleIsLarge
  <1>2. CASE k = 0
    BY <1>2, SMTT(30)
  <1>3. CASE k < 0
    <2>1. M * (0 - k) >= M
      BY <1>3, MultipleIsLarge
    <2>2. (M * 0) - (M * k) = M * (0 - k) /\ M * 0 = 0
      BY Distribute, SMTT(30)
    <2> QED BY <2>1, <2>2
  <1> QED BY <1>1, <1>2, <1>3

\* Counting on from a remainder.
LEMMA RemainderAdds ==
  ASSUME NEW M \in Nat \ {0}, NEW a \in Nat, NEW i \in Nat
  PROVE  ((a % M) + i) % M = (a + i) % M
PROOF
  <1> DEFINE x == (a % M) + i
             y == a + i
             k == a \div M
             p == x \div M
             q == y \div M
             r == x % M
             s == y % M
  <1>1. (a % M) \in Nat /\ k \in Int /\ a = (M * k) + (a % M)
    BY Division
  <1>2. x \in Nat /\ y \in Nat /\ y - x = M * k
    <2> DEFINE t == a % M
               m == M * k
    <2>1. t \in Nat /\ m \in Int /\ a = m + t
      BY <1>1
    <2> HIDE DEF t, m
    <2>2. y - (t + i) = m
      BY <2>1
    <2> QED BY <2>1, <2>2 DEF t, m
  <1>3. r \in 0..(M-1) /\ p \in Int /\ x = (M * p) + r
    BY <1>2, Division
  <1>4. s \in 0..(M-1) /\ q \in Int /\ y = (M * q) + s
    BY <1>2, Division
  <1> HIDE DEF x, y, k, p, q, r, s
  <1> DEFINE A == M * k
             B == M * q
             C == M * p
  <1>5. A \in Int /\ B \in Int /\ C \in Int
    BY <1>1, <1>3, <1>4
  <1>6. s - r = (A - B) + C
    <2> HIDE DEF A, B, C
    <2> QED BY <1>2, <1>3, <1>4, <1>5 DEF A, B, C
  <1>7. A - B = M * (k - q)
    BY <1>1, <1>4, Distribute
  <1>8. (M * (k - q)) - (M * (0 - p)) = M * ((k - q) - (0 - p))
    BY <1>1, <1>3, <1>4, Distribute
  <1>9. (M * 0) - C = M * (0 - p) /\ M * 0 = 0
    BY <1>3, Distribute, SMTT(30)
  <1>10. s - r = M * ((k - q) - (0 - p))
    <2> HIDE DEF A, B, C
    <2> QED BY <1>5, <1>6, <1>7, <1>8, <1>9
  <1>11. s - r = 0
    BY <1>1, <1>3, <1>4, <1>10, SmallMultiple
  <1> QED BY <1>3, <1>4, <1>11 DEF r, s, x, y

\* Numbers of one remainder are far apart.
LEMMA RemainderRepeats ==
  ASSUME NEW M \in Nat \ {0}, NEW a \in Nat, NEW b \in Nat, a % M = b % M, a < b
  PROVE  b - a >= M
PROOF
  <1> DEFINE p == a \div M
             q == b \div M
  <1>0. p \in Int /\ q \in Int /\ (a % M) \in Int
    BY Division
  <1>1. a = (M * p) + (a % M) /\ b = (M * q) + (a % M)
    BY Division
  <1> HIDE DEF p, q
  <1>2. b - a = (M * q) - (M * p)
    BY <1>0, <1>1, SMT
  <1>3. b - a = M * (q - p)
    BY <1>0, <1>2, Distribute
  <1>4. q - p > 0
    BY <1>0, <1>3, SMTT(30)
  <1> QED BY <1>0, <1>3, <1>4, MultipleIsLarge

-----------------------------------------------------------------------------
(***************************************************************************)
(* The invariant.  Generations are the serial numbers modulo the width,    *)
(* and the occurrence that is at the place of a handle now is not older    *)
(* than the one the handle was made for.                                   *)
(***************************************************************************)
IsNumbered(occs) ==
  /\ occs \in Seq({occs[i] : i \in DOMAIN occs})
  /\ \A i \in DOMAIN occs :
       /\ {"serial", "generation"} \subseteq DOMAIN occs[i]
       /\ occs[i].serial \in Nat /\ occs[i].generation = occs[i].serial % Generations

HandleInv ==
  /\ issued \in Nat
  /\ next = (issued + 1) % Generations
  /\ IsNumbered(occurrences)
  /\ \A i \in DOMAIN occurrences : occurrences[i].serial <= issued
  /\ \A ref \in held :
       /\ ref.serial \in Nat /\ ref.serial <= issued
       /\ ref.generation = ref.serial % Generations
       /\ ref.id \in DOMAIN occurrences => ref.serial <= occurrences[ref.id].serial

\* The same for the counter that nextGeneration is.
LEMMA CountOn ==
  ASSUME NEW n \in Nat, NEW k \in Nat
  PROVE  (((n + 1) % Generations) + k) % Generations = ((n + 1) + k) % Generations
PROOF
  <1>1. Generations \in Nat \ {0} /\ n + 1 \in Nat
    BY WidthsOK
  <1> QED BY <1>1, RemainderAdds

\* A sequence is one of its own elements.
LEMMA OwnElements ==
  ASSUME NEW T, NEW s \in Seq(T)
  PROVE  s \in Seq({s[i] : i \in DOMAIN s})
PROOF
  <1>1. s = [i \in 1..Len(s) |-> s[i]] /\ Len(s) \in Nat /\ DOMAIN s = 1..Len(s)
    OBVIOUS
  <1> DEFINE U == {s[i] : i \in DOMAIN s}
  <1>2. [i \in 1..Len(s) |-> s[i]] \in Seq(U)
    BY <1>1
  <1> QED BY <1>1, <1>2

\* What appending one occurrence gives.
LEMMA AddOne ==
  ASSUME NEW T, NEW s \in Seq(T), NEW u \in Seq(T), Len(u) = 1
  PROVE  /\ s \o u \in Seq(T)
         /\ Len(s) \in Nat /\ DOMAIN s = 1..Len(s)
         /\ Len(s \o u) = Len(s) + 1 /\ DOMAIN (s \o u) = 1..(Len(s) + 1)
         /\ \A i \in 1..Len(s) : (s \o u)[i] = s[i]
         /\ (s \o u)[Len(s) + 1] = u[1]
PROOF
  <1> DEFINE w == s \o u
  <1>1. Len(s) \in Nat /\ DOMAIN s = 1..Len(s)
    OBVIOUS
  <1>2. w \in Seq(T) /\ Len(w) = Len(s) + 1
    BY ConcatProperties
  <1>3. \A i \in 1..Len(s) : w[i] = s[i]
    BY ConcatProperties
  <1>4. w[Len(s) + 1] = u[1]
    <2> DEFINE i == Len(s) + 1
    <2>1. i \in 1..(Len(s) + Len(u)) /\ ~(i <= Len(s)) /\ i - Len(s) = 1
      BY <1>1
    <2> HIDE DEF i
    <2>2. w[i] = IF i <= Len(s) THEN s[i] ELSE u[i - Len(s)]
      BY <2>1, ConcatProperties
    <2> QED BY <2>1, <2>2 DEF i
  <1> HIDE DEF w
  <1>5. DOMAIN w = 1..(Len(s) + 1)
    BY <1>2
  <1> QED BY <1>1, <1>2, <1>3, <1>4, <1>5 DEF w

\* addOperationOccurrence numbers on from those issued before.
LEMMA IssueNumbers ==
  ASSUME NEW C, NEW listed \in Seq(C), NEW n \in Nat, NEW generation,
         generation = (n + 1) % Generations
  PROVE  LET occs == Issue(listed, n, generation) IN
         /\ DOMAIN occs = 1..Len(listed)
         /\ IsNumbered(occs)
         /\ \A i \in 1..Len(listed) : occs[i].serial = n + i
PROOF
  <1> DEFINE occs == Issue(listed, n, generation)
  <1>1. DOMAIN listed = 1..Len(listed) /\ Len(listed) \in Nat
    OBVIOUS
  <1>2. /\ DOMAIN occs = 1..Len(listed)
        /\ \A i \in 1..Len(listed) :
             /\ {"serial", "generation"} \subseteq DOMAIN occs[i]
             /\ occs[i].serial = n + i
             /\ occs[i].generation = (generation + i - 1) % Generations
    BY <1>1 DEF Issue
  <1>3. occs \in Seq({occs[i] : i \in DOMAIN occs})
    <2> DEFINE U == {occs[i] : i \in DOMAIN occs}
    <2>1. occs = [i \in 1..Len(listed) |-> occs[i]]
      BY <1>1 DEF Issue
    <2>2. \A i \in 1..Len(listed) : occs[i] \in U
      BY <1>2
    <2> HIDE DEF occs, U
    <2>3. [i \in 1..Len(listed) |-> occs[i]] \in Seq(U)
      BY <1>1, <2>2
    <2> QED BY <2>1, <2>3 DEF U
  <1>4. \A i \in 1..Len(listed) : (generation + i - 1) % Generations = (n + i) % Generations
    <2> TAKE i \in 1..Len(listed)
    <2>1. i - 1 \in Nat /\ n + 1 \in Nat /\ (n + 1) + (i - 1) = n + i
      BY <1>1
    <2>2. (generation + (i - 1)) % Generations = (n + i) % Generations
      BY <2>1, CountOn
    <2>3. generation \in Int
      BY <2>1, Division, WidthsOK
    <2>4. generation + i - 1 = generation + (i - 1)
      BY <1>1, <2>3
    <2> QED BY <2>2, <2>4
  <1>5. \A i \in 1..Len(listed) : n + i \in Nat
    BY <1>1
  <1> HIDE DEF occs
  <1> QED BY <1>2, <1>3, <1>4, <1>5 DEF IsNumbered, occs

\* The first index numbers from one, and no handle is held.
LEMMA IndexInitInv == IndexInit => HandleInv
PROOF
  <1> SUFFICES ASSUME IndexInit PROVE HandleInv
    OBVIOUS
  <1> DEFINE listed == Listed(Candidates(terms))
             C == Candidates(terms)
  <1>1. listed \in Seq(C) /\ occurrences = Issue(listed, 0, 1) /\ held = {}
    BY DEF IndexInit, Visits
  <1>2. issued = Len(occurrences) /\ next = (1 + Len(occurrences)) % Generations
    BY DEF IndexInit
  <1> HIDE DEF listed, C
  <1>3. 1 = (0 + 1) % Generations
    BY WidthsOK, SMT
  <1>4. /\ DOMAIN occurrences = 1..Len(listed)
        /\ IsNumbered(occurrences)
        /\ \A i \in 1..Len(listed) : occurrences[i].serial = 0 + i
    <2> DEFINE one == 1
               zero == 0
    <2>1. one = (zero + 1) % Generations /\ zero \in Nat /\ occurrences = Issue(listed, zero, one)
      BY <1>1, <1>3
    <2> HIDE DEF one, zero
    <2>2. LET occs == Issue(listed, zero, one) IN
          /\ DOMAIN occs = 1..Len(listed)
          /\ IsNumbered(occs)
          /\ \A i \in 1..Len(listed) : occs[i].serial = zero + i
      BY <1>1, <2>1, IssueNumbers, Zenon
    <2> QED BY <2>1, <2>2 DEF zero
  <1>5. Len(occurrences) = Len(listed) /\ Len(listed) \in Nat
    BY <1>1, <1>4 DEF IsNumbered
  <1> QED BY <1>1, <1>2, <1>4, <1>5 DEF HandleInv

\* markOccurrenceDead touches neither serial nor generation.
LEMMA DeadNumbered ==
  ASSUME NEW leader, NEW occs, NEW table, IsNumbered(occs)
  PROVE  LET dead == DuplicatesDead(leader, occs, table) IN
         /\ DOMAIN dead = DOMAIN occs
         /\ IsNumbered(dead)
         /\ \A i \in DOMAIN occs : dead[i].serial = occs[i].serial
PROOF
  <1> DEFINE dead == DuplicatesDead(leader, occs, table)
             live(i) == table[Canon(leader, occs[i].term)] = i
  <1>1. dead = [i \in DOMAIN occs |-> [occs[i] EXCEPT !.live = live(i)]]
    BY Zenon DEF DuplicatesDead
  <1>2. DOMAIN occs = 1..Len(occs) /\ Len(occs) \in Nat
    BY DEF IsNumbered
  <1> HIDE DEF live, dead
  <1>3. DOMAIN dead = 1..Len(occs)
    BY <1>1, <1>2
  <1>4. \A i \in DOMAIN occs :
          /\ {"serial", "generation"} \subseteq DOMAIN dead[i]
          /\ dead[i].serial = occs[i].serial
          /\ dead[i].generation = occs[i].generation
    BY <1>1 DEF IsNumbered
  <1>5. dead \in Seq({dead[i] : i \in DOMAIN dead})
    <2>1. dead = [i \in 1..Len(occs) |-> dead[i]]
      BY <1>1, <1>2
    <2> DEFINE U == {dead[i] : i \in DOMAIN dead}
    <2>2. \A i \in 1..Len(occs) : dead[i] \in U
      BY <1>3
    <2> HIDE DEF U
    <2>3. [i \in 1..Len(occs) |-> dead[i]] \in Seq(U)
      BY <1>2, <2>2
    <2> QED BY <2>1, <2>3 DEF U
  <1>6. IsNumbered(dead)
    BY <1>2, <1>3, <1>4, <1>5 DEF IsNumbered
  <1> QED BY <1>2, <1>3, <1>4, <1>6 DEF dead

\* An index made anew has later serial numbers than all handles.
LEMMA ReindexInv ==
  ASSUME HandleInv, NEW leader, NEW listed, Reindex(leader, listed), held' = held,
         \/ occurrences' = Fresh(listed)
         \/ occurrences' = DuplicatesDead(leader, Fresh(listed), entries')
  PROVE  HandleInv'
PROOF
  <1> DEFINE C == Candidates(terms')
             occs == Fresh(listed)
  <1>1. listed \in Seq(C)
    BY DEF Reindex, Visits
  <1>2. issued \in Nat /\ next = (issued + 1) % Generations
    BY DEF HandleInv
  <1>3. issued' = issued + Len(listed) /\ next' = (next + Len(listed)) % Generations
    BY DEF Reindex
  <1>4. Len(listed) \in Nat
    BY <1>1
  <1>5. /\ DOMAIN occs = 1..Len(listed)
        /\ IsNumbered(occs)
        /\ \A i \in 1..Len(listed) : occs[i].serial = issued + i
    <2> HIDE DEF C
    <2>1. LET o == Issue(listed, issued, next) IN
          /\ DOMAIN o = 1..Len(listed)
          /\ IsNumbered(o)
          /\ \A i \in 1..Len(listed) : o[i].serial = issued + i
      BY <1>1, <1>2, IssueNumbers, Zenon
    <2> QED BY <2>1 DEF Fresh
  <1> HIDE DEF C, occs
  <1>6. /\ DOMAIN occurrences' = 1..Len(listed)
        /\ IsNumbered(occurrences')
        /\ \A i \in 1..Len(listed) : occurrences'[i].serial = issued + i
    <2>1. CASE occurrences' = occs
      BY <1>5, <2>1
    <2>2. CASE occurrences' = DuplicatesDead(leader, occs, entries')
      <3>1. LET dead == DuplicatesDead(leader, occs, entries') IN
            /\ DOMAIN dead = DOMAIN occs
            /\ IsNumbered(dead)
            /\ \A i \in DOMAIN occs : dead[i].serial = occs[i].serial
        BY <1>5, DeadNumbered
      <3> QED BY <1>5, <2>2, <3>1
    <2> QED BY <2>1, <2>2 DEF occs
  <1>7. next' = (issued' + 1) % Generations
    <2>1. next' = ((issued + 1) + Len(listed)) % Generations
      BY <1>2, <1>3, <1>4, CountOn
    <2>2. (issued + 1) + Len(listed) = issued' + 1
      BY <1>2, <1>3, <1>4
    <2> QED BY <2>1, <2>2
  <1>8. \A ref \in held' :
          /\ ref.serial \in Nat /\ ref.serial <= issued'
          /\ ref.generation = ref.serial % Generations
          /\ ref.id \in DOMAIN occurrences' => ref.serial <= occurrences'[ref.id].serial
    BY <1>2, <1>3, <1>4, <1>6 DEF HandleInv
  <1> QED BY <1>2, <1>3, <1>4, <1>6, <1>7, <1>8 DEF HandleInv, IsNumbered

\* The occurrence of a new e-class goes behind all others.
LEMMA InternAppends ==
  ASSUME HandleInv, NEW t, NEW s, IndexIntern(t, s)
  PROVE  /\ Len(occurrences) \in Nat /\ DOMAIN occurrences = 1..Len(occurrences)
         /\ DOMAIN occurrences' = 1..(Len(occurrences) + 1)
         /\ \A i \in 1..Len(occurrences) : occurrences'[i] = occurrences[i]
         /\ occurrences'[Len(occurrences) + 1] =
              Issue(<< <<s, Canon(Leader, t)>> >>, issued, next)[1]
         /\ occurrences' \in Seq({occurrences'[i] : i \in DOMAIN occurrences'})
PROOF
  <1> DEFINE listed == << <<s, Canon(Leader, t)>> >>
             new == Issue(listed, issued, next)
             n == Len(occurrences)
  <1>1. issued \in Nat /\ next = (issued + 1) % Generations /\ IsNumbered(occurrences)
    BY DEF HandleInv
  <1>2. /\ occurrences' = occurrences \o new /\ held' = held
        /\ issued' = issued + 1 /\ next' = (next + 1) % Generations
    BY DEF IndexIntern
  <1>3. listed \in Seq({<<s, Canon(Leader, t)>>}) /\ Len(listed) = 1
    OBVIOUS
  <1> HIDE DEF listed
  <1>4. /\ DOMAIN new = 1..1 /\ IsNumbered(new)
        /\ \A i \in 1..1 : new[i].serial = issued + i
    <2>1. LET o == Issue(listed, issued, next) IN
          /\ DOMAIN o = 1..Len(listed)
          /\ IsNumbered(o)
          /\ \A i \in 1..Len(listed) : o[i].serial = issued + i
      BY <1>1, <1>3, IssueNumbers, Zenon
    <2> QED BY <1>3, <2>1
  <1> HIDE DEF new
  <1>5. /\ n \in Nat /\ DOMAIN occurrences = 1..n
        /\ DOMAIN occurrences' = 1..(n + 1)
        /\ \A i \in 1..n : occurrences'[i] = occurrences[i]
        /\ occurrences'[n + 1] = new[1]
        /\ occurrences' \in Seq({occurrences'[i] : i \in DOMAIN occurrences'})
    <2> DEFINE T == {occurrences[i] : i \in DOMAIN occurrences}
               U == {new[i] : i \in DOMAIN new}
    <2>1. occurrences \in Seq(T \cup U) /\ new \in Seq(T \cup U) /\ Len(new) = 1
      <3>1. occurrences \in Seq(T) /\ new \in Seq(U)
        BY <1>1, <1>4 DEF IsNumbered
      <3> HIDE DEF T, U
      <3>2. Len(new) = 1
        BY <1>4, <3>1
      <3> QED BY <3>1, <3>2
    <2> HIDE DEF T, U
    <2>2. occurrences' \in Seq(T \cup U)
      BY <1>2, <2>1, AddOne
    <2>3. occurrences' \in Seq({occurrences'[i] : i \in DOMAIN occurrences'})
      BY <2>2, OwnElements
    <2>4. /\ Len(occurrences') = n + 1 /\ n \in Nat
          /\ DOMAIN occurrences = 1..n /\ DOMAIN occurrences' = 1..(n + 1)
          /\ \A i \in 1..n : occurrences'[i] = occurrences[i]
          /\ occurrences'[n + 1] = new[1]
      BY <1>2, <2>1, AddOne
    <2> QED BY <2>3, <2>4
  <1> QED BY <1>5 DEF new, listed

\* So generations go on as they were.
LEMMA IndexInternInv ==
  ASSUME HandleInv, NEW t, NEW s, IndexIntern(t, s)
  PROVE  HandleInv'
PROOF
  <1> DEFINE listed == << <<s, Canon(Leader, t)>> >>
             new == Issue(listed, issued, next)
             n == Len(occurrences)
  <1>1. issued \in Nat /\ next = (issued + 1) % Generations /\ IsNumbered(occurrences)
    BY DEF HandleInv
  <1>2. /\ occurrences' = occurrences \o new /\ held' = held
        /\ issued' = issued + 1 /\ next' = (next + 1) % Generations
    BY DEF IndexIntern
  <1>3. listed \in Seq({<<s, Canon(Leader, t)>>}) /\ Len(listed) = 1
    OBVIOUS
  <1> HIDE DEF listed
  <1>4. /\ DOMAIN new = 1..1 /\ IsNumbered(new)
        /\ \A i \in 1..1 : new[i].serial = issued + i
    <2>1. LET o == Issue(listed, issued, next) IN
          /\ DOMAIN o = 1..Len(listed)
          /\ IsNumbered(o)
          /\ \A i \in 1..Len(listed) : o[i].serial = issued + i
      BY <1>1, <1>3, IssueNumbers, Zenon
    <2> QED BY <1>3, <2>1
  <1> HIDE DEF new
  <1>5. /\ n \in Nat /\ DOMAIN occurrences = 1..n
        /\ DOMAIN occurrences' = 1..(n + 1)
        /\ \A i \in 1..n : occurrences'[i] = occurrences[i]
        /\ occurrences'[n + 1] = new[1]
        /\ occurrences' \in Seq({occurrences'[i] : i \in DOMAIN occurrences'})
    BY InternAppends DEF new, listed
  <1> HIDE DEF n
  <1>6. \A i \in DOMAIN occurrences' :
          i = n + 1 \/ i \in DOMAIN occurrences
    BY <1>5
  <1>7. {"serial", "generation"} \subseteq DOMAIN new[1]
        /\ new[1].serial = issued + 1 /\ new[1].generation = new[1].serial % Generations
    BY <1>4 DEF IsNumbered
  <1>8. /\ IsNumbered(occurrences')
        /\ \A i \in DOMAIN occurrences' : occurrences'[i].serial <= issued'
    <2>1. \A i \in DOMAIN occurrences :
            /\ {"serial", "generation"} \subseteq DOMAIN occurrences[i]
            /\ occurrences[i].serial \in Nat /\ occurrences[i].serial <= issued
            /\ occurrences[i].generation = occurrences[i].serial % Generations
      BY <1>1 DEF HandleInv, IsNumbered
    <2>2. \A i \in DOMAIN occurrences' :
            /\ {"serial", "generation"} \subseteq DOMAIN occurrences'[i]
            /\ occurrences'[i].serial \in Nat /\ occurrences'[i].serial <= issued'
            /\ occurrences'[i].generation = occurrences'[i].serial % Generations
      <3> TAKE i \in DOMAIN occurrences'
      <3>1. CASE i = n + 1
        <4>1. occurrences'[i] = new[1]
          BY <1>5, <3>1
        <4> QED BY <1>1, <1>2, <1>7, <4>1
      <3>2. CASE i \in DOMAIN occurrences
        <4>1. occurrences'[i] = occurrences[i]
          BY <1>5, <3>2
        <4> QED BY <1>1, <1>2, <2>1, <3>2, <4>1
      <3> QED BY <1>6, <3>1, <3>2
    <2> QED BY <1>5, <2>2 DEF IsNumbered
  <1>9. next' = (issued' + 1) % Generations
    <2>1. next' = ((issued + 1) + 1) % Generations
      BY <1>1, <1>2, CountOn
    <2> QED BY <1>2, <2>1
  <1>10. \A ref \in held' :
          /\ ref.serial \in Nat /\ ref.serial <= issued'
          /\ ref.generation = ref.serial % Generations
          /\ ref.id \in DOMAIN occurrences' => ref.serial <= occurrences'[ref.id].serial
    <2> TAKE ref \in held'
    <2>1. /\ ref.serial \in Nat /\ ref.serial <= issued
          /\ ref.generation = ref.serial % Generations
          /\ ref.id \in DOMAIN occurrences => ref.serial <= occurrences[ref.id].serial
      BY <1>2 DEF HandleInv
    <2>2. ref.id \in DOMAIN occurrences => occurrences'[ref.id] = occurrences[ref.id]
      BY <1>5
    <2>3. ref.id = n + 1 => ref.serial <= occurrences'[ref.id].serial
      BY <1>1, <1>5, <1>7, <2>1
    <2> QED BY <1>1, <1>2, <1>6, <2>1, <2>2, <2>3
  <1> QED BY <1>1, <1>2, <1>8, <1>9, <1>10 DEF HandleInv

\* A handle is made of a live occurrence.
LEMMA HoldInv ==
  ASSUME HandleInv, Hold
  PROVE  HandleInv'
PROOF
  <1>1. PICK ref \in OpRefs : held' = held \cup {ref}
    BY DEF Hold
  <1>2. PICK i \in DOMAIN occurrences : ref = RefTo(i)
    BY <1>1 DEF OpRefs
  <1>3. ref.id = i /\ ref.serial = occurrences[i].serial
        /\ ref.generation = occurrences[i].generation
    BY <1>2 DEF RefTo
  <1>4. UNCHANGED <<occurrences, next, issued>>
    BY DEF Hold
  <1>5. ref.serial \in Nat /\ ref.serial <= issued /\ ref.generation = ref.serial % Generations
    BY <1>3 DEF HandleInv, IsNumbered
  <1>6. \A r \in held' : r = ref \/ r \in held
    BY <1>1
  <1>7. ref.id \in DOMAIN occurrences => ref.serial <= occurrences[ref.id].serial
    BY <1>3, <1>5
  <1>8. \A r \in held' :
          /\ r.serial \in Nat /\ r.serial <= issued
          /\ r.generation = r.serial % Generations
          /\ r.id \in DOMAIN occurrences => r.serial <= occurrences[r.id].serial
    BY <1>5, <1>6, <1>7 DEF HandleInv
  <1> QED BY <1>4, <1>8 DEF HandleInv, IsNumbered

\* Every step keeps the invariant.
LEMMA IndexNextInv ==
  ASSUME HandleInv, [IndexNext]_allVars
  PROVE  HandleInv'
PROOF
  <1>1. CASE UNCHANGED indexVars
    BY <1>1 DEF indexVars, HandleInv, IsNumbered
  <1>2. CASE \E t \in Term, s \in Symbol : IndexIntern(t, s)
    BY <1>2, IndexInternInv
  <1>3. CASE IndexRound
    BY <1>3, ReindexInv DEF IndexRound
  <1>4. CASE IndexFinish
    BY <1>4, ReindexInv DEF IndexFinish
  <1>5. CASE Hold
    BY <1>5, HoldInv
  <1> QED BY <1>1, <1>2, <1>3, <1>4, <1>5 DEF IndexNext, IndexUnion, allVars

\* The invariant says what handles denote.
LEMMA HandlesFollow ==
  ASSUME HandleInv
  PROVE  HandlesExact
PROOF
  <1> SUFFICES ASSUME NEW ref \in held, IsLiveRef(ref)
               PROVE  \/ occurrences[ref.id].serial = ref.serial
                      \/ issued - ref.serial >= Generations
    BY DEF HandlesExact
  <1> DEFINE a == ref.serial
             b == occurrences[ref.id].serial
  <1>1. ref.id \in DOMAIN occurrences /\ occurrences[ref.id].generation = ref.generation
    BY DEF IsLiveRef, IsLivePlace
  <1>2. a \in Nat /\ b \in Nat /\ a <= b /\ b <= issued /\ issued \in Nat
    BY <1>1 DEF HandleInv, IsNumbered
  <1>3. a % Generations = b % Generations
    BY <1>1 DEF HandleInv, IsNumbered
  <1>4. Generations \in Nat \ {0}
    BY WidthsOK
  <1> HIDE DEF a, b
  <1>5. a < b => b - a >= Generations
    BY <1>2, <1>3, <1>4, RemainderRepeats
  <1>6. a = b \/ issued - a >= Generations
    BY <1>2, <1>4, <1>5
  <1> QED BY <1>6 DEF a, b

(***************************************************************************)
(* For every width of the generation, whatever was united, interned and    *)
(* rebuilt since: a handle that is live denotes the occurrence it was made *)
(* for, or as many occurrences were issued as there are generations.       *)
(***************************************************************************)
THEOREM HandlesAlwaysExact == IndexSpec => []HandlesExact
PROOF
  <1>1. IndexInit => HandleInv
    BY IndexInitInv
  <1>2. HandleInv /\ [IndexNext]_allVars => HandleInv'
    BY IndexNextInv
  <1>3. HandleInv => HandlesExact
    BY HandlesFollow
  <1> QED BY <1>1, <1>2, <1>3, PTL DEF IndexSpec

\* A step of the index is one of the facade, or none.
LEMMA IndexStepsFacade == [IndexNext]_allVars => [Next]_vars
BY DEF IndexNext, IndexUnion, IndexIntern, IndexRound, IndexFinish, Hold, allVars, Next, Running

(***************************************************************************)
(* The index moves with the facade: what is proved of EGraph holds of the  *)
(* graph an index is kept of.                                              *)
(***************************************************************************)
THEOREM IndexUsesFacade == IndexSpec => Spec
PROOF
  <1>1. IndexInit => Init
    BY DEF IndexInit
  <1>2. [IndexNext]_allVars => [Next]_vars
    BY IndexStepsFacade
  <1> QED BY <1>1, <1>2, PTL DEF IndexSpec, Spec

-----------------------------------------------------------------------------
(***************************************************************************)
(* What is found.  The lists were filled under the leaders of the last     *)
(* index, and classes have only grown since; on a graph that no union has  *)
(* touched they are the lists of today, and each candidate has a live      *)
(* occurrence with its key in its class.                                   *)
(***************************************************************************)
PlacesSound ==
  /\ \A i \in DOMAIN occurrences : occurrences[i].owner \in Symbol /\ IsCandidate(i)
  /\ roots \in [Symbol -> SUBSET DOMAIN occurrences]
  /\ parents \in [Symbol -> SUBSET DOMAIN occurrences]
  /\ \A r \in Symbol :
       /\ \A i \in roots[r] : Leader[occurrences[i].owner] = Leader[r]
       /\ \A i \in parents[r] : \E c \in Uses(occurrences[i].term) : Leader[c] = Leader[r]

\* Each occurrence is in the lists of its class and of its operands' classes.
AllListed ==
  \A i \in DOMAIN occurrences :
    /\ i \in roots[Leader[occurrences[i].owner]]
    /\ \A c \in Uses(occurrences[i].term) : i \in parents[Leader[c]]

\* Some live occurrence stands for each candidate.
AllStoodFor ==
  \A s \in Symbol : \A t \in terms[s] :
    \E i \in DOMAIN occurrences :
      /\ occurrences[i].live
      /\ Leader[occurrences[i].owner] = Leader[s]
      /\ Canon(Leader, occurrences[i].term) = Canon(Leader, t)

PlacesFull == pc # "collide" /\ touched = {} => AllListed /\ AllStoodFor

IndexInv == Inv /\ RoundInv /\ HandleInv /\ PlacesSound /\ PlacesFull

\* Terms of one canonical form have operands in the same classes.
LEMMA CanonUses ==
  ASSUME NEW leader \in [Symbol -> Symbol], NEW t \in Term, NEW u \in Term,
         Canon(leader, t) = Canon(leader, u), NEW c \in Uses(u)
  PROVE  \E d \in Uses(t) : leader[d] = leader[c]
PROOF
  <1>1. /\ Canon(leader, t).op = t.op
        /\ Canon(leader, t).args = [i \in 1..Arity[t.op] |-> leader[t.args[i]]]
        /\ Canon(leader, u).op = u.op
        /\ Canon(leader, u).args = [i \in 1..Arity[u.op] |-> leader[u.args[i]]]
    BY CanonTerm
  <1>2. PICK i \in 1..Arity[u.op] : c = u.args[i]
    BY DEF Uses
  <1>3. t.op = u.op /\ leader[t.args[i]] = leader[u.args[i]]
    BY <1>1, <1>2
  <1>4. t.args[i] \in Uses(t)
    BY <1>2, <1>3, TermFields
  <1> QED BY <1>2, <1>3, <1>4

\* What is found is what was asked for.
LEMMA LookupsFollow ==
  ASSUME IndexInv
  PROVE  LookupsExact
PROOF
  <1>1. /\ Leader \in [Symbol -> Symbol]
        /\ \A s \in Symbol : Leader[s] \in Symbol /\ Leader[Leader[s]] = Leader[s]
    BY LeaderProps DEF IndexInv, Inv
  <1>2. defined \subseteq Symbol /\ terms \in [Symbol -> SUBSET Term]
    BY DEF IndexInv, Inv, TypeOK
  <1>3. LookupsSound
    <2> SUFFICES ASSUME NEW s \in defined
                 PROVE  /\ \A i \in CandidateRoots(s) :
                             IsCandidate(i) /\ Leader[occurrences[i].owner] = Leader[s]
                        /\ \A i \in ParentCandidates(s) :
                             IsCandidate(i) /\ \E c \in Uses(occurrences[i].term) : Leader[c] = Leader[s]
      BY DEF LookupsSound
    <2>1. ASSUME NEW i \in CandidateRoots(s)
          PROVE  IsCandidate(i) /\ Leader[occurrences[i].owner] = Leader[s]
      <3>1. i \in roots[Leader[s]] /\ i \in DOMAIN occurrences
        BY DEF CandidateRoots, IsLivePlace
      <3> QED BY <1>1, <1>2, <3>1 DEF IndexInv, PlacesSound
    <2>2. ASSUME NEW i \in ParentCandidates(s)
          PROVE  IsCandidate(i) /\ \E c \in Uses(occurrences[i].term) : Leader[c] = Leader[s]
      <3>1. i \in parents[Leader[s]] /\ i \in DOMAIN occurrences
        BY DEF ParentCandidates, IsLivePlace
      <3>2. \E c \in Uses(occurrences[i].term) : Leader[c] = Leader[Leader[s]]
        BY <1>1, <1>2, <3>1 DEF IndexInv, PlacesSound
      <3> QED BY <1>1, <1>2, <3>1, <3>2 DEF IndexInv, PlacesSound
    <2> QED BY <2>1, <2>2
  <1>4. ASSUME pc = "idle", touched = {}, NEW s \in defined, NEW c \in Candidates(terms)
        PROVE  /\ Leader[c[1]] = Leader[s] =>
                    \E i \in CandidateRoots(s) :
                      /\ Leader[occurrences[i].owner] = Leader[c[1]]
                      /\ Canon(Leader, occurrences[i].term) = Canon(Leader, c[2])
               /\ (\E u \in Uses(c[2]) : Leader[u] = Leader[s]) =>
                    \E i \in ParentCandidates(s) :
                      /\ Leader[occurrences[i].owner] = Leader[c[1]]
                      /\ Canon(Leader, occurrences[i].term) = Canon(Leader, c[2])
    <2>1. AllListed /\ AllStoodFor
      BY <1>4 DEF IndexInv, PlacesFull
    <2>2. c[1] \in Symbol /\ c[2] \in terms[c[1]] /\ c[2] \in Term
      BY <1>2 DEF Candidates
    <2>3. PICK i \in DOMAIN occurrences :
            /\ occurrences[i].live
            /\ Leader[occurrences[i].owner] = Leader[c[1]]
            /\ Canon(Leader, occurrences[i].term) = Canon(Leader, c[2])
      BY <2>1, <2>2 DEF AllStoodFor
    <2>4. occurrences[i].term \in Term
      BY <1>2 DEF IndexInv, PlacesSound, IsCandidate
    <2>5. ASSUME Leader[c[1]] = Leader[s] PROVE i \in CandidateRoots(s)
      BY <2>1, <2>3, <2>5 DEF AllListed, CandidateRoots, IsLivePlace
    <2>6. ASSUME NEW u \in Uses(c[2]), Leader[u] = Leader[s]
          PROVE  i \in ParentCandidates(s)
      <3>1. PICK d \in Uses(occurrences[i].term) : Leader[d] = Leader[u]
        BY <1>1, <2>2, <2>3, <2>4, CanonUses
      <3> QED BY <2>1, <2>3, <2>6, <3>1 DEF AllListed, ParentCandidates, IsLivePlace
    <2> QED BY <2>3, <2>5, <2>6
  <1>5. pc = "idle" /\ touched = {} => LookupsComplete
    BY <1>4 DEF LookupsComplete
  <1> QED BY <1>3, <1>5 DEF LookupsExact

\* A set of numbers that is not empty has a least one.
LEMMA LeastNumber ==
  ASSUME NEW T \in SUBSET Nat, T # {}
  PROVE  \E n \in T : \A m \in T : ~(m < n)
PROOF
  <1> DEFINE below == {p \in Nat \X Nat : p[1] < p[2]}
  <1>1. IsWellFoundedOn(below, Nat)
    BY NatLessThanWellFounded DEF OpToRel
  <1>2. PICK x \in T : \A y \in T : ~(<<y, x>> \in below)
    BY <1>1, WFMin, Zenon
  <1> QED BY <1>2

\* The occurrences of a new index, where duplicates may have been marked.
IsIssued(leader, listed, n, generation, occs) ==
  \/ occs = Issue(listed, n, generation)
  \/ occs = DuplicatesDead(leader, Issue(listed, n, generation),
                           EntryPlaces(leader, Issue(listed, n, generation)))

\* The occurrences are those of the walk over C, in its order.
IsWalk(occs, listed, C) ==
  /\ DOMAIN occs = 1..Len(listed)
  /\ \A i \in 1..Len(listed) :
       /\ occs[i].owner = listed[i][1] /\ occs[i].term = listed[i][2]
       /\ listed[i] \in C
  /\ \A c \in C : \E i \in 1..Len(listed) : listed[i] = c

\* An index is made of the candidates of the walk, at first with all of them live.
LEMMA IndexShape ==
  ASSUME NEW leader, NEW C, NEW listed, Visits(listed, C), NEW n, NEW generation,
         NEW occs, IsIssued(leader, listed, n, generation, occs)
  PROVE  /\ Len(listed) \in Nat
         /\ IsWalk(occs, listed, C)
         /\ IsWalk(Issue(listed, n, generation), listed, C)
         /\ \A i \in 1..Len(listed) :
              /\ "live" \in DOMAIN Issue(listed, n, generation)[i]
              /\ Issue(listed, n, generation)[i].live
PROOF
  <1> DEFINE all == Issue(listed, n, generation)
             own(i) == EntryPlaces(leader, all)[Canon(leader, all[i].term)] = i
  <1>1. /\ DOMAIN listed = 1..Len(listed) /\ Len(listed) \in Nat
        /\ \A i \in 1..Len(listed) : listed[i] \in C
        /\ \A c \in C : \E i \in 1..Len(listed) : listed[i] = c
    BY DEF Visits
  <1>2. /\ DOMAIN all = 1..Len(listed)
        /\ \A i \in 1..Len(listed) :
             /\ all[i].owner = listed[i][1] /\ all[i].term = listed[i][2] /\ all[i].live
             /\ DOMAIN all[i] = {"owner", "term", "live", "serial", "generation"}
    BY <1>1 DEF Issue
  <1>3. occs = all \/ occs = [i \in DOMAIN all |-> [all[i] EXCEPT !.live = own(i)]]
    BY Zenon DEF DuplicatesDead, IsIssued
  <1> HIDE DEF own, all
  <1>4. /\ DOMAIN occs = 1..Len(listed)
        /\ \A i \in 1..Len(listed) : occs[i].owner = listed[i][1] /\ occs[i].term = listed[i][2]
    BY <1>2, <1>3
  <1>5. \A i \in 1..Len(listed) : "live" \in DOMAIN all[i]
    BY <1>2
  <1> QED BY <1>1, <1>2, <1>4, <1>5, Zenon DEF all, IsWalk

\* The lists of a new index are right, and none misses an occurrence.
LEMMA ListsRight ==
  ASSUME NEW leader \in [Symbol -> Symbol], \A s \in Symbol : leader[leader[s]] = leader[s],
         NEW candidates \in [Symbol -> SUBSET Term],
         NEW listed, Visits(listed, Candidates(candidates)), NEW n, NEW generation,
         NEW occs, IsIssued(leader, listed, n, generation, occs)
  PROVE  /\ RootPlaces(leader, Issue(listed, n, generation)) \in [Symbol -> SUBSET DOMAIN occs]
         /\ ParentPlaces(leader, Issue(listed, n, generation)) \in [Symbol -> SUBSET DOMAIN occs]
         /\ \A i \in DOMAIN occs :
              /\ occs[i].owner \in Symbol /\ occs[i].term \in candidates[occs[i].owner]
              /\ i \in RootPlaces(leader, Issue(listed, n, generation))[leader[occs[i].owner]]
              /\ \A c \in Uses(occs[i].term) :
                   i \in ParentPlaces(leader, Issue(listed, n, generation))[leader[c]]
         /\ \A r \in Symbol :
              /\ \A i \in RootPlaces(leader, Issue(listed, n, generation))[r] :
                   leader[occs[i].owner] = leader[r]
              /\ \A i \in ParentPlaces(leader, Issue(listed, n, generation))[r] :
                   \E c \in Uses(occs[i].term) : leader[c] = leader[r]
PROOF
  <1> DEFINE m == Len(listed)
             all == Issue(listed, n, generation)
             own(i) == occs[i].owner
             term(i) == occs[i].term
             R == RootPlaces(leader, all)
             P == ParentPlaces(leader, all)
             C == Candidates(candidates)
  <1>1. /\ DOMAIN occs = 1..m /\ DOMAIN all = 1..m
        /\ \A i \in 1..m :
             /\ own(i) = listed[i][1] /\ term(i) = listed[i][2]
             /\ all[i].owner = own(i) /\ all[i].term = term(i)
             /\ listed[i] \in C
    <2>1. Visits(listed, C)
      OBVIOUS
    <2> HIDE DEF C
    <2>2. IsWalk(occs, listed, C) /\ IsWalk(all, listed, C)
      BY <2>1, IndexShape
    <2> HIDE DEF all
    <2> QED BY <2>2 DEF IsWalk
  <1>2. /\ R = [s \in Symbol |-> {i \in DOMAIN all : leader[all[i].owner] = s}]
        /\ P = [s \in Symbol |-> {i \in DOMAIN all : \E c \in Uses(all[i].term) : leader[c] = s}]
    BY DEF RootPlaces, ParentPlaces
  <1> HIDE DEF m, own, term, R, P, all
  <1>3. \A i \in 1..m : own(i) \in Symbol /\ term(i) \in candidates[own(i)] /\ term(i) \in Term
    <2> TAKE i \in 1..m
    <2>1. PICK s \in Symbol : \E t \in candidates[s] : listed[i] = <<s, t>>
      BY <1>1 DEF Candidates
    <2> QED BY <1>1, <2>1
  <1>4. /\ R \in [Symbol -> SUBSET (1..m)] /\ P \in [Symbol -> SUBSET (1..m)]
        /\ \A r \in Symbol, i \in 1..m :
             /\ i \in R[r] <=> leader[own(i)] = r
             /\ i \in P[r] <=> \E c \in Uses(term(i)) : leader[c] = r
    BY <1>1, <1>2
  <1>5. ASSUME NEW r \in Symbol
        PROVE  /\ \A i \in R[r] : leader[own(i)] = leader[r]
               /\ \A i \in P[r] : \E c \in Uses(term(i)) : leader[c] = leader[r]
    <2>1. ASSUME NEW i \in R[r] PROVE leader[own(i)] = leader[r]
      BY <1>3, <1>4, <2>1
    <2>2. ASSUME NEW i \in P[r] PROVE \E c \in Uses(term(i)) : leader[c] = leader[r]
      <3>1. i \in 1..m
        BY <1>4
      <3>2. PICK c \in Uses(term(i)) : leader[c] = r
        BY <1>4, <3>1
      <3>3. c \in Symbol
        BY <1>3, <3>1, TermFields
      <3> QED BY <3>2, <3>3
    <2> QED BY <2>1, <2>2
  <1>6. ASSUME NEW i \in 1..m
        PROVE  /\ i \in R[leader[own(i)]]
               /\ \A c \in Uses(term(i)) : i \in P[leader[c]]
    <2>1. own(i) \in Symbol /\ Uses(term(i)) \subseteq Symbol
      BY <1>3, TermFields
    <2> QED BY <1>4, <2>1
  <1> QED BY <1>1, <1>3, <1>4, <1>5, <1>6 DEF own, term, R, P, all

\* A rebuild fills the lists anew.
LEMMA ReindexPlaces ==
  ASSUME Inv, Inv', parent' = parent, NEW listed, Reindex(Leader, listed),
         IsIssued(Leader, listed, issued, next, occurrences')
  PROVE  PlacesSound' /\ AllListed'
PROOF
  <1> DEFINE L == Leader
             T == terms'
             all == Issue(listed, issued, next)
  <1>1. Leader' = L
    BY DEF Leader
  <1>2. L \in [Symbol -> Symbol] /\ \A s \in Symbol : L[L[s]] = L[s]
    BY LeaderProps DEF Inv
  <1>3. T \in [Symbol -> SUBSET Term]
    BY DEF Inv, TypeOK
  <1>4. /\ Visits(listed, Candidates(T)) /\ IsIssued(L, listed, issued, next, occurrences')
        /\ roots' = RootPlaces(L, all) /\ parents' = ParentPlaces(L, all)
    BY DEF Reindex, Fresh
  <1> HIDE DEF L, T
  <1>5. /\ RootPlaces(L, all) \in [Symbol -> SUBSET DOMAIN occurrences']
        /\ ParentPlaces(L, all) \in [Symbol -> SUBSET DOMAIN occurrences']
        /\ \A i \in DOMAIN occurrences' :
             /\ occurrences'[i].owner \in Symbol
             /\ occurrences'[i].term \in T[occurrences'[i].owner]
             /\ i \in RootPlaces(L, all)[L[occurrences'[i].owner]]
             /\ \A c \in Uses(occurrences'[i].term) : i \in ParentPlaces(L, all)[L[c]]
        /\ \A r \in Symbol :
             /\ \A i \in RootPlaces(L, all)[r] : L[occurrences'[i].owner] = L[r]
             /\ \A i \in ParentPlaces(L, all)[r] :
                  \E c \in Uses(occurrences'[i].term) : L[c] = L[r]
    BY <1>2, <1>3, <1>4, ListsRight
  <1> HIDE DEF all
  <1> QED BY <1>1, <1>4, <1>5 DEF PlacesSound, AllListed, IsCandidate, T

(***************************************************************************)
(* addStructuralEntry has given each key to its first occurrence.          *)
(***************************************************************************)
LEMMA FirstEnters ==
  ASSUME NEW leader, NEW occs, NEW m \in Nat, DOMAIN occs = 1..m, NEW n \in 1..m
  PROVE  LET e == EntryPlaces(leader, occs)
             k == Canon(leader, occs[n].term)
         IN  /\ k \in DOMAIN e /\ e[k] \in 1..m
             /\ Canon(leader, occs[e[k]].term) = k
             /\ \A j \in 1..m : Canon(leader, occs[j].term) = k => ~(j < e[k])
PROOF
  <1> DEFINE key(i) == Canon(leader, occs[i].term)
             k == key(n)
             e == EntryPlaces(leader, occs)
             IsFirst(i) == key(i) = k /\ \A j \in 1..(i-1) : key(j) # k
             T == {i \in 1..m : key(i) = k}
  <1>1. k \in DOMAIN e /\ e[k] = CHOOSE i \in 1..m : IsFirst(i)
    BY DEF EntryPlaces
  <1> HIDE DEF key, e
  <1>2. n \in T /\ T \in SUBSET Nat
    OBVIOUS
  <1>3. PICK first \in T : \A j \in T : ~(j < first)
    BY <1>2, LeastNumber
  <1>4. \A j \in 1..(first-1) : j \in 1..m /\ j < first
    BY <1>2, <1>3
  <1>5. first \in 1..m /\ IsFirst(first)
    BY <1>3, <1>4
  <1>6. e[k] \in 1..m /\ IsFirst(e[k])
    BY <1>1, <1>5
  <1>7. ASSUME NEW j \in 1..m, key(j) = k PROVE ~(j < e[k])
    <2>1. j < e[k] => j \in 1..(e[k]-1)
      BY <1>6
    <2> QED BY <1>6, <1>7, <2>1
  <1> QED BY <1>1, <1>6, <1>7 DEF key, e

(***************************************************************************)
(* The table that indexEGraph fills, with the operation of each entry: it  *)
(* is one with the table of the facade, since the walk follows the block.  *)
(***************************************************************************)
LEMMA TableRight ==
  ASSUME NEW leader \in [Symbol -> Symbol], NEW candidates \in [Symbol -> SUBSET Term],
         NEW listed, Visits(listed, Candidates(candidates)), NEW n, NEW generation
  PROVE  LET all == Issue(listed, n, generation)
             e == EntryPlaces(leader, all)
             h == Index(leader, candidates)
         IN  /\ DOMAIN e = DOMAIN h
             /\ \A k \in DOMAIN h : /\ e[k] \in DOMAIN all
                                     /\ Canon(leader, all[e[k]].term) = k
                                     /\ all[e[k]].owner = h[k]
PROOF
  <1> DEFINE m == Len(listed)
             all == Issue(listed, n, generation)
             e == EntryPlaces(leader, all)
             h == Index(leader, candidates)
             C == Candidates(candidates)
             key(i) == Canon(leader, all[i].term)
  <1>1. /\ m \in Nat /\ DOMAIN all = 1..m
        /\ \A i \in 1..m : all[i].owner = listed[i][1] /\ all[i].term = listed[i][2] /\ listed[i] \in C
        /\ \A c \in C : \E i \in 1..m : listed[i] = c
        /\ \A i, j \in 1..m : i < j => Before(listed[i][1], listed[j][1])
    <2>1. Visits(listed, C) /\ IsIssued(leader, listed, n, generation, all)
      BY DEF IsIssued
    <2> HIDE DEF C
    <2>2. m \in Nat /\ IsWalk(all, listed, C)
      BY <2>1, IndexShape
    <2>3. DOMAIN listed = 1..m
      BY <2>1 DEF Visits
    <2> HIDE DEF all
    <2> QED BY <2>1, <2>2, <2>3 DEF IsWalk, Visits
  <1>2. /\ DOMAIN e = {key(i) : i \in DOMAIN all}
        /\ \A k \in DOMAIN h : h[k] = First(Owners(leader, candidates, k))
        /\ \A k : k \in DOMAIN h <=> \E s \in Symbol : \E t \in candidates[s] : k = Canon(leader, t)
    BY IndexEntries DEF EntryPlaces, Index
  <1>3. \A i \in 1..m : all[i].owner \in Symbol /\ all[i].term \in candidates[all[i].owner]
    <2> HIDE DEF m, all
    <2> TAKE i \in 1..m
    <2>1. PICK r \in Symbol : \E u \in candidates[r] : listed[i] = <<r, u>>
      BY <1>1 DEF Candidates
    <2> QED BY <1>1, <2>1
  <1>4. ASSUME NEW r \in Symbol, NEW t \in candidates[r]
        PROVE  \E i \in 1..m : all[i].owner = r /\ all[i].term = t
    <2> HIDE DEF m, all
    <2>1. <<r, t>> \in C
      BY DEF Candidates
    <2>2. PICK i \in 1..m : listed[i] = <<r, t>>
      BY <1>1, <2>1
    <2> QED BY <1>1, <2>2
  <1> HIDE DEF m, e, h, C
  <1>5. /\ DOMAIN e = DOMAIN h
        /\ \A k \in DOMAIN e : \E i \in 1..m : k = key(i)
    <2>1. \A k : k \in DOMAIN e <=> \E i \in 1..m : k = key(i)
      <3> HIDE DEF key
      <3> QED BY <1>1, <1>2
    <2>2. ASSUME NEW i \in 1..m PROVE key(i) \in DOMAIN h
      <3> HIDE DEF all
      <3> QED BY <1>2, <1>3
    <2>3. ASSUME NEW k \in DOMAIN h PROVE \E i \in 1..m : k = key(i)
      <3>1. PICK s \in Symbol : \E t \in candidates[s] : k = Canon(leader, t)
        BY <1>2
      <3>2. PICK t \in candidates[s] : k = Canon(leader, t)
        BY <3>1
      <3>3. PICK i \in 1..m : all[i].owner = s /\ all[i].term = t
        BY <1>4
      <3> QED BY <3>2, <3>3
    <2> HIDE DEF key
    <2> QED BY <2>1, <2>2, <2>3
  <1> HIDE DEF all
  <1>6. ASSUME NEW k \in DOMAIN h
        PROVE  /\ e[k] \in 1..m /\ key(e[k]) = k
               /\ all[e[k]].owner = h[k]
    <2> DEFINE i == e[k]
               S == Owners(leader, candidates, k)
               o == all[i].owner
    <2>1. /\ i \in 1..m /\ key(i) = k
          /\ \A j \in 1..m : key(j) = k => ~(j < i)
      <3>1. PICK x \in 1..m : k = key(x)
        BY <1>5, <1>6
      <3>2. LET f == EntryPlaces(leader, all)
                l == Canon(leader, all[x].term)
            IN  /\ l \in DOMAIN f /\ f[l] \in 1..m
                /\ Canon(leader, all[f[l]].term) = l
                /\ \A j \in 1..m : Canon(leader, all[j].term) = l => ~(j < f[l])
        BY <1>1, FirstEnters
      <3> QED BY <3>1, <3>2 DEF e
    <2> HIDE DEF i
    <2>2. o \in S /\ S \in SUBSET Symbol
      BY <1>3, <2>1 DEF Owners
    <2>3. First(S) \in S /\ Before(First(S), o)
      BY <2>2, FirstOK, BlockOrder
    <2>4. First(S) = o
      <3>1. PICK t \in candidates[First(S)] : Canon(leader, t) = k
        BY <2>3 DEF Owners
      <3>2. PICK j \in 1..m : all[j].owner = First(S) /\ all[j].term = t
        BY <1>4, <2>2, <2>3, <3>1
      <3>3. ~(j < i)
        BY <2>1, <3>1, <3>2
      <3>4. CASE i = j
        BY <3>2, <3>4
      <3>5. CASE i < j
        <4>1. Before(o, First(S))
          BY <1>1, <2>1, <3>2, <3>5
        <4>2. {o, First(S)} = {First(S), o}
          OBVIOUS
        <4>3. First({o, First(S)}) = o /\ First({First(S), o}) = First(S)
          BY <2>3, <4>1 DEF Before
        <4> QED BY <4>2, <4>3
      <3> QED BY <1>1, <2>1, <3>3, <3>4, <3>5
    <2> QED BY <1>2, <1>6, <2>1, <2>4 DEF i
  <1> QED BY <1>1, <1>5, <1>6 DEF all, e, h

(***************************************************************************)
(* What markDuplicateOccurrencesDead leaves: the occurrence of an entry,   *)
(* and no other.                                                           *)
(***************************************************************************)
LEMMA EntriesLive ==
  ASSUME NEW leader, NEW C, NEW listed, Visits(listed, C), NEW n, NEW generation, NEW occs,
         occs = DuplicatesDead(leader, Issue(listed, n, generation),
                               EntryPlaces(leader, Issue(listed, n, generation)))
  PROVE  LET e == EntryPlaces(leader, Issue(listed, n, generation))
         IN  \A i \in DOMAIN occs : occs[i].live <=> e[Canon(leader, occs[i].term)] = i
PROOF
  <1> DEFINE m == Len(listed)
             all == Issue(listed, n, generation)
             e == EntryPlaces(leader, all)
             own(i) == e[Canon(leader, all[i].term)] = i
  <1>1. IsIssued(leader, listed, n, generation, occs)
    BY DEF IsIssued
  <1>2. /\ IsWalk(occs, listed, C) /\ IsWalk(all, listed, C)
        /\ \A i \in 1..m : "live" \in DOMAIN all[i]
    BY <1>1, IndexShape
  <1>3. \A i \in DOMAIN all : occs[i] = [all[i] EXCEPT !.live = own(i)]
    BY DEF DuplicatesDead
  <1> HIDE DEF all, e
  <1>4. ASSUME NEW i \in DOMAIN occs PROVE occs[i].live <=> e[Canon(leader, occs[i].term)] = i
    <2>1. i \in 1..m /\ all[i].term = occs[i].term
      BY <1>2 DEF IsWalk
    <2>2. occs[i].live = own(i)
      BY <1>2, <1>3, <2>1 DEF IsWalk
    <2> QED BY <2>1, <2>2
  <1> QED BY <1>4 DEF e, all

(***************************************************************************)
(* So each candidate has a live occurrence with its key.                   *)
(***************************************************************************)
LEMMA FirstStands ==
  ASSUME NEW leader, NEW candidates, NEW listed, Visits(listed, Candidates(candidates)),
         NEW n, NEW generation, NEW occs,
         occs = DuplicatesDead(leader, Issue(listed, n, generation),
                               EntryPlaces(leader, Issue(listed, n, generation))),
         NEW s \in Symbol, NEW t \in candidates[s]
  PROVE  \E i \in DOMAIN occs :
           /\ occs[i].live
           /\ occs[i].owner \in Symbol /\ occs[i].term \in candidates[occs[i].owner]
           /\ Canon(leader, occs[i].term) = Canon(leader, t)
PROOF
  <1> DEFINE m == Len(listed)
             all == Issue(listed, n, generation)
             e == EntryPlaces(leader, all)
             k == Canon(leader, t)
             C == Candidates(candidates)
  <1>1. /\ DOMAIN occs = 1..m /\ DOMAIN all = 1..m /\ m \in Nat
        /\ \A i \in 1..m : /\ occs[i].owner = listed[i][1] /\ occs[i].term = listed[i][2]
                            /\ all[i].term = listed[i][2]
                            /\ listed[i] \in C
        /\ \A c \in C : \E i \in 1..m : listed[i] = c
    <2>1. Visits(listed, C) /\ IsIssued(leader, listed, n, generation, occs)
      BY DEF IsIssued
    <2> HIDE DEF C
    <2>2. m \in Nat /\ IsWalk(occs, listed, C) /\ IsWalk(all, listed, C)
      BY <2>1, IndexShape
    <2> HIDE DEF all
    <2> QED BY <2>2 DEF IsWalk
  <1>2. \A i \in DOMAIN occs : occs[i].live <=> e[Canon(leader, occs[i].term)] = i
    <2>1. Visits(listed, C)
      OBVIOUS
    <2> HIDE DEF C
    <2> QED BY <2>1, EntriesLive
  <1>3. \A i \in 1..m : occs[i].owner \in Symbol /\ occs[i].term \in candidates[occs[i].owner]
    <2> HIDE DEF m, all
    <2> TAKE i \in 1..m
    <2>1. PICK r \in Symbol : \E u \in candidates[r] : listed[i] = <<r, u>>
      BY <1>1 DEF Candidates
    <2> QED BY <1>1, <2>1
  <1>4. \E i \in 1..m : all[i].term = t
    <2> HIDE DEF m, all
    <2>1. <<s, t>> \in C
      BY DEF Candidates
    <2> QED BY <1>1, <2>1
  <1> HIDE DEF m, all
  <1>5. e[k] \in 1..m /\ Canon(leader, all[e[k]].term) = k
    <2>1. PICK x \in 1..m : all[x].term = t
      BY <1>4
    <2>2. LET f == EntryPlaces(leader, all)
              l == Canon(leader, all[x].term)
          IN  /\ l \in DOMAIN f /\ f[l] \in 1..m
              /\ Canon(leader, all[f[l]].term) = l
              /\ \A j \in 1..m : Canon(leader, all[j].term) = l => ~(j < f[l])
      BY <1>1, FirstEnters
    <2> QED BY <2>1, <2>2
  <1> HIDE DEF e, k
  <1>6. occs[e[k]].term = all[e[k]].term
    BY <1>1, <1>5
  <1>7. occs[e[k]].live
    BY <1>1, <1>2, <1>5, <1>6
  <1> QED BY <1>1, <1>3, <1>5, <1>6, <1>7 DEF k

\* The first index is right.
LEMMA PlacesInit == IndexInit => PlacesSound /\ PlacesFull
PROOF
  <1> SUFFICES ASSUME IndexInit PROVE PlacesSound /\ PlacesFull
    OBVIOUS
  <1> DEFINE L == Leader
             listed == Listed(Candidates(terms))
             all == Issue(listed, 0, 1)
  <1>1. Inv
    BY InitInv DEF IndexInit
  <1>2. /\ L \in [Symbol -> Symbol] /\ \A s \in Symbol : L[L[s]] = L[s]
        /\ terms \in [Symbol -> SUBSET Term]
    BY <1>1, LeaderProps DEF Inv, TypeOK
  <1>3. parent = NoUnions
    BY DEF IndexInit, Init
  <1>4. /\ Visits(listed, Candidates(terms)) /\ occurrences = all
        /\ roots = RootPlaces(L, all) /\ parents = ParentPlaces(L, all)
    BY <1>3 DEF IndexInit, Leader
  <1> HIDE DEF L, listed
  <1>5. IsIssued(L, listed, 0, 1, occurrences)
    BY <1>4 DEF IsIssued
  <1>6. /\ RootPlaces(L, all) \in [Symbol -> SUBSET DOMAIN occurrences]
        /\ ParentPlaces(L, all) \in [Symbol -> SUBSET DOMAIN occurrences]
        /\ \A i \in DOMAIN occurrences :
             /\ occurrences[i].owner \in Symbol
             /\ occurrences[i].term \in terms[occurrences[i].owner]
             /\ i \in RootPlaces(L, all)[L[occurrences[i].owner]]
             /\ \A c \in Uses(occurrences[i].term) : i \in ParentPlaces(L, all)[L[c]]
        /\ \A r \in Symbol :
             /\ \A i \in RootPlaces(L, all)[r] : L[occurrences[i].owner] = L[r]
             /\ \A i \in ParentPlaces(L, all)[r] :
                  \E c \in Uses(occurrences[i].term) : L[c] = L[r]
    BY <1>2, <1>4, <1>5, ListsRight
  <1>7. /\ IsWalk(occurrences, listed, Candidates(terms))
        /\ \A i \in 1..Len(listed) : all[i].live
    <2> DEFINE C == Candidates(terms)
    <2>1. Visits(listed, C)
      BY <1>4
    <2> HIDE DEF C
    <2>2. IsWalk(occurrences, listed, C) /\ \A i \in 1..Len(listed) : all[i].live
      BY <1>5, <2>1, IndexShape
    <2> QED BY <2>2 DEF C
  <1> HIDE DEF all
  <1>8. AllStoodFor
    <2> SUFFICES ASSUME NEW s \in Symbol, NEW t \in terms[s]
                 PROVE  \E i \in DOMAIN occurrences :
                          /\ occurrences[i].live
                          /\ L[occurrences[i].owner] = L[s]
                          /\ Canon(L, occurrences[i].term) = Canon(L, t)
      BY DEF AllStoodFor, L
    <2>1. <<s, t>> \in Candidates(terms)
      BY DEF Candidates
    <2>2. PICK i \in 1..Len(listed) : listed[i] = <<s, t>>
      BY <1>7, <2>1 DEF IsWalk
    <2>3. occurrences[i].owner = s /\ occurrences[i].term = t /\ i \in DOMAIN occurrences
      BY <1>7, <2>2 DEF IsWalk
    <2> QED BY <1>4, <1>7, <2>2, <2>3
  <1>9. PlacesSound /\ AllListed
    BY <1>4, <1>6 DEF PlacesSound, AllListed, IsCandidate, L
  <1> QED BY <1>8, <1>9 DEF PlacesFull

\* A union only makes classes of the lists grow, and marks the graph as touched.
LEMMA PlacesUnion ==
  ASSUME Inv, PlacesSound, PlacesFull, IndexUnion
  PROVE  PlacesSound' /\ PlacesFull'
PROOF
  <1>1. /\ UNCHANGED <<occurrences, roots, parents, terms>>
        /\ pc' # "collide" => pc # "collide"
        /\ (Leader' = Leader /\ touched' = touched) \/ touched' # {}
        /\ \A x, y \in Symbol : Leader[x] = Leader[y] => Leader'[x] = Leader'[y]
    <2>1. CASE ClientUnion
      <3>1. UNCHANGED <<terms, parent, touched>> /\ pc = "idle"
        BY <2>1 DEF ClientUnion, UnionValueTuples, ir
      <3> QED BY <3>1 DEF IndexUnion, indexVars, Leader
    <2>2. ASSUME NEW p \in work, UnionLeaderSymbols(p)
          PROVE  /\ UNCHANGED <<occurrences, roots, parents, terms>>
                 /\ pc' # "collide" => pc # "collide"
                 /\ (Leader' = Leader /\ touched' = touched) \/ touched' # {}
                 /\ \A x, y \in Symbol : Leader[x] = Leader[y] => Leader'[x] = Leader'[y]
      <3>1. /\ UNCHANGED <<occurrences, roots, parents, terms>>
            /\ pc' # "collide" => pc # "collide"
        BY <2>2, UnionMoves DEF IndexUnion, indexVars
      <3>2. \A x, y \in Symbol : Leader[x] = Leader[y] => Leader'[x] = Leader'[y]
        BY <2>2, UnionMoves DEF IsMerge
      <3>3. CASE Leader[p[1]] = Leader[p[2]]
        BY <2>2, <3>1, <3>2, <3>3 DEF UnionLeaderSymbols, Leader
      <3>4. CASE Leader[p[1]] # Leader[p[2]]
        <4>1. touched' # {}
          BY <2>2, <3>4 DEF UnionLeaderSymbols
        <4> QED BY <3>1, <3>2, <4>1
      <3> QED BY <3>3, <3>4
    <2> QED BY <2>1, <2>2 DEF IndexUnion
  <1>2. PlacesSound'
    <2>1. \A i \in DOMAIN occurrences :
            occurrences[i].term \in Term /\ Uses(occurrences[i].term) \subseteq Symbol
      BY TermFields DEF PlacesSound, IsCandidate, Inv, TypeOK
    <2>2. ASSUME NEW r \in Symbol, NEW i \in roots[r]
          PROVE  Leader'[occurrences[i].owner] = Leader'[r]
      BY <1>1, <2>2 DEF PlacesSound
    <2>3. ASSUME NEW r \in Symbol, NEW i \in parents[r]
          PROVE  \E c \in Uses(occurrences[i].term) : Leader'[c] = Leader'[r]
      <3>1. PICK c \in Uses(occurrences[i].term) : Leader[c] = Leader[r]
        BY DEF PlacesSound
      <3>2. c \in Symbol
        BY <2>1, <3>1 DEF PlacesSound
      <3> QED BY <1>1, <3>1, <3>2
    <2> QED BY <1>1, <2>2, <2>3 DEF PlacesSound, IsCandidate
  <1>3. PlacesFull'
    BY <1>1 DEF PlacesFull, AllListed, AllStoodFor
  <1> QED BY <1>2, <1>3

\* The new occurrence is listed under the leaders of its operands, and is live.
LEMMA PlacesIntern ==
  ASSUME Inv, HandleInv, PlacesSound, PlacesFull, NEW t \in Term, NEW s \in Symbol,
         IndexIntern(t, s)
  PROVE  PlacesSound' /\ PlacesFull'
PROOF
  <1> DEFINE key == Canon(Leader, t)
             new == Issue(<< <<s, key>> >>, issued, next)[1]
             place == Len(occurrences) + 1
             N == Len(occurrences)
  <1>1. /\ N \in Nat /\ DOMAIN occurrences = 1..N
        /\ DOMAIN occurrences' = 1..place /\ place = N + 1
        /\ \A i \in 1..N : occurrences'[i] = occurrences[i]
        /\ occurrences'[place] = new
    BY InternAppends
  <1>2. new.owner = s /\ new.term = key /\ new.live
    BY DEF Issue
  <1>3. /\ s \notin defined /\ UNCHANGED <<parent, touched, pc>> /\ pc = "idle"
        /\ parent[s] = s
        /\ terms' = [terms EXCEPT ![s] = {key}]
    BY DEF IndexIntern, Intern, IsFresh
  <1>4. /\ roots' = [roots EXCEPT ![s] = @ \cup {place}]
        /\ parents' = [c \in Symbol |->
             IF \E u \in Uses(t) : Leader[u] = c THEN parents[c] \cup {place} ELSE parents[c]]
    BY DEF IndexIntern
  <1>5. /\ Leader \in [Symbol -> Symbol] /\ Leader[s] = s
        /\ \A x \in Symbol : Leader[x] \in Symbol /\ Leader[Leader[x]] = Leader[x]
    BY <1>3, LeaderProps DEF Inv
  <1>6. Leader' = Leader
    BY <1>3 DEF Leader
  <1>7. /\ key \in Term /\ Uses(t) \subseteq Symbol
        /\ \A u \in Uses(key) : \E v \in Uses(t) : u = Leader[v]
        /\ \A v \in Uses(t) : Leader[v] \in Uses(key)
    <2>1. /\ key \in Term /\ key.op = t.op
          /\ key.args = [i \in 1..Arity[t.op] |-> Leader[t.args[i]]]
          /\ \A u \in Uses(key) : \E v \in Uses(t) : u = Leader[v]
      BY <1>5, CanonTerm
    <2>2. \A v \in Uses(t) : Leader[v] \in Uses(key)
      BY <2>1 DEF Uses
    <2> QED BY <2>1, <2>2, TermFields
  <1> HIDE DEF key, new
  <1>8. /\ terms[s] = {} /\ terms'[s] = {key}
        /\ \A r \in Symbol : r # s => terms'[r] = terms[r]
    BY <1>3 DEF Inv, TypeOK, IRVerifies
  <1>9. \A i \in 1..N :
          /\ occurrences[i].owner \in Symbol /\ occurrences[i].owner # s
          /\ occurrences[i].term \in terms[occurrences[i].owner]
          /\ occurrences[i].term \in Term /\ Uses(occurrences[i].term) \subseteq Symbol
    <2> TAKE i \in 1..N
    <2>1. occurrences[i].owner \in Symbol /\ occurrences[i].term \in terms[occurrences[i].owner]
      BY <1>1 DEF PlacesSound, IsCandidate
    <2> QED BY <1>8, <2>1, TermFields DEF Inv, TypeOK
  <1>10. /\ roots \in [Symbol -> SUBSET (1..N)] /\ parents \in [Symbol -> SUBSET (1..N)]
    BY <1>1 DEF PlacesSound
  <1> HIDE DEF place, N
  <1>11. /\ roots' \in [Symbol -> SUBSET (1..place)] /\ parents' \in [Symbol -> SUBSET (1..place)]
         /\ \A r \in Symbol :
              /\ roots[r] \subseteq roots'[r] /\ parents[r] \subseteq parents'[r]
              /\ \A i \in roots'[r] : i \in roots[r] \/ (i = place /\ r = s)
              /\ \A i \in parents'[r] :
                   i \in parents[r] \/ (i = place /\ \E u \in Uses(t) : Leader[u] = r)
    <2>1. 1..N \subseteq 1..place /\ place \in 1..place
      BY <1>1
    <2> QED BY <1>4, <1>10, <2>1
  <1>12. PlacesSound'
    <2>1. ASSUME NEW i \in 1..place
          PROVE  occurrences'[i].owner \in Symbol
                 /\ occurrences'[i].term \in terms'[occurrences'[i].owner]
      <3>1. CASE i = place
        BY <1>1, <1>2, <1>8, <3>1
      <3>2. CASE i # place
        <4>1. i \in 1..N
          BY <1>1, <2>1, <3>2
        <4> QED BY <1>1, <1>8, <1>9, <4>1
      <3> QED BY <3>1, <3>2
    <2>2. ASSUME NEW r \in Symbol, NEW i \in roots'[r]
          PROVE  Leader[occurrences'[i].owner] = Leader[r]
      <3>1. CASE i = place /\ r = s
        BY <1>1, <1>2, <3>1
      <3>2. CASE i \in roots[r]
        <4>1. i \in 1..N
          BY <1>10, <3>2
        <4> QED BY <1>1, <3>2, <4>1 DEF PlacesSound
      <3> QED BY <1>11, <2>2, <3>1, <3>2
    <2>3. ASSUME NEW r \in Symbol, NEW i \in parents'[r]
          PROVE  \E c \in Uses(occurrences'[i].term) : Leader[c] = Leader[r]
      <3>1. CASE i = place /\ \E u \in Uses(t) : Leader[u] = r
        <4>1. PICK u \in Uses(t) : Leader[u] = r
          BY <3>1
        <4>2. Leader[u] \in Uses(key) /\ occurrences'[i].term = key
          BY <1>1, <1>2, <1>7, <3>1
        <4> QED BY <4>1, <4>2
      <3>2. CASE i \in parents[r]
        <4>1. i \in 1..N
          BY <1>10, <3>2
        <4> QED BY <1>1, <3>2, <4>1 DEF PlacesSound
      <3> QED BY <1>11, <2>3, <3>1, <3>2
    <2> QED BY <1>1, <1>6, <1>11, <2>1, <2>2, <2>3 DEF PlacesSound, IsCandidate
  <1>13. ASSUME touched = {}
         PROVE  AllListed' /\ AllStoodFor'
    <2>1. AllListed /\ AllStoodFor
      BY <1>3, <1>13 DEF PlacesFull
    <2>2. ASSUME NEW i \in 1..place
          PROVE  /\ i \in roots'[Leader[occurrences'[i].owner]]
                 /\ \A c \in Uses(occurrences'[i].term) : i \in parents'[Leader[c]]
      <3>1. CASE i = place
        <4>1. occurrences'[i].owner = s /\ occurrences'[i].term = key
          BY <1>1, <1>2, <3>1
        <4>2. i \in roots'[Leader[occurrences'[i].owner]]
          BY <1>4, <1>5, <1>10, <3>1, <4>1
        <4>3. ASSUME NEW c \in Uses(key) PROVE i \in parents'[Leader[c]]
          <5>1. PICK v \in Uses(t) : c = Leader[v]
            BY <1>7
          <5>2. v \in Symbol /\ Leader[c] = Leader[v] /\ Leader[c] \in Symbol
            BY <1>5, <1>7, <5>1
          <5> QED BY <1>4, <3>1, <5>2
        <4> QED BY <4>1, <4>2, <4>3
      <3>2. CASE i # place
        <4>1. i \in 1..N
          BY <1>1, <2>2, <3>2
        <4>2. /\ i \in roots[Leader[occurrences[i].owner]]
              /\ \A c \in Uses(occurrences[i].term) : i \in parents[Leader[c]]
          BY <1>1, <2>1, <4>1 DEF AllListed
        <4>3. /\ Leader[occurrences[i].owner] \in Symbol
              /\ \A c \in Uses(occurrences[i].term) : Leader[c] \in Symbol
          BY <1>5, <1>9, <4>1
        <4> QED BY <1>1, <1>11, <4>1, <4>2, <4>3
      <3> QED BY <3>1, <3>2
    <2>3. ASSUME NEW r \in Symbol, NEW u \in terms'[r]
          PROVE  \E i \in 1..place :
                   /\ occurrences'[i].live
                   /\ Leader[occurrences'[i].owner] = Leader[r]
                   /\ Canon(Leader, occurrences'[i].term) = Canon(Leader, u)
      <3>1. CASE r = s
        <4>1. u = key /\ place \in 1..place
          BY <1>1, <1>8, <2>3, <3>1
        <4> QED BY <1>1, <1>2, <3>1, <4>1
      <3>2. CASE r # s
        <4>1. PICK i \in DOMAIN occurrences :
                /\ occurrences[i].live
                /\ Leader[occurrences[i].owner] = Leader[r]
                /\ Canon(Leader, occurrences[i].term) = Canon(Leader, u)
          BY <1>8, <2>1, <2>3, <3>2 DEF AllStoodFor
        <4>2. i \in 1..N /\ i \in 1..place
          BY <1>1
        <4> QED BY <1>1, <4>1, <4>2
      <3> QED BY <3>1, <3>2
    <2> QED BY <1>1, <1>6, <2>2, <2>3 DEF AllListed, AllStoodFor
  <1> QED BY <1>3, <1>12, <1>13 DEF PlacesFull

\* Every step keeps the lists right.
LEMMA PlacesNext ==
  ASSUME IndexInv, Inv', [IndexNext]_allVars
  PROVE  PlacesSound' /\ PlacesFull'
PROOF
  <1> USE DEF IndexInv
  <1>1. CASE IndexUnion
    BY <1>1, PlacesUnion
  <1>2. CASE \E t \in Term, s \in Symbol : IndexIntern(t, s)
    BY <1>2, PlacesIntern
  <1>3. CASE IndexRound
    <2> DEFINE listed == Listed(Candidates(terms'))
    <2>1. /\ parent' = parent /\ pc' = "collide"
          /\ Reindex(Leader, listed) /\ occurrences' = Fresh(listed)
      BY <1>3 DEF IndexRound, RebuildRound
    <2> HIDE DEF listed
    <2>2. IsIssued(Leader, listed, issued, next, occurrences')
      BY <2>1 DEF IsIssued, Fresh
    <2> QED BY <2>1, <2>2, ReindexPlaces DEF PlacesFull
  <1>4. CASE IndexFinish
    <2> DEFINE listed == Listed(Candidates(terms'))
               L == Leader
               T == terms'
               occs == occurrences'
    <2>1. /\ RebuildFinish /\ parent' = parent
          /\ Reindex(L, listed)
          /\ occs = DuplicatesDead(L, Issue(listed, issued, next),
                                   EntryPlaces(L, Issue(listed, issued, next)))
          /\ Visits(listed, Candidates(T))
      BY <1>4 DEF IndexFinish, RebuildFinish, Fresh, Reindex
    <2> HIDE DEF listed
    <2>2. IsIssued(L, listed, issued, next, occs)
      BY <2>1 DEF IsIssued
    <2>3. PlacesSound' /\ AllListed'
      BY <2>1, <2>2, ReindexPlaces
    <2>4. Settled'
      BY <2>1, FinishSettles
    <2>5. Leader' = L
      BY <2>1 DEF Leader
    <2> HIDE DEF L, T, occs
    <2>6. ASSUME NEW s \in Symbol, NEW t \in T[s]
          PROVE  \E i \in DOMAIN occs :
                   /\ occs[i].live
                   /\ L[occs[i].owner] = L[s]
                   /\ Canon(L, occs[i].term) = Canon(L, t)
      <3>1. PICK i \in DOMAIN occs :
              /\ occs[i].live
              /\ occs[i].owner \in Symbol /\ occs[i].term \in T[occs[i].owner]
              /\ Canon(L, occs[i].term) = Canon(L, t)
        BY <2>1, FirstStands
      <3>2. \A r \in Symbol : \A u \in T[r] :
              Canon(L, u) = u /\ L[hashcons'[u]] = L[r]
        BY <2>4, <2>5 DEF Settled, T
      <3>3. occs[i].term = t
        BY <3>1, <3>2
      <3> QED BY <3>1, <3>2, <3>3
    <2>7. AllStoodFor'
      BY <2>5, <2>6 DEF AllStoodFor, T, occs
    <2> QED BY <2>3, <2>7 DEF PlacesFull
  <1>5. CASE Hold \/ UNCHANGED allVars
    <2>1. UNCHANGED <<terms, parent, touched, pc, occurrences, roots, parents>>
      BY <1>5 DEF Hold, allVars, vars, indexVars
    <2>2. Leader' = Leader
      BY <2>1 DEF Leader
    <2> QED BY <2>1, <2>2 DEF PlacesSound, PlacesFull, AllListed, AllStoodFor, IsCandidate
  <1> QED BY <1>1, <1>2, <1>3, <1>4, <1>5 DEF IndexNext

\* The invariant of the index, from the first one on.
LEMMA IndexInvInductive ==
  /\ IndexInit => IndexInv
  /\ IndexInv /\ [IndexNext]_allVars => IndexInv'
PROOF
  <1>1. IndexInit => IndexInv
    BY InitInv, RoundInvInit, IndexInitInv, PlacesInit DEF IndexInv, IndexInit
  <1>2. IndexInv /\ [IndexNext]_allVars => IndexInv'
    BY IndexStepsFacade, NextInv, RoundInvNext, IndexNextInv, PlacesNext DEF IndexInv
  <1> QED BY <1>1, <1>2

(***************************************************************************)
(* Lookups by e-class return candidates of that class, also between a      *)
(* union and the rebuild, and on a clean graph they miss no node: for      *)
(* every walk over the block, any operations and any sequence of calls.    *)
(***************************************************************************)
THEOREM LookupsAlwaysExact == IndexSpec => []LookupsExact
PROOF
  <1>1. IndexInit => IndexInv
    BY IndexInvInductive
  <1>2. IndexInv /\ [IndexNext]_allVars => IndexInv'
    BY IndexInvInductive
  <1>3. IndexInv => LookupsExact
    BY LookupsFollow
  <1> QED BY <1>1, <1>2, <1>3, PTL DEF IndexSpec

-----------------------------------------------------------------------------
(***************************************************************************)
(* The table and the lists.  An entry holds a live occurrence of the       *)
(* e-class that the facade's table has, congruent to its key; and on a     *)
(* clean graph a live occurrence that is not the one of its entry is a     *)
(* twin in another class, which no rebuild has united yet.                 *)
(***************************************************************************)
EntriesSound ==
  /\ DOMAIN entries = DOMAIN hashcons
  /\ \A k \in DOMAIN hashcons :
       /\ entries[k] \in DOMAIN occurrences
       /\ occurrences[entries[k]].live
       /\ occurrences[entries[k]].owner = hashcons[k]
       /\ Canon(Leader, occurrences[entries[k]].term) = Canon(Leader, k)

OwnEntries ==
  \A i \in DOMAIN occurrences :
    occurrences[i].live =>
      LET k == Canon(Leader, occurrences[i].term)
      IN  /\ k \in DOMAIN entries
          /\ Leader[occurrences[entries[k]].owner] = Leader[occurrences[i].owner] => entries[k] = i

EntriesInv ==
  /\ EntriesSound
  /\ pc # "collide" /\ touched = {} => OwnEntries

\* Then the table and the lookups agree.
LEMMA EntriesFollow ==
  ASSUME IndexInv, EntriesInv
  PROVE  EntriesAgree
PROOF
  <1>1. /\ Leader \in [Symbol -> Symbol]
        /\ \A s \in Symbol : Leader[s] \in Symbol /\ Leader[Leader[s]] = Leader[s]
        /\ defined \subseteq Symbol /\ terms \in [Symbol -> SUBSET Term]
        /\ DOMAIN hashcons \subseteq Term
    BY LeaderProps DEF IndexInv, Inv, TypeOK
  <1>2. EntriesSound
    BY DEF EntriesInv
  <1>3. ASSUME pc = "idle", touched = {}, Settled, NEW s \in defined
        PROVE  /\ CandidateRoots(s) =
                    {entries[k] : k \in {h \in DOMAIN hashcons : Leader[hashcons[h]] = Leader[s]}}
               /\ ParentCandidates(s) =
                    {entries[k] : k \in {h \in DOMAIN hashcons : \E u \in Uses(h) : Leader[u] = Leader[s]}}
    <2>1. AllListed /\ OwnEntries
      BY <1>3 DEF IndexInv, PlacesFull, EntriesInv
    <2>2. \A i \in DOMAIN occurrences :
            /\ occurrences[i].owner \in Symbol
            /\ occurrences[i].term \in terms[occurrences[i].owner]
            /\ occurrences[i].term \in Term /\ Uses(occurrences[i].term) \subseteq Symbol
      BY <1>1, TermFields DEF IndexInv, PlacesSound, IsCandidate
    <2>3. ASSUME NEW i \in DOMAIN occurrences, occurrences[i].live
          PROVE  LET k == occurrences[i].term
                 IN  /\ k \in DOMAIN hashcons /\ entries[k] = i
                     /\ Leader[hashcons[k]] = Leader[occurrences[i].owner]
      <3> DEFINE k == occurrences[i].term
      <3>1. /\ Canon(Leader, k) = k /\ k \in DOMAIN hashcons
            /\ Leader[hashcons[k]] = Leader[occurrences[i].owner]
        BY <1>3, <2>2 DEF Settled
      <3>2. occurrences[entries[k]].owner = hashcons[k]
        BY <1>2, <3>1 DEF EntriesSound
      <3> QED BY <2>1, <2>3, <3>1, <3>2 DEF OwnEntries
    <2>4. ASSUME NEW k \in DOMAIN hashcons
          PROVE  /\ IsLivePlace(entries[k])
                 /\ entries[k] \in roots[Leader[hashcons[k]]]
                 /\ \A u \in Uses(k) : entries[k] \in parents[Leader[u]]
      <3>1. /\ entries[k] \in DOMAIN occurrences /\ occurrences[entries[k]].live
            /\ occurrences[entries[k]].owner = hashcons[k]
            /\ Canon(Leader, occurrences[entries[k]].term) = Canon(Leader, k)
        BY <1>2 DEF EntriesSound
      <3>2. ASSUME NEW u \in Uses(k) PROVE entries[k] \in parents[Leader[u]]
        <4>1. PICK d \in Uses(occurrences[entries[k]].term) : Leader[d] = Leader[u]
          BY <1>1, <2>2, <3>1, CanonUses
        <4> QED BY <2>1, <3>1, <4>1 DEF AllListed
      <3> QED BY <2>1, <3>1, <3>2 DEF AllListed, IsLivePlace
    <2>5. CandidateRoots(s) =
            {entries[k] : k \in {h \in DOMAIN hashcons : Leader[hashcons[h]] = Leader[s]}}
      <3>1. ASSUME NEW i \in CandidateRoots(s)
            PROVE  \E k \in DOMAIN hashcons : entries[k] = i /\ Leader[hashcons[k]] = Leader[s]
        <4>1. i \in roots[Leader[s]] /\ i \in DOMAIN occurrences /\ occurrences[i].live
          BY DEF CandidateRoots, IsLivePlace
        <4>2. Leader[occurrences[i].owner] = Leader[s]
          BY <1>1, <4>1 DEF IndexInv, PlacesSound
        <4> QED BY <2>3, <4>1, <4>2
      <3>2. ASSUME NEW k \in DOMAIN hashcons, Leader[hashcons[k]] = Leader[s]
            PROVE  entries[k] \in CandidateRoots(s)
        BY <2>4, <3>2 DEF CandidateRoots
      <3> QED BY <3>1, <3>2
    <2>6. ParentCandidates(s) =
            {entries[k] : k \in {h \in DOMAIN hashcons : \E u \in Uses(h) : Leader[u] = Leader[s]}}
      <3>1. ASSUME NEW i \in ParentCandidates(s)
            PROVE  \E k \in DOMAIN hashcons :
                     entries[k] = i /\ \E u \in Uses(k) : Leader[u] = Leader[s]
        <4>1. i \in parents[Leader[s]] /\ i \in DOMAIN occurrences /\ occurrences[i].live
          BY DEF ParentCandidates, IsLivePlace
        <4>2. \E c \in Uses(occurrences[i].term) : Leader[c] = Leader[s]
          BY <1>1, <4>1 DEF IndexInv, PlacesSound
        <4> QED BY <2>3, <4>1, <4>2
      <3>2. ASSUME NEW k \in DOMAIN hashcons, NEW u \in Uses(k), Leader[u] = Leader[s]
            PROVE  entries[k] \in ParentCandidates(s)
        BY <2>4, <3>2 DEF ParentCandidates
      <3> QED BY <3>1, <3>2
    <2> QED BY <2>5, <2>6
  <1> QED BY <1>2, <1>3 DEF EntriesAgree, EntriesSound, IsLivePlace

\* Every index gets a table of its own.
LEMMA EntriesReindex ==
  ASSUME Inv, Inv', parent' = parent, NEW listed, Reindex(Leader, listed),
         IsIssued(Leader, listed, issued, next, occurrences'),
         hashcons' = Index(Leader, terms')
  PROVE  EntriesSound'
PROOF
  <1> DEFINE L == Leader
             T == terms'
             all == Issue(listed, issued, next)
             C == Candidates(T)
             e == entries'
             occs == occurrences'
             h == hashcons'
  <1>1. Leader' = L
    BY DEF Leader
  <1>2. L \in [Symbol -> Symbol] /\ \A s \in Symbol : L[L[s]] = L[s]
    BY LeaderProps DEF Inv
  <1>3. T \in [Symbol -> SUBSET Term] /\ h = Index(L, T)
    BY DEF Inv, TypeOK
  <1>4. /\ Visits(listed, C) /\ IsIssued(L, listed, issued, next, occs)
        /\ e = EntryPlaces(L, all)
    BY DEF Reindex, Fresh
  <1> HIDE DEF L, T, e, occs, h
  <1>5. /\ DOMAIN e = DOMAIN h
        /\ \A k \in DOMAIN h : /\ e[k] \in DOMAIN all
                                /\ Canon(L, all[e[k]].term) = k
                                /\ all[e[k]].owner = h[k]
    BY <1>2, <1>3, <1>4, TableRight
  <1>6. /\ IsWalk(occs, listed, C) /\ IsWalk(all, listed, C)
        /\ \A i \in 1..Len(listed) : all[i].live
    <2> HIDE DEF C
    <2> QED BY <1>4, IndexShape
  <1>7. \/ occs = all
        \/ \A i \in DOMAIN occs : occs[i].live <=> e[Canon(L, occs[i].term)] = i
    <2> HIDE DEF C
    <2>1. CASE occs = DuplicatesDead(L, all, EntryPlaces(L, all))
      BY <1>4, <2>1, EntriesLive
    <2> QED BY <1>4, <2>1 DEF IsIssued
  <1> HIDE DEF all
  <1>8. /\ DOMAIN occs = DOMAIN all /\ DOMAIN all = 1..Len(listed)
        /\ \A i \in DOMAIN all : /\ occs[i].owner = all[i].owner
                                  /\ occs[i].term = all[i].term
                                  /\ listed[i] \in C /\ occs[i].term = listed[i][2]
    BY <1>6 DEF IsWalk
  <1>9. ASSUME NEW k \in DOMAIN h
        PROVE  /\ e[k] \in DOMAIN occs /\ occs[e[k]].live
               /\ occs[e[k]].owner = h[k]
               /\ Canon(L, occs[e[k]].term) = Canon(L, k)
    <2> DEFINE i == e[k]
    <2>1. i \in DOMAIN all /\ Canon(L, occs[i].term) = k /\ occs[i].owner = h[k]
      BY <1>5, <1>8
    <2>2. occs[i].term \in Term
      BY <1>3, <1>8, <2>1 DEF Candidates
    <2>3. Canon(L, k) = Canon(L, occs[i].term)
      BY <1>2, <2>1, <2>2, CanonAgain
    <2>4. occs[i].live
      BY <1>6, <1>7, <1>8, <2>1
    <2> QED BY <1>8, <2>1, <2>3, <2>4
  <1> QED BY <1>1, <1>5, <1>9 DEF EntriesSound, e, occs, h

\* A body has no two candidates of one key in one e-class.
LEMMA EntriesInit == IndexInit => EntriesInv
PROOF
  <1> SUFFICES ASSUME IndexInit PROVE EntriesInv
    OBVIOUS
  <1> DEFINE L == Leader
             listed == Listed(Candidates(terms))
             all == Issue(listed, 0, 1)
             C == Candidates(terms)
  <1>1. Inv
    BY InitInv DEF IndexInit
  <1>2. /\ L \in [Symbol -> Symbol] /\ \A s \in Symbol : L[s] = s
        /\ terms \in [Symbol -> SUBSET Term]
    BY <1>1, NoUnionsLeader, LeaderProps DEF IndexInit, Init, Inv, TypeOK, Leader, NoUnions
  <1>3. /\ Visits(listed, C) /\ occurrences = all
        /\ entries = EntryPlaces(L, all)
        /\ hashcons = Index(L, terms)
    BY DEF IndexInit, Init, Leader
  <1> HIDE DEF L, listed
  <1>4. /\ DOMAIN entries = DOMAIN hashcons
        /\ \A k \in DOMAIN hashcons : /\ entries[k] \in DOMAIN all
                                       /\ Canon(L, all[entries[k]].term) = k
                                       /\ all[entries[k]].owner = hashcons[k]
    BY <1>2, <1>3, TableRight
  <1>5. /\ IsWalk(all, listed, C) /\ Len(listed) \in Nat
        /\ \A i \in 1..Len(listed) : all[i].live
    <2>1. IsIssued(L, listed, 0, 1, all)
      BY DEF IsIssued
    <2> HIDE DEF C
    <2> QED BY <1>3, <2>1, IndexShape
  <1>6. /\ DOMAIN all = 1..Len(listed)
        /\ \A i \in DOMAIN all :
             /\ all[i].owner = listed[i][1] /\ all[i].term = listed[i][2]
             /\ listed[i] = <<all[i].owner, all[i].term>>
             /\ all[i].owner \in Symbol /\ all[i].term \in Term
             /\ all[i].live
    <2> HIDE DEF all
    <2>1. \A i \in 1..Len(listed) :
            /\ all[i].owner = listed[i][1] /\ all[i].term = listed[i][2] /\ listed[i] \in C
      BY <1>5 DEF IsWalk
    <2>2. \A c \in C : c = <<c[1], c[2]>> /\ c[1] \in Symbol /\ c[2] \in Term
      BY <1>2 DEF Candidates
    <2> QED BY <1>5, <2>1, <2>2 DEF IsWalk
  <1>7. \A i, j \in DOMAIN all : listed[i] = listed[j] => i = j
    <2> HIDE DEF all, C
    <2>1. DOMAIN listed = 1..Len(listed)
      BY <1>3 DEF Visits
    <2> QED BY <1>3, <1>6, <2>1 DEF Visits
  <1>8. \A t \in Term : Canon(L, t) = t
    <2> TAKE t \in Term
    <2>1. t.args = [i \in 1..Arity[t.op] |-> L[t.args[i]]]
      BY <1>2, TermFields
    <2> QED BY <2>1, TermFields DEF Canon
  <1> HIDE DEF all, C
  <1>9. EntriesSound
    <2>1. \A k \in DOMAIN hashcons : k \in Term
      BY <1>1 DEF Inv, TypeOK
    <2> QED BY <1>3, <1>4, <1>6, <1>8, <2>1 DEF EntriesSound, L
  <1>10. OwnEntries
    <2> SUFFICES ASSUME NEW i \in DOMAIN all
                 PROVE  LET k == Canon(L, all[i].term)
                        IN  /\ k \in DOMAIN entries
                            /\ L[all[entries[k]].owner] = L[all[i].owner] => entries[k] = i
      BY <1>3 DEF OwnEntries, L
    <2> DEFINE k == all[i].term
    <2>1. Canon(L, k) = k
      BY <1>6, <1>8
    <2>2. k \in DOMAIN entries
      <3>1. listed[i] \in C
        BY <1>5, <1>6 DEF IsWalk
      <3>2. all[i].owner \in Symbol /\ k \in terms[all[i].owner]
        BY <1>6, <3>1 DEF C, Candidates
      <3> QED BY <1>2, <1>3, <1>4, <2>1, <3>2, IndexEntries
    <2>3. entries[k] \in DOMAIN all /\ all[entries[k]].term = k
      BY <1>4, <1>6, <1>8, <2>2
    <2>4. ASSUME L[all[entries[k]].owner] = L[all[i].owner] PROVE entries[k] = i
      <3>1. all[entries[k]].owner = all[i].owner
        BY <1>2, <1>6, <2>3, <2>4
      <3>2. listed[entries[k]] = listed[i]
        BY <1>6, <2>3, <3>1
      <3> QED BY <1>7, <2>3, <3>2
    <2> QED BY <2>1, <2>2, <2>4
  <1> QED BY <1>9, <1>10 DEF EntriesInv

\* Unions leave keys and entries congruent.
LEMMA EntriesUnion ==
  ASSUME Inv, PlacesSound, EntriesInv, IndexUnion
  PROVE  EntriesInv'
PROOF
  <1>1. CASE ClientUnion
    <2>1. UNCHANGED <<parent, hashcons, touched, entries, occurrences>> /\ pc = "idle"
      BY <1>1 DEF ClientUnion, UnionValueTuples, ir, IndexUnion, indexVars
    <2>2. Leader' = Leader
      BY <2>1 DEF Leader
    <2> QED BY <2>1, <2>2 DEF EntriesInv, EntriesSound, OwnEntries
  <1>2. ASSUME NEW p \in work, UnionLeaderSymbols(p)
        PROVE  EntriesInv'
    <2>1. /\ UNCHANGED <<hashcons, entries, occurrences>>
          /\ pc' # "collide" => pc # "collide"
      BY <1>2, UnionMoves DEF IndexUnion, indexVars
    <2>2. CASE Leader[p[1]] = Leader[p[2]]
      <3>1. Leader' = Leader /\ touched' = touched
        BY <1>2, <2>2 DEF UnionLeaderSymbols, Leader
      <3> QED BY <2>1, <3>1 DEF EntriesInv, EntriesSound, OwnEntries
    <2>3. CASE Leader[p[1]] # Leader[p[2]]
      <3>1. touched' # {}
        BY <1>2, <2>3 DEF UnionLeaderSymbols
      <3>2. /\ Leader \in [Symbol -> Symbol] /\ Leader' \in [Symbol -> Symbol]
            /\ \A s \in Symbol : Leader'[Leader[s]] = Leader'[s]
        BY <1>2, <2>3, UnionMoves, LeaderProps DEF IsMerge, Inv
      <3>3. ASSUME NEW t \in Term, NEW u \in Term, Canon(Leader, t) = Canon(Leader, u)
            PROVE  Canon(Leader', t) = Canon(Leader', u)
        <4>1. /\ Canon(Leader', Canon(Leader, t)) = Canon(Leader', t)
              /\ Canon(Leader', Canon(Leader, u)) = Canon(Leader', u)
          BY <3>2, CanonAgain
        <4> QED BY <3>3, <4>1
      <3>4. /\ \A k \in DOMAIN hashcons : k \in Term
            /\ \A i \in DOMAIN occurrences : occurrences[i].term \in Term
        BY DEF Inv, TypeOK, PlacesSound, IsCandidate
      <3>5. EntriesSound'
        BY <2>1, <3>3, <3>4 DEF EntriesInv, EntriesSound
      <3> QED BY <3>1, <3>5 DEF EntriesInv
    <2> QED BY <2>2, <2>3
  <1> QED BY <1>1, <1>2 DEF IndexUnion

\* A new key is entered with the occurrence of the new e-class.
LEMMA EntriesIntern ==
  ASSUME Inv, HandleInv, EntriesInv, NEW t \in Term, NEW s \in Symbol, IndexIntern(t, s)
  PROVE  EntriesInv'
PROOF
  <1> DEFINE key == Canon(Leader, t)
             new == Issue(<< <<s, key>> >>, issued, next)[1]
             N == Len(occurrences)
             place == N + 1
  <1>1. /\ N \in Nat /\ DOMAIN occurrences = 1..N
        /\ DOMAIN occurrences' = 1..place
        /\ \A i \in 1..N : occurrences'[i] = occurrences[i]
        /\ occurrences'[place] = new
    BY InternAppends
  <1>2. new.owner = s /\ new.term = key /\ new.live
    BY DEF Issue
  <1>3. /\ UNCHANGED <<parent, touched, pc>> /\ key \notin DOMAIN hashcons
        /\ hashcons' = [k \in DOMAIN hashcons \cup {key} |->
                          IF k = key THEN s ELSE hashcons[k]]
        /\ entries' = [h \in DOMAIN entries \cup {key} |->
                         IF h \in DOMAIN entries THEN entries[h] ELSE place]
    BY DEF IndexIntern, Intern, Entered
  <1>4. /\ Leader' = Leader /\ Leader \in [Symbol -> Symbol]
        /\ \A x \in Symbol : Leader[Leader[x]] = Leader[x]
    BY <1>3, LeaderProps DEF Inv, Leader
  <1>5. Canon(Leader, key) = key
    BY <1>4, CanonAgain
  <1> HIDE DEF key, new, N
  <1>6. DOMAIN entries = DOMAIN hashcons
    BY DEF EntriesInv, EntriesSound
  <1>7. /\ DOMAIN entries' = DOMAIN hashcons \cup {key} /\ DOMAIN hashcons' = DOMAIN entries'
        /\ entries'[key] = place /\ hashcons'[key] = s
        /\ \A k \in DOMAIN hashcons : entries'[k] = entries[k] /\ hashcons'[k] = hashcons[k]
    BY <1>3, <1>6
  <1>8. \A i \in 1..N : i \in 1..place /\ i # place
    BY <1>1
  <1>9. place \in 1..place
    BY <1>1
  <1>10. \A i \in 1..place : i = place \/ i \in 1..N
    BY <1>1
  <1> HIDE DEF place
  <1>11. EntriesSound'
    <2>1. ASSUME NEW k \in DOMAIN hashcons'
          PROVE  /\ entries'[k] \in 1..place
                 /\ occurrences'[entries'[k]].live
                 /\ occurrences'[entries'[k]].owner = hashcons'[k]
                 /\ Canon(Leader, occurrences'[entries'[k]].term) = Canon(Leader, k)
      <3>1. CASE k = key
        BY <1>1, <1>2, <1>5, <1>7, <1>9, <3>1
      <3>2. CASE k \in DOMAIN hashcons
        <4>1. /\ entries[k] \in 1..N /\ occurrences[entries[k]].live
              /\ occurrences[entries[k]].owner = hashcons[k]
              /\ Canon(Leader, occurrences[entries[k]].term) = Canon(Leader, k)
          BY <1>1, <3>2 DEF EntriesInv, EntriesSound
        <4> QED BY <1>1, <1>7, <1>8, <3>2, <4>1
      <3> QED BY <1>7, <2>1, <3>1, <3>2
    <2> QED BY <1>1, <1>4, <1>7, <2>1 DEF EntriesSound
  <1>12. ASSUME OwnEntries PROVE OwnEntries'
    <2>1. ASSUME NEW i \in 1..place, occurrences'[i].live
          PROVE  LET k == Canon(Leader, occurrences'[i].term)
                 IN  /\ k \in DOMAIN entries'
                     /\ Leader[occurrences'[entries'[k]].owner] = Leader[occurrences'[i].owner]
                          => entries'[k] = i
      <3>1. CASE i = place
        BY <1>1, <1>2, <1>5, <1>7, <3>1
      <3>2. CASE i \in 1..N
        <4> DEFINE k == Canon(Leader, occurrences[i].term)
        <4>1. /\ k \in DOMAIN hashcons
              /\ Leader[occurrences[entries[k]].owner] = Leader[occurrences[i].owner]
                   => entries[k] = i
          BY <1>1, <1>6, <1>12, <2>1, <3>2 DEF OwnEntries
        <4>2. entries[k] \in 1..N
          BY <1>1, <4>1 DEF EntriesInv, EntriesSound
        <4>3. occurrences'[i] = occurrences[i] /\ occurrences'[entries[k]] = occurrences[entries[k]]
          BY <1>1, <3>2, <4>2
        <4> QED BY <1>7, <4>1, <4>3
      <3> QED BY <1>10, <2>1, <3>1, <3>2
    <2> QED BY <1>1, <1>4, <2>1 DEF OwnEntries
  <1> QED BY <1>3, <1>11, <1>12 DEF EntriesInv

\* Every step keeps the table right.
LEMMA EntriesNext ==
  ASSUME IndexInv, Inv', EntriesInv, [IndexNext]_allVars
  PROVE  EntriesInv'
PROOF
  <1> USE DEF IndexInv
  <1>1. CASE IndexUnion
    BY <1>1, EntriesUnion
  <1>2. CASE \E t \in Term, s \in Symbol : IndexIntern(t, s)
    BY <1>2, EntriesIntern
  <1>3. CASE IndexRound
    <2> DEFINE listed == Listed(Candidates(terms'))
    <2>1. /\ parent' = parent /\ pc' = "collide" /\ hashcons' = Index(Leader, terms')
          /\ Reindex(Leader, listed) /\ occurrences' = Fresh(listed)
      BY <1>3 DEF IndexRound, RebuildRound
    <2> HIDE DEF listed
    <2>2. IsIssued(Leader, listed, issued, next, occurrences')
      BY <2>1 DEF IsIssued, Fresh
    <2> QED BY <2>1, <2>2, EntriesReindex DEF EntriesInv
  <1>4. CASE IndexFinish
    <2> DEFINE listed == Listed(Candidates(terms'))
               L == Leader
               all == Issue(listed, issued, next)
               C == Candidates(terms')
               occs == occurrences'
               e == entries'
    <2>1. /\ parent' = parent /\ hashcons' = Index(L, terms')
          /\ Reindex(L, listed)
          /\ e = EntryPlaces(L, all) /\ occs = DuplicatesDead(L, all, e)
          /\ Visits(listed, C)
      BY <1>4 DEF IndexFinish, RebuildFinish, Fresh, Reindex
    <2> HIDE DEF listed
    <2>2. IsIssued(L, listed, issued, next, occs)
      BY <2>1 DEF IsIssued
    <2>3. EntriesSound' /\ PlacesSound'
      BY <2>1, <2>2, EntriesReindex, ReindexPlaces
    <2>4. Leader' = L
      BY <2>1 DEF Leader
    <2>5. \A i \in DOMAIN occs : occs[i].live <=> e[Canon(L, occs[i].term)] = i
      <3> HIDE DEF C, L, occs, e
      <3>1. occs = DuplicatesDead(L, Issue(listed, issued, next), EntryPlaces(L, Issue(listed, issued, next)))
        BY <2>1
      <3> QED BY <2>1, <3>1, EntriesLive
    <2>6. \A i \in DOMAIN occs : Canon(L, occs[i].term) \in DOMAIN e
      <3>1. \A i \in DOMAIN occs :
              occs[i].owner \in Symbol /\ occs[i].term \in terms'[occs[i].owner]
        BY <2>3 DEF PlacesSound, IsCandidate
      <3>2. L \in [Symbol -> Symbol] /\ terms' \in [Symbol -> SUBSET Term]
        BY LeaderProps DEF Inv, TypeOK
      <3>3. DOMAIN e = DOMAIN Index(L, terms')
        BY <2>1, <2>3 DEF EntriesSound
      <3> HIDE DEF L, occs, e
      <3> QED BY <3>1, <3>2, <3>3, IndexEntries
    <2>7. OwnEntries'
      BY <2>4, <2>5, <2>6 DEF OwnEntries
    <2> QED BY <2>3, <2>7 DEF EntriesInv
  <1>5. CASE Hold \/ UNCHANGED allVars
    <2>1. UNCHANGED <<parent, touched, pc, hashcons, occurrences, entries>>
      BY <1>5 DEF Hold, allVars, vars, indexVars
    <2>2. Leader' = Leader
      BY <2>1 DEF Leader
    <2> QED BY <2>1, <2>2 DEF EntriesInv, EntriesSound, OwnEntries
  <1> QED BY <1>1, <1>2, <1>3, <1>4, <1>5 DEF IndexNext

(***************************************************************************)
(* For every body, every block order and any sequence of calls: the        *)
(* operation of an entry is live, in the e-class that intern hands out,    *)
(* and congruent to the key, also between a union and the rebuild; and on  *)
(* a settled clean graph lookups by e-class and by operand find the        *)
(* occurrences of the table and no others.                                 *)
(***************************************************************************)
THEOREM EntriesAlwaysAgree == IndexSpec => []EntriesAgree
PROOF
  <1>1. IndexInit => IndexInv /\ EntriesInv
    BY IndexInvInductive, EntriesInit
  <1>2. IndexInv /\ EntriesInv /\ [IndexNext]_allVars => (IndexInv /\ EntriesInv)'
    BY IndexInvInductive, EntriesNext DEF IndexInv
  <1>3. IndexInv /\ EntriesInv => EntriesAgree
    BY EntriesFollow
  <1> QED BY <1>1, <1>2, <1>3, PTL DEF IndexSpec
=============================================================================
