------------------------------ MODULE CoinsProofs ------------------------------
(***************************************************************************)
(* What the wallet of a UTXO platform spends, for all amounts, rates and   *)
(* numbers of coins.  The sums are folds of the community modules, so that *)
(* what they add up to is shown by way of a smallest counterexample.       *)
(***************************************************************************)
EXTENDS Coins, FiniteSetTheorems, SequenceTheorems, WellFoundedInduction, TLAPS

-----------------------------------------------------------------------------
\* Finite sums

\* A family of subsets of a finite set has a minimal member.
LEMMA MinimalMember ==
  ASSUME NEW S, IsFiniteSet(S), NEW F, F \subseteq SUBSET S, F # {}
  PROVE  \E m \in F : \A t \in F : t \subseteq m => t = m
<1>1. IsWellFoundedOn(StrictSubsetOrdering(S), SUBSET S)
  BY FS_StrictSubsetOrderingWellFounded, FS_FiniteSubsetsOfFinite
<1>2. PICK m \in F : \A t \in F : ~(<<t, m>> \in StrictSubsetOrdering(S))
  BY <1>1, WFMin
<1> QED BY <1>2 DEF StrictSubsetOrdering

\* Induction up to n.
LEMMA UpTo ==
  ASSUME NEW n \in Nat, NEW G, 0 \in G, \A k \in 0 .. n - 1 : k \in G => k + 1 \in G
  PROVE  \A k \in 0 .. n : k \in G
<1> SUFFICES ASSUME NEW b \in 0 .. n, b \notin G PROVE FALSE OBVIOUS
<1> DEFINE F == {1 .. k : k \in {i \in 0 .. n : i \notin G}}
           D == 1 .. n
<1>1. F \subseteq SUBSET D /\ F # {} OBVIOUS
<1>2. IsFiniteSet(D) BY FS_Interval
<1>3. PICK m \in F : \A t \in F : t \subseteq m => t = m
  <2> HIDE DEF F, D
  <2> QED BY <1>1, <1>2, MinimalMember
<1>4. PICK k \in 0 .. n : k \notin G /\ m = 1 .. k OBVIOUS
<1>5. k # 0 /\ k - 1 \in 0 .. n - 1 /\ k - 1 \in 0 .. n /\ (k - 1) + 1 = k BY <1>4
<1>6. k - 1 \notin G BY <1>4, <1>5
<1>7. 1 .. k - 1 \in F BY <1>5, <1>6
<1>8. 1 .. k - 1 \subseteq m /\ k \in m /\ k \notin 1 .. k - 1 BY <1>4, <1>5
<1> QED BY <1>3, <1>7, <1>8

\* The equation of the sum over s, in the table of all sums.
SumStep(f, s, sums) == IF s = {} THEN 0 ELSE LET x == CHOOSE x \in s : TRUE IN f[x] + sums[s \ {x}]

IsTable(f, S, sums) == sums = [s \in SUBSET S |-> SumStep(f, s, sums)]

LEMMA SumIsEntry ==
  ASSUME NEW f, NEW S
  PROVE  SumFunctionOnSet(f, S) = (CHOOSE sums : IsTable(f, S, sums))[S]
BY DEF IsTable, SumFunctionOnSet, FoldFunctionOnSet, MapThenFoldSet, SumStep

LEMMA TableIsUnique ==
  ASSUME NEW f, NEW S, IsFiniteSet(S),
         NEW g, IsTable(f, S, g), NEW h, IsTable(f, S, h),
         NEW s \in SUBSET S
  PROVE  g[s] = h[s]
<1> SUFFICES ASSUME g[s] # h[s] PROVE FALSE OBVIOUS
<1> DEFINE F == {t \in SUBSET S : g[t] # h[t]}
<1>1. PICK m \in F : \A t \in F : t \subseteq m => t = m
  <2>1. F \subseteq SUBSET S /\ F # {} OBVIOUS
  <2> HIDE DEF F
  <2> QED BY <2>1, MinimalMember
<1>2. g[m] = SumStep(f, m, g) /\ h[m] = SumStep(f, m, h) /\ m \in SUBSET S /\ g[m] # h[m] BY DEF IsTable
<1>3. m # {} BY <1>2 DEF SumStep
<1> DEFINE x == CHOOSE x \in m : TRUE
<1>4. x \in m BY <1>3
<1>5. m \ {x} \in SUBSET S /\ m \ {x} # m BY <1>2, <1>4
<1>6. g[m \ {x}] = h[m \ {x}] BY <1>1, <1>5
<1> QED BY <1>2, <1>3, <1>6 DEF SumStep

\* A sum is one addend and the sum of the others.
LEMMA SumUnfolds ==
  ASSUME NEW f, NEW S, IsFiniteSet(S)
  PROVE  SumFunctionOnSet(f, S) = IF S = {} THEN 0
           ELSE f[CHOOSE x \in S : TRUE] + SumFunctionOnSet(f, S \ {CHOOSE x \in S : TRUE})
<1> DEFINE Sum(s) == SumFunctionOnSet(f, s)
           Rest(s) == s \ {CHOOSE x \in s : TRUE}
           Value(s) == IF s = {} THEN 0 ELSE f[CHOOSE x \in s : TRUE] + Sum(Rest(s))
           F == {s \in SUBSET S : Sum(s) # Value(s)}
<1> SUFFICES ASSUME Sum(S) # Value(S) PROVE FALSE OBVIOUS
<1>1. PICK m \in F : \A t \in F : t \subseteq m => t = m
  <2>1. F \subseteq SUBSET S /\ F # {} OBVIOUS
  <2> HIDE DEF F
  <2> QED BY <2>1, MinimalMember
<1>2. m \in SUBSET S /\ Sum(m) # Value(m) OBVIOUS
<1>3. IsFiniteSet(m) BY <1>2, FS_Subset
<1>4. \A s \in SUBSET m : s # m => Sum(s) = Value(s) BY <1>1, <1>2
<1>5. \A s : s # {} => Rest(s) \in SUBSET s /\ Rest(s) # s OBVIOUS
<1> HIDE DEF F
<1> DEFINE g == [s \in SUBSET m |-> IF s = m THEN Value(m) ELSE Sum(s)]
<1>6. IsTable(f, m, g)
  <2> SUFFICES ASSUME NEW s \in SUBSET m PROVE g[s] = SumStep(f, s, g)
    <3> HIDE DEF Value, Sum
    <3> QED BY DEF IsTable
  <2>1. g[s] = Value(s)
    <3> HIDE DEF Value, Sum
    <3> QED BY <1>4
  <2>2. s # {} => g[Rest(s)] = Sum(Rest(s))
    <3> HIDE DEF Value, Sum
    <3>1. s # {} => Rest(s) \in SUBSET m /\ Rest(s) # m BY <1>5
    <3> HIDE DEF Rest
    <3> QED BY <3>1
  <2>3. SumStep(f, s, g) = IF s = {} THEN 0 ELSE f[CHOOSE x \in s : TRUE] + g[Rest(s)]
    <3> HIDE DEF g
    <3> QED BY DEF SumStep
  <2> HIDE DEF g, Sum, Rest
  <2> QED BY <2>1, <2>2, <2>3
<1> DEFINE h == CHOOSE h : IsTable(f, m, h)
<1>7. IsTable(f, m, h)
  <2> HIDE DEF g
  <2> QED BY <1>6
<1>8. Sum(m) = h[m] BY SumIsEntry
<1>9. h[m] = g[m]
  <2> HIDE DEF g, h
  <2> QED BY <1>3, <1>6, <1>7, TableIsUnique
<1>10. g[m] = Value(m)
  <2> HIDE DEF Value, Sum
  <2> QED OBVIOUS
<1> HIDE DEF g, h, Value, Sum
<1> QED BY <1>2, <1>8, <1>9, <1>10

\* Sums are integers, and do not depend on the order of the addends.
LEMMA SumOfIntegers ==
  ASSUME NEW S, IsFiniteSet(S), NEW f, \A x \in S : f[x] \in Int
  PROVE  SumFunctionOnSet(f, S) \in Int
<1> DEFINE Sum(s) == SumFunctionOnSet(f, s)
           F == {s \in SUBSET S : Sum(s) \notin Int}
<1> SUFFICES ASSUME Sum(S) \notin Int PROVE FALSE OBVIOUS
<1>1. PICK m \in F : \A t \in F : t \subseteq m => t = m
  <2>1. F \subseteq SUBSET S /\ F # {} OBVIOUS
  <2> HIDE DEF F
  <2> QED BY <2>1, MinimalMember
<1>2. m \in SUBSET S /\ IsFiniteSet(m) /\ Sum(m) \notin Int BY FS_Subset
<1> DEFINE x == CHOOSE x \in m : TRUE
<1>3. Sum(m) = IF m = {} THEN 0 ELSE f[x] + Sum(m \ {x}) BY <1>2, SumUnfolds
<1>4. m # {} BY <1>2, <1>3
<1>5. x \in m /\ f[x] \in Int /\ m \ {x} \in SUBSET S /\ m \ {x} # m BY <1>2, <1>4
<1>6. Sum(m \ {x}) \in Int BY <1>1, <1>5
<1> HIDE DEF Sum, x
<1> QED BY <1>2, <1>3, <1>4, <1>5, <1>6

LEMMA SumRemoves ==
  ASSUME NEW S, IsFiniteSet(S), NEW f, \A x \in S : f[x] \in Int, NEW x \in S
  PROVE  SumFunctionOnSet(f, S) = f[x] + SumFunctionOnSet(f, S \ {x})
<1> DEFINE Sum(s) == SumFunctionOnSet(f, s)
           F == {s \in SUBSET S : \E y \in s : Sum(s) # f[y] + Sum(s \ {y})}
<1> SUFFICES ASSUME Sum(S) # f[x] + Sum(S \ {x}) PROVE FALSE OBVIOUS
<1>1. PICK m \in F : \A t \in F : t \subseteq m => t = m
  <2>1. F \subseteq SUBSET S /\ F # {} OBVIOUS
  <2> HIDE DEF F
  <2> QED BY <2>1, MinimalMember
<1>2. m \in SUBSET S /\ IsFiniteSet(m) BY FS_Subset
<1>3. PICK y \in m : Sum(m) # f[y] + Sum(m \ {y}) OBVIOUS
<1> DEFINE c == CHOOSE c \in m : TRUE
           a == m \ {c}
           b == m \ {y}
           d == (m \ {c}) \ {y}
<1>4. c \in m /\ Sum(m) = f[c] + Sum(a) BY <1>2, <1>3, SumUnfolds
<1>5. c # y BY <1>3, <1>4
<1>6. /\ a \in SUBSET S /\ a \subseteq m /\ a # m /\ y \in a
      /\ b \in SUBSET S /\ b \subseteq m /\ b # m /\ c \in b
      /\ d = b \ {c} /\ d \in SUBSET S
  BY <1>2, <1>4, <1>5
<1>7. Sum(a) = f[y] + Sum(d) BY <1>1, <1>6
<1>8. Sum(b) = f[c] + Sum(d)
  <2> HIDE DEF Sum, d
  <2> QED BY <1>1, <1>6
<1>9. f[c] \in Int /\ f[y] \in Int BY <1>2, <1>4
<1>10. IsFiniteSet(d) BY <1>6, FS_Subset
<1>11. Sum(d) \in Int BY <1>6, <1>10, SumOfIntegers
<1> HIDE DEF Sum, a, b, d, c
<1>12. Sum(m) # f[y] + Sum(b) BY <1>3 DEF b
<1> QED BY <1>4, <1>7, <1>8, <1>9, <1>11, <1>12

LEMMA SumsAgree ==
  ASSUME NEW S, IsFiniteSet(S), NEW f, NEW g, \A x \in S : f[x] = g[x]
  PROVE  SumFunctionOnSet(f, S) = SumFunctionOnSet(g, S)
<1> DEFINE SumF(s) == SumFunctionOnSet(f, s)
           SumG(s) == SumFunctionOnSet(g, s)
           F == {s \in SUBSET S : SumF(s) # SumG(s)}
<1> SUFFICES ASSUME SumF(S) # SumG(S) PROVE FALSE OBVIOUS
<1>1. PICK m \in F : \A t \in F : t \subseteq m => t = m
  <2>1. F \subseteq SUBSET S /\ F # {} OBVIOUS
  <2> HIDE DEF F
  <2> QED BY <2>1, MinimalMember
<1>2. m \in SUBSET S /\ IsFiniteSet(m) /\ SumF(m) # SumG(m) BY FS_Subset
<1> DEFINE x == CHOOSE x \in m : TRUE
<1>3. /\ SumF(m) = IF m = {} THEN 0 ELSE f[x] + SumF(m \ {x})
      /\ SumG(m) = IF m = {} THEN 0 ELSE g[x] + SumG(m \ {x})
  BY <1>2, SumUnfolds
<1>4. m # {} BY <1>2, <1>3
<1>5. x \in m /\ f[x] = g[x] /\ m \ {x} \in SUBSET S /\ m \ {x} # m BY <1>2, <1>4
<1>6. SumF(m \ {x}) = SumG(m \ {x}) BY <1>1, <1>5
<1> HIDE DEF SumF, SumG, x
<1> QED BY <1>2, <1>3, <1>4, <1>5, <1>6

\* The sum of the first k numbers of a sequence.
SumOfFirst(s, k) == SumFunctionOnSet(s, 1 .. k)

LEMMA SumOfFirstGrows ==
  ASSUME NEW s, NEW k \in Nat, \A i \in 1 .. k + 1 : s[i] \in Int
  PROVE  SumOfFirst(s, 0) = 0 /\ SumOfFirst(s, k) \in Int /\ SumOfFirst(s, k + 1) = SumOfFirst(s, k) + s[k + 1]
<1> DEFINE D == 1 .. k
           E == 1 .. k + 1
<1>1. IsFiniteSet(D) /\ IsFiniteSet(E) BY FS_Interval
<1>2. k + 1 \in E /\ E \ {k + 1} = D /\ D \subseteq E OBVIOUS
<1>3. SumOfFirst(s, 0) = 0
  <2>1. 1 .. 0 = {} OBVIOUS
  <2> QED BY <2>1, SumUnfolds, FS_EmptySet DEF SumOfFirst
<1> HIDE DEF D, E
<1>4. SumFunctionOnSet(s, D) \in Int BY <1>1, <1>2, SumOfIntegers DEF E
<1>5. SumFunctionOnSet(s, E) = s[k + 1] + SumFunctionOnSet(s, D)
  BY <1>1, <1>2, SumRemoves DEF E
<1>6. s[k + 1] \in Int BY <1>2 DEF E
<1> QED BY <1>3, <1>4, <1>5, <1>6 DEF SumOfFirst, D, E

LEMMA TotalIsSumOfFirst ==
  ASSUME NEW s \in Seq(Int)
  PROVE  Total(s) = SumOfFirst(s, Len(s)) /\ Total(s) \in Int
<1> DEFINE D == 1 .. Len(s)
<1>1. DOMAIN s = D /\ IsFiniteSet(D) BY FS_Interval
<1>2. \A i \in D : s[i] \in Int OBVIOUS
<1> HIDE DEF D
<1>3. SumFunctionOnSet(s, D) \in Int BY <1>1, <1>2, SumOfIntegers
<1> QED BY <1>1, <1>3 DEF Total, SumFunction, SumOfFirst, D

LEMMA SumOfFirstAgrees ==
  ASSUME NEW s, NEW t, NEW k \in Nat, \A i \in 1 .. k : s[i] = t[i]
  PROVE  SumOfFirst(s, k) = SumOfFirst(t, k)
<1> DEFINE D == 1 .. k
<1>1. IsFiniteSet(D) /\ \A i \in D : s[i] = t[i] BY FS_Interval
<1> HIDE DEF D
<1>2. SumFunctionOnSet(s, D) = SumFunctionOnSet(t, D) BY <1>1, SumsAgree
<1> QED BY <1>2 DEF SumOfFirst, D

LEMMA TotalOfConcat ==
  ASSUME NEW s \in Seq(Int), NEW t \in Seq(Int)
  PROVE  Total(s \o t) = Total(s) + Total(t)
<1> DEFINE st == s \o t
           n == Len(s)
           m == Len(t)
           G == {k \in 0 .. m : SumOfFirst(st, n + k) = SumOfFirst(s, n) + SumOfFirst(t, k)}
<1>1. /\ n \in Nat /\ m \in Nat /\ st \in Seq(Int) /\ Len(st) = n + m
      /\ \A i \in 1 .. n : st[i] = s[i] /\ s[i] \in Int
      /\ \A i \in 1 .. m : st[n + i] = t[i] /\ t[i] \in Int
      /\ \A i \in 1 .. n + m : st[i] \in Int
  OBVIOUS
<1> HIDE DEF st, n, m
<1>2. SumOfFirst(st, n) = SumOfFirst(s, n) BY <1>1, SumOfFirstAgrees
<1>3. SumOfFirst(s, n) \in Int BY <1>1, TotalIsSumOfFirst DEF n
<1>4. SumOfFirst(t, 0) = 0
  <2>1. 1 .. 0 = {} OBVIOUS
  <2> QED BY <2>1, SumUnfolds, FS_EmptySet DEF SumOfFirst
<1>5. 0 \in G BY <1>1, <1>2, <1>3, <1>4
<1>6. ASSUME NEW k \in 0 .. m - 1, k \in G PROVE k + 1 \in G
  <2>1. k \in Nat /\ n + k \in Nat /\ k + 1 \in 0 .. m /\ (n + k) + 1 = n + (k + 1) /\ k + 1 \in 1 .. m BY <1>1
  <2>2. \A i \in 1 .. k + 1 : t[i] \in Int BY <1>1
  <2>3. \A i \in 1 .. (n + k) + 1 : st[i] \in Int BY <1>1
  <2>4. SumOfFirst(t, k) \in Int /\ SumOfFirst(t, k + 1) = SumOfFirst(t, k) + t[k + 1] BY <2>1, <2>2, SumOfFirstGrows
  <2>5. SumOfFirst(st, (n + k) + 1) = SumOfFirst(st, n + k) + st[(n + k) + 1] BY <2>1, <2>3, SumOfFirstGrows
  <2>6. st[n + (k + 1)] = t[k + 1] /\ t[k + 1] \in Int BY <1>1, <2>1
  <2>7. SumOfFirst(st, n + k) = SumOfFirst(s, n) + SumOfFirst(t, k) BY <1>6
  <2> QED BY <1>3, <2>1, <2>4, <2>5, <2>6, <2>7
<1>7. m \in G
  <2> HIDE DEF G
  <2>1. \A k \in 0 .. m : k \in G BY <1>1, <1>5, <1>6, UpTo
  <2> QED BY <1>1, <2>1
<1>8. Total(st) = SumOfFirst(st, n + m) /\ Total(s) = SumOfFirst(s, n) /\ Total(t) = SumOfFirst(t, m)
  BY <1>1, TotalIsSumOfFirst DEF n, m
<1> QED BY <1>7, <1>8 DEF st

LEMMA TotalOfNone == Total(<<>>) = 0
<1>1. <<>> \in Seq(Int) /\ Len(<<>>) = 0 /\ 1 .. 0 = {} OBVIOUS
<1>2. SumOfFirst(<<>>, 0) = 0 BY <1>1, SumUnfolds, FS_EmptySet DEF SumOfFirst
<1> QED BY <1>1, <1>2, TotalIsSumOfFirst

LEMMA TotalOfOne ==
  ASSUME NEW a \in Int
  PROVE  Total(<<a>>) = a
<1>1. <<a>> \in Seq(Int) /\ Len(<<a>>) = 1 OBVIOUS
<1>2. \A i \in 1 .. 0 + 1 : <<a>>[i] \in Int OBVIOUS
<1>3. SumOfFirst(<<a>>, 0) = 0 /\ SumOfFirst(<<a>>, 0 + 1) = SumOfFirst(<<a>>, 0) + <<a>>[0 + 1] BY <1>2, SumOfFirstGrows
<1>4. SumOfFirst(<<a>>, 1) = a BY <1>3
<1> QED BY <1>1, <1>4, TotalIsSumOfFirst

\* A sequence is worth its first k numbers and the others.
LEMMA TotalSplits ==
  ASSUME NEW A \in SUBSET Int, NEW s \in Seq(A), NEW k \in 0 .. Len(s)
  PROVE  /\ SubSeq(s, 1, k) \in Seq(A) /\ Len(SubSeq(s, 1, k)) = k
         /\ SubSeq(s, k + 1, Len(s)) \in Seq(A)
         /\ Total(SubSeq(s, 1, k)) + Total(SubSeq(s, k + 1, Len(s))) = Total(s)
         /\ Total(SubSeq(s, 1, k)) \in Int /\ Total(SubSeq(s, k + 1, Len(s))) \in Int
<1> DEFINE n == Len(s)
           a == SubSeq(s, 1, k)
           b == SubSeq(s, k + 1, n)
<1>1. n \in Nat /\ k \in Nat /\ k <= n OBVIOUS
<1>2. a \in Seq(A) /\ Len(a) = k /\ \A i \in 1 .. k : a[i] = s[i] BY <1>1
<1>3. b \in Seq(A) /\ Len(b) = n - k /\ \A i \in 1 .. n - k : b[i] = s[i + k] BY <1>1
<1> HIDE DEF a, b
<1>4. a \in Seq(Int) /\ b \in Seq(Int) BY <1>2, <1>3, SeqMonotonic
<1>5. a \o b = s
  <2>1. a \o b \in Seq(A) /\ Len(a \o b) = n BY <1>1, <1>2, <1>3
  <2>2. ASSUME NEW i \in 1 .. n PROVE (a \o b)[i] = s[i]
    <3>1. CASE i <= k BY <1>1, <1>2, <1>3, <3>1
    <3>2. CASE ~(i <= k)
      <4>1. i - k \in 1 .. n - k /\ (i - k) + k = i BY <1>1, <3>2
      <4>2. (a \o b)[i] = b[i - k] BY <1>1, <1>2, <1>3, <3>2
      <4> QED BY <1>3, <4>1, <4>2
    <3> QED BY <3>1, <3>2
  <2> HIDE DEF n
  <2>3. a \o b \in Seq(A) /\ s \in Seq(A) /\ Len(a \o b) = Len(s) BY <2>1 DEF n
  <2>4. \A i \in 1 .. Len(a \o b) : (a \o b)[i] = s[i] BY <2>1, <2>2
  <2> QED BY <2>3, <2>4, SeqEqual
<1>6. Total(a) + Total(b) = Total(s) BY <1>4, <1>5, TotalOfConcat
<1>7. Total(a) \in Int /\ Total(b) \in Int BY <1>4, TotalIsSumOfFirst
<1> QED BY <1>2, <1>3, <1>6, <1>7 DEF a, b

LEMMA TotalIsNat ==
  ASSUME NEW s \in Seq(Nat)
  PROVE  Total(s) \in Nat
<1> DEFINE n == Len(s)
           G == {k \in 0 .. n : SumOfFirst(s, k) >= 0}
<1>1. n \in Nat /\ s \in Seq(Int) /\ \A i \in 1 .. n : s[i] \in Nat OBVIOUS
<1> HIDE DEF n
<1>2. 0 \in G
  <2>1. 1 .. 0 = {} OBVIOUS
  <2>2. SumOfFirst(s, 0) = 0 BY <2>1, SumUnfolds, FS_EmptySet DEF SumOfFirst
  <2> QED BY <1>1, <2>2
<1>3. ASSUME NEW k \in 0 .. n - 1, k \in G PROVE k + 1 \in G
  <2>1. k \in Nat /\ k + 1 \in 0 .. n /\ k + 1 \in 1 .. n /\ \A i \in 1 .. k + 1 : s[i] \in Int BY <1>1
  <2>2. SumOfFirst(s, k) \in Int /\ SumOfFirst(s, k + 1) = SumOfFirst(s, k) + s[k + 1] BY <2>1, SumOfFirstGrows
  <2>3. s[k + 1] \in Nat /\ SumOfFirst(s, k) >= 0 BY <1>1, <1>3, <2>1
  <2> QED BY <2>1, <2>2, <2>3
<1>4. n \in G
  <2> HIDE DEF G
  <2>1. \A k \in 0 .. n : k \in G BY <1>1, <1>2, <1>3, UpTo
  <2> QED BY <1>1, <2>1
<1>5. Total(s) = SumOfFirst(s, n) /\ Total(s) \in Int BY <1>1, TotalIsSumOfFirst DEF n
<1> QED BY <1>4, <1>5

LEMMA LeastPick ==
  ASSUME NEW n \in Nat, NEW S \in SUBSET (1 .. n), S # {}
  PROVE  Min(S) \in S
<1> DEFINE G == {k \in 0 .. n : \A i \in S : k < i}
<1>1. ~(\A k \in 0 .. n : k \in G)
  <2>1. PICK i \in S : TRUE OBVIOUS
  <2>2. i \in 0 .. n /\ i \notin G OBVIOUS
  <2> QED BY <2>2
<1>2. 0 \in G OBVIOUS
<1>3. PICK k \in 0 .. n - 1 : k \in G /\ k + 1 \notin G
  <2> HIDE DEF G
  <2> QED BY <1>1, <1>2, UpTo
<1>4. \A i \in S : k < i /\ i \in Nat BY <1>3
<1>5. PICK i \in S : ~(k + 1 < i) BY <1>3
<1>6. \A j \in S : i <= j BY <1>4, <1>5
<1> QED BY <1>6 DEF Min

-----------------------------------------------------------------------------
LEMMA NaturalsAreIntegers ==
  ASSUME NEW s \in Seq(Nat)
  PROVE  s \in Seq(Int)
<1>1. Nat \subseteq Int OBVIOUS
<1> QED BY <1>1, NaturalsAreIntegers

LEMMA DepositsAreNaturals ==
  ASSUME NEW s \in Seq(DepositValue)
  PROVE  s \in Seq(Nat)
BY CoinsAssumption, SeqMonotonic

\* A transaction that is built, from what it is built.
PaysFor(tx, inputs, outs, rate) ==
  /\ tx.inputs = inputs /\ tx.outs = outs /\ tx.rate = rate
  /\ outs \in Seq(Nat) /\ tx.change \in Seq(Nat) /\ tx.fee \in Nat
  /\ Total(inputs) = Total(outs) + Total(tx.change) + tx.fee
  /\ Total(inputs) \in Int /\ Total(outs) \in Int /\ Total(tx.change) \in Int
  /\ tx.fee - Bytes(tx) * tx.rate \in 0 .. Dust - 1

LEMMA BuiltTransaction ==
  ASSUME NEW inputs \in Seq(Nat), NEW outs \in Seq(Int), NEW rate \in Nat, NEW tx,
         tx = _constructRawTransaction(inputs, outs, rate, FeeOf(Len(inputs), Len(outs), rate)),
         tx.built = TRUE
  PROVE  PaysFor(tx, inputs, outs, rate)
<1> DEFINE estimate == FeeOf(Len(inputs), Len(outs), rate)
           left == Total(inputs) - Total(outs) - estimate
           change == Change(left)
<1>1. estimate \in Nat
  <2>1. Len(inputs) \in Nat /\ Len(outs) \in Nat OBVIOUS
  <2> DEFINE size == Len(outs) * 34 + 10 + Len(inputs) * 181
  <2>2. size \in Nat BY <2>1
  <2> HIDE DEF size
  <2>3. size * rate \in Nat BY <2>2
  <2> QED BY <2>3 DEF FeeOf, Size, size
<1>2. Total(inputs) \in Int /\ Total(outs) \in Int
  <2>1. inputs \in Seq(Int) BY NaturalsAreIntegers
  <2> QED BY <2>1, TotalIsSumOfFirst
<1>3. /\ tx.inputs = inputs /\ tx.outs = outs /\ tx.rate = rate /\ tx.change = change
      /\ tx.fee = Total(inputs) - Total(outs) - Total(change)
      /\ Total(inputs) >= Total(outs) + estimate /\ Payable(outs)
  <2> DEFINE fee == Total(inputs) - Total(outs) - Total(change)
             ok == Total(inputs) >= Total(outs) + estimate /\ Payable(outs)
  <2>1. tx = [inputs |-> inputs, outs |-> outs, change |-> change, rate |-> rate, fee |-> fee, built |-> ok]
    BY DEF _constructRawTransaction
  <2> HIDE DEF change, fee, ok
  <2>2. tx.inputs = inputs /\ tx.outs = outs /\ tx.rate = rate /\ tx.change = change /\ tx.fee = fee
    BY <2>1
  <2>3. tx.built = ok BY <2>1
  <2>4. ok BY <2>3
  <2> QED BY <2>2, <2>4 DEF fee, ok
<1>4. Bytes(tx) * tx.rate = estimate
  <2>1. Len(outs) \in Nat /\ Len(inputs) \in Nat OBVIOUS
  <2>2. Bytes(tx) = Size(Len(inputs), Len(outs)) BY <1>3, <2>1 DEF Bytes, Size
  <2> QED BY <1>3, <2>2 DEF FeeOf
<1>5. outs \in Seq(Nat)
  <2>1. \A i \in DOMAIN outs : outs[i] \in Nat
    <3>1. Payable(outs) /\ \A i \in DOMAIN outs : outs[i] \in Int BY <1>3
    <3> QED BY <3>1 DEF Payable
  <2>2. Len(outs) \in Nat /\ DOMAIN outs = 1 .. Len(outs) /\ outs = [i \in 1 .. Len(outs) |-> outs[i]]
    OBVIOUS
  <2>3. outs \in [1 .. Len(outs) -> Nat] BY <2>1, <2>2
  <2> QED BY <2>2, <2>3
<1> HIDE DEF estimate
<1>6. left \in Nat BY <1>1, <1>2, <1>3
<1> HIDE DEF left
<1>7. change \in Seq(Nat) /\ Total(change) \in Int /\ left - Total(change) \in 0 .. Dust - 1
  <2>1. Total(<<left>>) = left /\ Total(<<>>) = 0 BY <1>6, TotalOfOne, TotalOfNone
  <2>2. CASE left >= Dust
    <3>1. change = <<left>> BY <2>2 DEF Change
    <3> HIDE DEF change
    <3>2. Total(change) = left BY <2>1, <3>1
    <3>3. change \in Seq(Nat) BY <1>6, <3>1
    <3>4. left - left \in 0 .. Dust - 1 BY <1>6 DEF Dust
    <3> QED BY <1>6, <3>2, <3>3, <3>4
  <2>3. CASE ~(left >= Dust)
    <3>1. change = <<>> BY <2>3 DEF Change
    <3> HIDE DEF change
    <3>2. Total(change) = 0 BY <2>1, <3>1
    <3>3. change \in Seq(Nat) BY <3>1
    <3>4. left - 0 \in 0 .. Dust - 1 BY <1>6, <2>3 DEF Dust
    <3> QED BY <3>2, <3>3, <3>4
  <2> QED BY <2>2, <2>3
<1> HIDE DEF change
<1>8. tx.fee - estimate = left - Total(change) BY <1>1, <1>2, <1>3, <1>7 DEF left
<1>9. tx.fee \in Nat /\ tx.fee - estimate \in 0 .. Dust - 1
  <2>1. tx.fee - estimate \in 0 .. Dust - 1 BY <1>7, <1>8
  <2>2. tx.fee \in Int BY <1>2, <1>3, <1>7
  <2> DEFINE fee == tx.fee
  <2> HIDE DEF fee
  <2>3. fee - estimate \in 0 .. Dust - 1 /\ fee \in Int BY <2>1, <2>2 DEF fee
  <2>4. fee \in Nat BY <1>1, <2>3 DEF Dust
  <2> QED BY <2>1, <2>4 DEF fee
<1> QED BY <1>2, <1>3, <1>4, <1>5, <1>7, <1>9 DEF PaysFor

\* What was not built asked for more than all the coins are worth.
Shortage ==
  ~last.built /\ last # Nothing =>
    Total(coins) <= Total(last.outs) + FeeOf(Len(coins), Len(last.outs), last.rate)

CoinsInv == CoinsTypeOK /\ last.outs \in Seq(Nat) /\ FeeIsRight /\ Shortage

LEMMA CoinsStart == CoinsInit => CoinsInv
<1> SUFFICES ASSUME CoinsInit PROVE CoinsInv OBVIOUS
<1>1. coins = <<>> /\ deposits = <<>> /\ received = 0 /\ last = Nothing BY DEF CoinsInit
<1>2. Total(<<>>) = 0 BY TotalOfNone
<1>3. CoinsTypeOK BY <1>1, <1>2, CoinsAssumption DEF CoinsTypeOK, Nothing
<1> QED BY <1>1, <1>3 DEF CoinsInv, FeeIsRight, Shortage, Nothing

LEMMA DepositStep ==
  ASSUME CoinsInv, NEW v \in DepositValue, Deposit(v)
  PROVE  CoinsInv'
<1>1. /\ deposits' = Append(deposits, v) /\ received' = received + v /\ received + v <= Funds
      /\ coins' = coins /\ last' = last
  BY DEF Deposit
<1>2. /\ coins \in Seq(Nat) /\ deposits \in Seq(DepositValue) /\ received \in 0 .. Funds
      /\ Total(coins) + Total(deposits) <= received /\ v \in Nat /\ Funds \in Nat
  BY CoinsAssumption DEF CoinsInv, CoinsTypeOK
<1>3. deposits \in Seq(Int) /\ coins \in Seq(Int) /\ <<v>> \in Seq(Int) /\ Append(deposits, v) = deposits \o <<v>>
  <2>1. deposits \in Seq(Int) /\ coins \in Seq(Int) BY <1>2, DepositsAreNaturals, NaturalsAreIntegers
  <2>2. <<v>> \in Seq(Int) /\ Append(deposits, v) = deposits \o <<v>> BY <1>2, <2>1
  <2> QED BY <2>1, <2>2
<1>4. Total(deposits \o <<v>>) = Total(deposits) + Total(<<v>>) BY <1>3, TotalOfConcat
<1>5. Total(<<v>>) = v BY <1>2, TotalOfOne
<1>6. Total(deposits) \in Int /\ Total(coins) \in Int BY <1>3, TotalIsSumOfFirst
<1>7. Total(deposits') = Total(deposits) + v BY <1>1, <1>3, <1>4, <1>5
<1>8. CoinsTypeOK'
  <2>1. deposits' \in Seq(DepositValue) BY <1>1, <1>2
  <2>2. received' \in 0 .. Funds BY <1>1, <1>2
  <2>3. Total(coins') + Total(deposits') <= received' BY <1>1, <1>2, <1>6, <1>7
  <2> QED BY <1>1, <1>2, <2>1, <2>2, <2>3 DEF CoinsInv, CoinsTypeOK
<1> QED BY <1>1, <1>8 DEF CoinsInv, FeeIsRight, Bytes, Shortage

LEMMA CollectStep ==
  ASSUME CoinsInv, NEW rate \in Rate, Collect(rate)
  PROVE  CoinsInv'
<1>1. PICK k \in DOMAIN deposits :
        /\ last' = constructRawConsolidateTransaction(SubSeq(deposits, 1, k), rate)
        /\ last'.built = TRUE
        /\ coins' = coins \o last'.outs
        /\ deposits' = SubSeq(deposits, k + 1, Len(deposits))
        /\ received' = received
  BY DEF Collect
<1>2. /\ coins \in Seq(Nat) /\ deposits \in Seq(DepositValue) /\ received \in 0 .. Funds
      /\ Total(coins) + Total(deposits) <= received /\ rate \in Nat /\ DepositValue \subseteq Nat
  BY CoinsAssumption DEF CoinsInv, CoinsTypeOK
<1>3. k \in 0 .. Len(deposits) BY <1>2
<1> DEFINE inputs == SubSeq(deposits, 1, k)
           rest == SubSeq(deposits, k + 1, Len(deposits))
           fee == FeeOf(Len(inputs), 1, rate)
           outs == <<Total(inputs) - fee>>
<1>4. /\ inputs \in Seq(DepositValue) /\ rest \in Seq(DepositValue)
      /\ Total(inputs) + Total(rest) = Total(deposits) /\ Total(inputs) \in Int /\ Total(rest) \in Int
  BY <1>2, <1>3, TotalSplits
<1>5. inputs \in Seq(Nat) BY <1>4, DepositsAreNaturals
<1> HIDE DEF inputs, rest
<1>6. fee \in Int BY <1>2, <1>5 DEF FeeOf, Size
<1>7. outs \in Seq(Int) /\ Len(outs) = 1 BY <1>4, <1>6
<1>8. last' = _constructRawTransaction(inputs, outs, rate, FeeOf(Len(inputs), Len(outs), rate))
  BY <1>1, <1>7 DEF constructRawConsolidateTransaction, inputs
<1> HIDE DEF outs, fee
<1>9. /\ last'.outs = outs /\ outs \in Seq(Nat) /\ last'.fee \in Nat /\ last'.rate = rate
      /\ Total(inputs) = Total(outs) + Total(last'.change) + last'.fee
      /\ Total(outs) \in Int /\ Total(last'.change) \in Int /\ last'.change \in Seq(Nat)
      /\ last'.fee - Bytes(last') * last'.rate \in 0 .. Dust - 1
  <2>1. PaysFor(last', inputs, outs, rate) BY <1>1, <1>2, <1>5, <1>7, <1>8, BuiltTransaction
  <2> QED BY <2>1 DEF PaysFor
<1>10. Total(last'.change) >= 0
  <2>1. Total(last'.change) \in Nat BY <1>9, TotalIsNat
  <2> QED BY <2>1
<1>11. Total(coins \o outs) = Total(coins) + Total(outs) /\ Total(coins) \in Int
  <2>1. coins \in Seq(Int) /\ outs \in Seq(Int) BY <1>2, <1>9, NaturalsAreIntegers
  <2> QED BY <2>1, TotalOfConcat, TotalIsSumOfFirst
<1>12. CoinsTypeOK'
  <2>1. coins' \in Seq(Nat) BY <1>1, <1>2, <1>9
  <2>2. coins' = coins \o outs /\ deposits' = rest BY <1>1, <1>9 DEF rest
  <2>3. Total(coins') + Total(deposits') <= received
    <3>1. Total(coins') = Total(coins) + Total(outs) BY <1>11, <2>2
    <3>2. Total(deposits') = Total(rest) BY <2>2
    <3>3. Total(coins) + (Total(inputs) + Total(rest)) <= received /\ received \in Int BY <1>2, <1>4
    <3>4. Total(outs) <= Total(inputs)
      <4>1. /\ Total(inputs) = Total(outs) + Total(last'.change) + last'.fee
            /\ Total(outs) \in Int /\ Total(last'.change) \in Int /\ last'.fee \in Nat
        BY <1>9
      <4> QED BY <4>1, <1>10
    <3>5. Total(inputs) \in Int /\ Total(rest) \in Int /\ Total(outs) \in Int /\ Total(coins) \in Int
      BY <1>4, <1>9, <1>11
    <3> QED BY <3>1, <3>2, <3>3, <3>4, <3>5
  <2> QED BY <1>1, <1>2, <1>4, <1>9, <2>1, <2>2, <2>3 DEF CoinsTypeOK
<1>13. FeeIsRight' BY <1>9 DEF FeeIsRight, Bytes
<1> QED BY <1>1, <1>9, <1>12, <1>13 DEF CoinsInv, Shortage

LEMMA WithdrawStep ==
  ASSUME CoinsInv, NEW outs \in Payment, Withdraw(outs)
  PROVE  CoinsInv'
<1>1. PICK rates \in [DOMAIN coins -> Rate] : last' = constructRawTransaction(outs, rates) BY DEF Withdraw
<1>2. /\ coins' = IF last'.built THEN SubSeq(coins, Len(last'.inputs) + 1, Len(coins)) \o last'.change ELSE coins
      /\ deposits' = deposits /\ received' = received
  BY DEF Withdraw
<1>3. /\ coins \in Seq(Nat) /\ deposits \in Seq(DepositValue) /\ received \in 0 .. Funds
      /\ Total(coins) + Total(deposits) <= received /\ outs \in Seq(Nat) /\ Rate \subseteq Nat
  BY CoinsAssumption DEF CoinsInv, CoinsTypeOK
<1> DEFINE n == Len(coins)
           picks == {k \in DOMAIN coins : Enough(k, outs, rates[k])}
<1>4. n \in Nat /\ DOMAIN coins = 1 .. n BY <1>3
<1>5. outs \in Seq(Int) /\ coins \in Seq(Int) /\ deposits \in Seq(Int)
  BY <1>3, DepositsAreNaturals, NaturalsAreIntegers
<1>6. Total(outs) \in Nat /\ Total(coins) \in Int /\ Total(deposits) \in Int
  BY <1>3, <1>5, TotalIsNat, TotalIsSumOfFirst
<1> HIDE DEF n
<1>7. CASE picks = {}
  <2> DEFINE r == IF n = 0 THEN 0 ELSE rates[n]
  <2>1. last' = [Nothing EXCEPT !.inputs = coins, !.outs = outs, !.rate = r]
    BY <1>1, <1>7 DEF constructRawTransaction, n
  <2>2. r \in Rate \cup {0} BY <1>3, <1>4
  <2> HIDE DEF r
  <2>3. last'.outs = outs /\ last'.rate = r /\ last'.built = FALSE /\ last'.fee = 0 BY <2>1 DEF Nothing
  <2>4. coins' = coins BY <1>2, <2>3
  <2>5. Total(coins) <= Total(outs) + FeeOf(n, Len(outs), r)
    <3>1. CASE n = 0
      <4>1. coins = <<>> BY <1>3, <3>1 DEF n
      <4>2. Total(coins) = 0 BY <4>1, TotalOfNone
      <4>3. Size(n, Len(outs)) \in Int BY <1>3, <1>4 DEF Size
      <4>4. r = 0 BY <3>1 DEF r
      <4>5. FeeOf(n, Len(outs), r) = 0 BY <4>3, <4>4 DEF FeeOf
      <4> QED BY <1>6, <4>2, <4>5
    <3>2. CASE n # 0
      <4>1. n \in DOMAIN coins /\ r = rates[n] BY <1>4, <3>2 DEF r
      <4>2. ~Enough(n, outs, r) BY <1>7, <4>1
      <4>3. SubSeq(coins, 1, n) = coins BY <1>3 DEF n
      <4>4. ~(Total(coins) > Total(outs) + FeeOf(n, Len(outs), r)) BY <4>2, <4>3 DEF Enough
      <4>5. FeeOf(n, Len(outs), r) \in Int
        <5>1. Size(n, Len(outs)) \in Int /\ r \in Int BY <1>3, <1>4, <2>2 DEF Size
        <5> QED BY <5>1 DEF FeeOf
      <4> QED BY <1>6, <4>4, <4>5
    <3> QED BY <3>1, <3>2
  <2>6. CoinsTypeOK'
    <3>1. deposits' \in Seq(DepositValue) /\ received' \in 0 .. Funds /\ coins' \in Seq(Nat) BY <1>2, <1>3, <2>4
    <3>2. Total(coins') + Total(deposits') <= received' BY <1>2, <1>3, <2>4
    <3>3. last'.fee \in Nat /\ last'.rate \in Rate \cup {0} BY <2>2, <2>3
    <3>4. last'.built \in BOOLEAN BY <2>3, Zenon
    <3> QED BY <3>1, <3>2, <3>3, <3>4 DEF CoinsTypeOK
  <2>7. Shortage' BY <2>3, <2>4, <2>5 DEF Shortage, n
  <2> QED BY <1>3, <2>3, <2>6, <2>7 DEF CoinsInv, FeeIsRight
<1>8. CASE picks # {}
  <2> DEFINE k == Min(picks)
             inputs == SubSeq(coins, 1, k)
             rest == SubSeq(coins, k + 1, n)
             rate == rates[k]
  <2>1. k \in picks BY <1>4, <1>8, LeastPick
  <2>2. last' = _constructRawTransaction(inputs, outs, rate, FeeOf(k, Len(outs), rate))
    BY <1>1, <1>8 DEF constructRawTransaction, Picked
  <2> HIDE DEF k
  <2>3. k \in 1 .. n /\ k \in 0 .. n /\ Enough(k, outs, rate) /\ rate \in Nat /\ rate \in Rate
    <3>1. k \in DOMAIN coins /\ Enough(k, outs, rate) BY <2>1
    <3>2. rate \in Rate BY <3>1
    <3>3. k \in 1 .. n /\ k \in 0 .. n BY <1>4, <3>1
    <3> QED BY <1>3, <3>1, <3>2, <3>3
  <2> HIDE DEF picks, rate
  <2>4. /\ inputs \in Seq(Nat) /\ Len(inputs) = k /\ rest \in Seq(Nat)
        /\ Total(inputs) + Total(rest) = Total(coins) /\ Total(inputs) \in Int /\ Total(rest) \in Int
    <3>1. Nat \in SUBSET Int OBVIOUS
    <3> QED BY <1>3, <2>3, <3>1, TotalSplits DEF n
  <2>5. Enough(k, outs, rate) <=> Total(inputs) > Total(outs) + FeeOf(k, Len(outs), rate) BY DEF Enough
  <2> HIDE DEF inputs
  <2>6. last'.built = TRUE
    <3> DEFINE ok == Total(inputs) >= Total(outs) + FeeOf(k, Len(outs), rate) /\ Payable(outs)
    <3>1. last'.built = ok BY <2>2 DEF _constructRawTransaction
    <3>2. Payable(outs) BY <1>3 DEF Payable
    <3>3. FeeOf(k, Len(outs), rate) \in Int
      <4>1. Size(k, Len(outs)) \in Int BY <1>3, <2>3 DEF Size
      <4> QED BY <2>3, <4>1 DEF FeeOf
    <3>4. ok BY <1>6, <2>3, <2>4, <2>5, <3>2, <3>3
    <3> HIDE DEF ok
    <3> QED BY <3>1, <3>4, Zenon
  <2>7. /\ last'.inputs = inputs /\ last'.outs = outs /\ last'.fee \in Nat /\ last'.rate = rate
        /\ Total(inputs) = Total(outs) + Total(last'.change) + last'.fee
        /\ Total(last'.change) \in Int /\ last'.change \in Seq(Nat)
        /\ last'.fee - Bytes(last') * last'.rate \in 0 .. Dust - 1
    <3>1. last' = _constructRawTransaction(inputs, outs, rate, FeeOf(Len(inputs), Len(outs), rate))
      BY <2>2, <2>4
    <3>2. PaysFor(last', inputs, outs, rate) BY <1>5, <2>3, <2>4, <2>6, <3>1, BuiltTransaction
    <3> QED BY <3>2 DEF PaysFor
  <2>8. coins' = rest \o last'.change BY <1>2, <2>4, <2>6, <2>7 DEF rest, n
  <2> HIDE DEF rest
  <2>9. Total(rest \o last'.change) = Total(rest) + Total(last'.change)
    <3>1. rest \in Seq(Int) /\ last'.change \in Seq(Int) BY <2>4, <2>7, NaturalsAreIntegers
    <3> QED BY <3>1, TotalOfConcat
  <2>10. CoinsTypeOK'
    <3>1. coins' \in Seq(Nat) BY <2>4, <2>7, <2>8
    <3>2. Total(coins') <= Total(coins)
      <4>1. Total(coins') = Total(rest) + Total(last'.change) BY <2>8, <2>9
      <4>2. /\ Total(inputs) = Total(outs) + Total(last'.change) + last'.fee
            /\ Total(last'.change) \in Int /\ last'.fee \in Nat
        BY <2>7
      <4> QED BY <1>6, <2>4, <4>1, <4>2
    <3>3. Total(coins') \in Int
      <4>1. coins' \in Seq(Int) BY <3>1, NaturalsAreIntegers
      <4> QED BY <4>1, TotalIsSumOfFirst
    <3>4. Total(coins') + Total(deposits') <= received' BY <1>2, <1>3, <1>6, <3>2, <3>3
    <3>5. deposits' \in Seq(DepositValue) /\ received' \in 0 .. Funds BY <1>2, <1>3
    <3>6. last'.fee \in Nat /\ last'.rate \in Rate \cup {0} BY <2>3, <2>7
    <3>7. last'.built \in BOOLEAN BY <2>6, Zenon
    <3> QED BY <3>1, <3>4, <3>5, <3>6, <3>7 DEF CoinsTypeOK
  <2>11. FeeIsRight' BY <2>7 DEF FeeIsRight, Bytes
  <2> QED BY <1>3, <2>6, <2>7, <2>10, <2>11 DEF CoinsInv, Shortage
<1> QED BY <1>7, <1>8

LEMMA CoinsStep == CoinsInv /\ [CoinsNext]_coinVars => CoinsInv'
<1> SUFFICES ASSUME CoinsInv, [CoinsNext]_coinVars PROVE CoinsInv' OBVIOUS
<1>1. ASSUME NEW v \in DepositValue, Deposit(v) PROVE CoinsInv' BY <1>1, DepositStep
<1>2. ASSUME NEW rate \in Rate, Collect(rate) PROVE CoinsInv' BY <1>2, CollectStep
<1>3. ASSUME NEW outs \in Payment, Withdraw(outs) PROVE CoinsInv' BY <1>3, WithdrawStep
<1>4. ASSUME UNCHANGED coinVars PROVE CoinsInv'
  <2>1. UNCHANGED <<coins, deposits, received, last>> BY <1>4 DEF coinVars
  <2> QED BY <2>1 DEF CoinsInv, CoinsTypeOK, FeeIsRight, Bytes, Shortage
<1> QED BY <1>1, <1>2, <1>3, <1>4 DEF CoinsNext

LEMMA CoinsAlways == CoinsSpec => []CoinsInv
BY CoinsStart, CoinsStep, PTL DEF CoinsSpec

\* Of coins that are each worth more than c, no choice S leaves more than all do
\* after c was paid for each.
LEMMA AllCoinsPayMost ==
  ASSUME NEW n \in Nat, NEW s, NEW c \in Nat, \A i \in 1 .. n : s[i] \in Nat /\ s[i] > c,
         NEW S \in SUBSET (1 .. n)
  PROVE  /\ SumFunctionOnSet(s, S) \in Int /\ Cardinality(S) \in Nat
         /\ SumFunctionOnSet(s, S) - c * Cardinality(S) <= SumFunctionOnSet(s, 1 .. n) - c * n
<1> DEFINE D == 1 .. n
           Left(T) == SumFunctionOnSet(s, T) - c * Cardinality(T)
           F == {R \in SUBSET D : Left(D \ R) > Left(D)}
<1>1. IsFiniteSet(D) /\ Cardinality(D) = n BY FS_Interval
<1>2. \A i \in D : s[i] \in Int /\ s[i] > c OBVIOUS
<1> HIDE DEF D
<1>3. ASSUME NEW T \in SUBSET D
      PROVE  SumFunctionOnSet(s, T) \in Int /\ Cardinality(T) \in Nat /\ Left(T) \in Int /\ IsFiniteSet(T)
  <2>1. IsFiniteSet(T) BY <1>1, FS_Subset
  <2>2. SumFunctionOnSet(s, T) \in Int BY <1>2, <2>1, SumOfIntegers
  <2>3. Cardinality(T) \in Nat BY <2>1, FS_CardinalityType
  <2> QED BY <2>1, <2>2, <2>3
<1>4. F = {}
  <2> SUFFICES ASSUME F # {} PROVE FALSE OBVIOUS
  <2>1. PICK m \in F : \A t \in F : t \subseteq m => t = m
    <3>1. F \subseteq SUBSET D OBVIOUS
    <3> HIDE DEF F
    <3> QED BY <1>1, <3>1, MinimalMember
  <2>2. m \in SUBSET D /\ Left(D \ m) > Left(D) OBVIOUS
  <2>3. Left(D) \in Int /\ Left(D \ m) \in Int BY <1>3
  <2>4. m # {}
    <3> SUFFICES ASSUME m = {} PROVE FALSE OBVIOUS
    <3>1. D \ m = D OBVIOUS
    <3> HIDE DEF Left
    <3> QED BY <2>2, <2>3, <3>1
  <2>5. PICK x \in m : TRUE BY <2>4
  <2> DEFINE T == D \ m
             U == D \ (m \ {x})
  <2>6. /\ x \in U /\ U \ {x} = T /\ x \notin T /\ U = T \cup {x}
        /\ T \in SUBSET D /\ U \in SUBSET D /\ m \ {x} \in SUBSET D /\ m \ {x} # m
    BY <2>2
  <2>7. ~(Left(U) > Left(D))
    <3> HIDE DEF Left
    <3> QED BY <2>1, <2>6
  <2> HIDE DEF T, U, F
  <2>8. SumFunctionOnSet(s, U) = s[x] + SumFunctionOnSet(s, T)
    <3>1. IsFiniteSet(U) /\ \A i \in U : s[i] \in Int BY <1>2, <1>3, <2>6
    <3> QED BY <2>6, <3>1, SumRemoves
  <2>9. Cardinality(U) = Cardinality(T) + 1
    <3>1. IsFiniteSet(T) BY <1>3, <2>6
    <3> QED BY <2>6, <3>1, FS_AddElement
  <2>10. /\ SumFunctionOnSet(s, T) \in Int /\ Cardinality(T) \in Nat
         /\ Left(T) \in Int /\ Left(U) \in Int
    BY <1>3, <2>6
  <2>11. s[x] \in Int /\ s[x] > c BY <1>2, <2>6
  <2>12. c * (Cardinality(T) + 1) = c * Cardinality(T) + c BY <2>10
  <2>13. c * Cardinality(T) \in Int BY <2>10
  <2>14. Left(U) = (s[x] + SumFunctionOnSet(s, T)) - (c * Cardinality(T) + c) BY <2>8, <2>9, <2>12
  <2>15. Left(U) > Left(T) BY <2>10, <2>11, <2>13, <2>14
  <2>16. Left(T) > Left(D) BY <2>2 DEF T
  <2> HIDE DEF Left
  <2> QED BY <2>3, <2>7, <2>10, <2>15, <2>16
<1>5. S \in SUBSET D /\ D \ S \in SUBSET D /\ D \ (D \ S) = S BY DEF D
<1>6. ~(Left(S) > Left(D))
  <2> HIDE DEF Left
  <2> QED BY <1>4, <1>5
<1>7. Left(S) \in Int /\ Left(D) \in Int /\ SumFunctionOnSet(s, S) \in Int /\ Cardinality(S) \in Nat
  BY <1>3, <1>5
<1>8. Left(S) <= Left(D)
  <2> HIDE DEF Left
  <2> QED BY <1>6, <1>7
<1> QED BY <1>1, <1>7, <1>8 DEF D

LEMMA ShortOfEveryChoice == CoinsInv => ThrowsOnlyWhenShort
<1> SUFFICES ASSUME CoinsInv, ~last.built, last # Nothing,
                    \A i \in DOMAIN coins : coins[i] > 181 * last.rate,
                    NEW S \in SUBSET DOMAIN coins
             PROVE  SumFunctionOnSet(coins, S) <=
                      Total(last.outs) + (34 * Len(last.outs) + 10 + 181 * Cardinality(S)) * last.rate
  BY DEF ThrowsOnlyWhenShort
<1> DEFINE n == Len(coins)
           c == 181 * last.rate
           o == Len(last.outs)
           r == last.rate
           k == Cardinality(S)
<1>1. coins \in Seq(Nat) /\ last.outs \in Seq(Nat) /\ r \in Nat
  <2> HIDE DEF r
  <2>1. r \in Rate \cup {0} /\ Rate \subseteq Nat BY CoinsAssumption DEF CoinsInv, CoinsTypeOK, r
  <2>2. r \in Nat BY <2>1
  <2> QED BY <2>2 DEF CoinsInv, CoinsTypeOK
<1>2. n \in Nat /\ DOMAIN coins = 1 .. n /\ c \in Nat /\ o \in Nat BY <1>1
<1>3. Total(coins) <= Total(last.outs) + FeeOf(n, o, r) BY DEF CoinsInv, Shortage
<1>4. /\ SumFunctionOnSet(coins, S) \in Int /\ k \in Nat
      /\ SumFunctionOnSet(coins, S) - c * k <= SumFunctionOnSet(coins, 1 .. n) - c * n
  <2>1. \A i \in DOMAIN coins : coins[i] > c OBVIOUS
  <2>2. \A i \in DOMAIN coins : coins[i] \in Nat BY <1>1
  <2> HIDE DEF n, c
  <2>3. \A i \in 1 .. n : coins[i] \in Nat /\ coins[i] > c BY <1>2, <2>1, <2>2
  <2> QED BY <1>2, <2>3, AllCoinsPayMost
<1>5. /\ Total(coins) = SumFunctionOnSet(coins, 1 .. n) /\ Total(coins) \in Int
      /\ Total(last.outs) \in Int
  <2>1. coins \in Seq(Int) /\ last.outs \in Seq(Int) BY <1>1, NaturalsAreIntegers
  <2> QED BY <2>1, TotalIsSumOfFirst DEF SumOfFirst
<1> HIDE DEF n, o, k
<1>6. FeeOf(n, o, r) = (34 * o + 10) * r + c * n
  <2>1. (o * 34 + 10 + n * 181) * r = (o * 34 + 10) * r + (n * 181) * r BY <1>1, <1>2
  <2>2. (n * 181) * r = (181 * r) * n BY <1>1, <1>2
  <2> QED BY <2>1, <2>2, <1>2 DEF FeeOf, Size
<1>7. (34 * o + 10 + 181 * k) * r = (34 * o + 10) * r + c * k
  <2>1. (34 * o + 10 + 181 * k) * r = (34 * o + 10) * r + (181 * k) * r BY <1>1, <1>2, <1>4
  <2>2. (181 * k) * r = (181 * r) * k BY <1>1, <1>4
  <2> QED BY <2>1, <2>2
<1>8. (34 * o + 10) * r \in Int /\ c * n \in Int /\ c * k \in Int
  <2>1. 34 * o + 10 \in Int BY <1>2
  <2> HIDE DEF c
  <2> QED BY <1>1, <1>2, <1>4, <2>1
<1>9. SumFunctionOnSet(coins, S) <= Total(last.outs) + ((34 * o + 10) * r + c * k)
  <2> DEFINE a == (34 * o + 10) * r
             b == c * n
             d == c * k
  <2>1. a \in Int /\ b \in Int /\ d \in Int BY <1>8
  <2>2. Total(coins) <= Total(last.outs) + (a + b) BY <1>3, <1>6
  <2>3. SumFunctionOnSet(coins, S) - d <= Total(coins) - b BY <1>4, <1>5
  <2> HIDE DEF a, b, d
  <2>4. SumFunctionOnSet(coins, S) <= Total(last.outs) + (a + d) BY <1>4, <1>5, <2>1, <2>2, <2>3
  <2> QED BY <2>4 DEF a, d
<1> QED BY <1>7, <1>9 DEF k, o

\* The wallet never has more than arrived, its coins are amounts, and what is
\* built pays a fee and no negative amount: constructRawTransaction and
\* constructRawConsolidateTransaction create no money.
THEOREM CoinsTypeCorrect == CoinsSpec => []CoinsTypeOK
<1>1. CoinsInv => CoinsTypeOK BY DEF CoinsInv
<1> QED BY <1>1, CoinsAlways, PTL

\* A transaction pays the rate of the last question for all of its bytes and less
\* than the dust more, however the rate moves between the coins
\* (constructRawTransaction and _constructRawTransaction).
THEOREM FeeIsAlwaysRight == CoinsSpec => []FeeIsRight
<1>1. CoinsInv => FeeIsRight BY DEF CoinsInv
<1> QED BY <1>1, CoinsAlways, PTL

\* The construction throws only when no choice of coins could pay, where every
\* coin is worth more than its own input (the loop of constructRawTransaction).
THEOREM ThrownOnlyWhenShort == CoinsSpec => []ThrowsOnlyWhenShort
BY CoinsAlways, ShortOfEveryChoice, PTL
=============================================================================
