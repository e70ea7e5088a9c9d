----------------------- MODULE AccountingExplorerProofs -----------------------
(***************************************************************************)
(* Proofs about the explorer of a balance, for any accounts, balances,      *)
(* ledgers, filters and page size, and any number of publications and       *)
(* choices.                                                                *)
(*                                                                         *)
(* Sums are folds over finite sets. What they are is shown by induction:    *)
(* the induction theorems of the library take a predicate, so here a        *)
(* smallest counterexample is taken from a set (SmallestSet) instead.       *)
(***************************************************************************)
EXTENDS AccountingExplorer, SequenceTheorems, FiniteSetTheorems, TLAPS

(***************************************************************************)
(* Sums                                                                    *)
(***************************************************************************)

\* What a sum over s adds, when g sums what is smaller.
Adds(F, g, s) == IF s = {} THEN 0
                 ELSE F[CHOOSE x \in s : TRUE] + g[s \ {CHOOSE x \in s : TRUE}]

\* The function that sums every subset of S, when g sums what is smaller.
Sums(F, S, g) == [s \in SUBSET S |-> Adds(F, g, s)]

\* A set of subsets of a finite set has a smallest one: induction over finite
\* sets, with a set in place of the predicate.
LEMMA SmallestSet ==
  ASSUME NEW S, IsFiniteSet(S), NEW T, T \subseteq SUBSET S, T # {}
  PROVE  \E x \in T : \A y \in T : ~(y \subseteq x /\ y # x)
<1>0. FiniteSubsetsOf(S) = SUBSET S
  BY FS_FiniteSubsetsOfFinite
<1>1. IsWellFoundedOn(StrictSubsetOrdering(S), SUBSET S)
  BY <1>0, FS_StrictSubsetOrderingWellFounded
<1>2. PICK x \in T : \A y \in T : ~(<<y, x>> \in StrictSubsetOrdering(S))
  BY <1>1, WFMin
<1>3. ASSUME NEW y \in T, y \subseteq x, y # x PROVE <<y, x>> \in StrictSubsetOrdering(S)
  BY <1>3 DEF StrictSubsetOrdering
<1>4. \A y \in T : ~(y \subseteq x /\ y # x)
  BY <1>2, <1>3
<1> QED BY <1>4

\* There is a function that sums the naturals of F over every subset of a finite set.
LEMMA SumExists ==
  ASSUME NEW S, IsFiniteSet(S), NEW F \in [S -> Nat]
  PROVE  \E g \in [SUBSET S -> Nat] : g = Sums(F, S, g)
<1> DEFINE Summed(U) == \E g \in [SUBSET S -> Nat] :
                        \A s \in SUBSET S : Cardinality(s) <= Cardinality(U) => g[s] = Adds(F, g, s)
           Bad == {U \in SUBSET S : ~Summed(U)}
<1>1. \A s \in SUBSET S : IsFiniteSet(s) /\ Cardinality(s) \in Nat
                          /\ (Cardinality(s) = 0 <=> s = {})
  BY FS_Subset, FS_CardinalityType, FS_EmptySet
<1>2. \A s \in SUBSET S : \A x \in s : Cardinality(s \ {x}) = Cardinality(s) - 1
  BY <1>1, FS_RemoveElement
<1>3. Summed({})
  <2> DEFINE g == [s \in SUBSET S |-> 0]
  <2>1. ASSUME NEW s \in SUBSET S, Cardinality(s) <= Cardinality({}) PROVE g[s] = Adds(F, g, s)
    <3>1. s = {}
      BY <1>1, <2>1
    <3> QED BY <3>1 DEF Adds
  <2>2. g \in [SUBSET S -> Nat]
    OBVIOUS
  <2> QED BY <2>1, <2>2
<1>4. ASSUME NEW U \in SUBSET S, U # {}, NEW z \in U, Summed(U \ {z}) PROVE Summed(U)
  <2>1. PICK h \in [SUBSET S -> Nat] :
          \A s \in SUBSET S : Cardinality(s) <= Cardinality(U \ {z}) => h[s] = Adds(F, h, s)
    BY <1>4
  <2> DEFINE g == [s \in SUBSET S |-> Adds(F, h, s)]
  <2>2. ASSUME NEW s \in SUBSET S PROVE Adds(F, h, s) \in Nat
    <3>1. CASE s = {}
      BY <3>1 DEF Adds
    <3>2. CASE s # {}
      <4> DEFINE x == CHOOSE x \in s : TRUE
      <4>1. x \in s
        BY <3>2
      <4> HIDE DEF x
      <4>2. F[x] \in Nat /\ h[s \ {x}] \in Nat
        BY <4>1
      <4> QED BY <3>2, <4>2 DEF Adds, x
    <3> QED BY <3>1, <3>2
  <2>3. g \in [SUBSET S -> Nat]
    BY <2>2
  <2>4. ASSUME NEW s \in SUBSET S, Cardinality(s) <= Cardinality(U) PROVE g[s] = Adds(F, g, s)
    <3>1. CASE s = {}
      BY <3>1 DEF Adds
    <3>2. CASE s # {}
      <4> DEFINE x == CHOOSE x \in s : TRUE
      <4>1. x \in s
        BY <3>2
      <4> HIDE DEF x
      <4>2. Cardinality(s \ {x}) <= Cardinality(U \ {z})
        BY <1>1, <1>2, <2>4, <4>1
      <4>3. h[s \ {x}] = Adds(F, h, s \ {x})
        BY <2>1, <4>2
      <4>4. h[s \ {x}] = g[s \ {x}]
        BY <4>3
      <4>5. Adds(F, h, s) = F[x] + h[s \ {x}] /\ Adds(F, g, s) = F[x] + g[s \ {x}]
        BY <3>2 DEF Adds, x
      <4> QED BY <4>4, <4>5
    <3> QED BY <3>1, <3>2
  <2> HIDE DEF g
  <2> QED BY <2>3, <2>4
<1> HIDE DEF Summed
<1>5. Bad = {}
  <2> SUFFICES ASSUME Bad # {} PROVE FALSE
    OBVIOUS
  <2>0. Bad \subseteq SUBSET S
    OBVIOUS
  <2> HIDE DEF Bad
  <2>1. PICK U \in Bad : \A V \in Bad : ~(V \subseteq U /\ V # U)
    BY <2>0, SmallestSet
  <2> USE DEF Bad
  <2>2. U # {}
    BY <1>3
  <2>3. PICK z \in U : TRUE
    BY <2>2
  <2>4. U \ {z} \notin Bad
    BY <2>1, <2>3
  <2> QED BY <1>4, <2>2, <2>4
<1>6. Summed(S)
  BY <1>5
<1>7. PICK g \in [SUBSET S -> Nat] :
        \A s \in SUBSET S : Cardinality(s) <= Cardinality(S) => g[s] = Adds(F, g, s)
  BY <1>6 DEF Summed
<1>8. \A s \in SUBSET S : g[s] = Adds(F, g, s)
  BY <1>7, FS_Subset
<1>9. g = Sums(F, S, g)
  BY <1>8 DEF Sums
<1> QED BY <1>9

\* A sum of naturals is a natural.
LEMMA SumIsNatural ==
  ASSUME NEW S, IsFiniteSet(S), NEW F \in [S -> Nat], NEW g, g = Sums(F, S, g)
  PROVE  g[S] \in Nat
<1> DEFINE Bad == {s \in SUBSET S : g[s] \notin Nat}
<1>1. ASSUME Bad # {} PROVE FALSE
  <2>0. Bad \subseteq SUBSET S
    OBVIOUS
  <2> HIDE DEF Bad
  <2>1. PICK s \in Bad : \A t \in Bad : ~(t \subseteq s /\ t # s)
    BY <1>1, <2>0, SmallestSet
  <2> USE DEF Bad
  <2>2. g[s] = Adds(F, g, s)
    BY DEF Sums
  <2>3. s # {}
    BY <2>1, <2>2 DEF Adds
  <2> DEFINE x == CHOOSE x \in s : TRUE
  <2>4. x \in s
    BY <2>3
  <2>5. g[s] = F[x] + g[s \ {x}]
    BY <2>2, <2>3 DEF Adds
  <2> HIDE DEF x
  <2>6. s \ {x} \notin Bad
    BY <2>1, <2>4
  <2>7. F[x] \in Nat /\ g[s \ {x}] \in Nat
    BY <2>4, <2>6
  <2> QED BY <2>5, <2>7
<1> QED BY <1>1

\* The three sums of the explorer: a fold with a summand of its own cannot be an
\* instance of one lemma, and each is unfolded to what SumIsNatural says.
LEMMA DebitsAreNatural ==
  ASSUME NEW S, IsFiniteSet(S), \A x \in S : x.debit \in Nat
  PROVE  Debits(S) \in Nat
<1> DEFINE F == [x \in S |-> x.debit]
           Body(g) == [s \in SUBSET S |->
                         IF s = {} THEN 0
                         ELSE LET x == CHOOSE x \in s : TRUE IN x.debit + g[s \ {x}]]
           iter == CHOOSE g : g = Body(g)
<1>1. Debits(S) = iter[S]
  BY DEF Debits, SumOf, MapThenSumSet, MapThenFoldSet
<1>2. F \in [S -> Nat]
  OBVIOUS
<1>3. ASSUME NEW g PROVE Body(g) = Sums(F, S, g)
  BY DEF Adds, Sums
<1> HIDE DEF F
<1>4. PICK h \in [SUBSET S -> Nat] : h = Sums(F, S, h)
  BY <1>2, SumExists
<1> HIDE DEF Body
<1>5. iter = Body(iter)
  BY <1>3, <1>4
<1> HIDE DEF iter
<1>6. iter[S] \in Nat
  BY <1>2, <1>3, <1>5, SumIsNatural
<1> QED BY <1>1, <1>6

\* The same of the credits.
LEMMA CreditsAreNatural ==
  ASSUME NEW S, IsFiniteSet(S), \A x \in S : x.credit \in Nat
  PROVE  Credits(S) \in Nat
<1> DEFINE F == [x \in S |-> x.credit]
           Body(g) == [s \in SUBSET S |->
                         IF s = {} THEN 0
                         ELSE LET x == CHOOSE x \in s : TRUE IN x.credit + g[s \ {x}]]
           iter == CHOOSE g : g = Body(g)
<1>1. Credits(S) = iter[S]
  BY DEF Credits, SumOf, MapThenSumSet, MapThenFoldSet
<1>2. F \in [S -> Nat]
  OBVIOUS
<1>3. ASSUME NEW g PROVE Body(g) = Sums(F, S, g)
  BY DEF Adds, Sums
<1> HIDE DEF F
<1>4. PICK h \in [SUBSET S -> Nat] : h = Sums(F, S, h)
  BY <1>2, SumExists
<1> HIDE DEF Body
<1>5. iter = Body(iter)
  BY <1>3, <1>4
<1> HIDE DEF iter
<1>6. iter[S] \in Nat
  BY <1>2, <1>3, <1>5, SumIsNatural
<1> QED BY <1>1, <1>6

\* The same of the debits of rows.
LEMMA RowDebitsAreNatural ==
  ASSUME NEW S, IsFiniteSet(S), \A x \in S : rows[x].amount.debit \in Nat
  PROVE  SumOf(LAMBDA a : rows[a].amount.debit, S) \in Nat
<1> DEFINE F == [x \in S |-> rows[x].amount.debit]
           Body(g) == [s \in SUBSET S |->
                         IF s = {} THEN 0
                         ELSE LET x == CHOOSE x \in s : TRUE IN rows[x].amount.debit + g[s \ {x}]]
           iter == CHOOSE g : g = Body(g)
<1>1. SumOf(LAMBDA a : rows[a].amount.debit, S) = iter[S]
  BY DEF SumOf, MapThenSumSet, MapThenFoldSet
<1>2. F \in [S -> Nat]
  OBVIOUS
<1>3. ASSUME NEW g PROVE Body(g) = Sums(F, S, g)
  BY DEF Adds, Sums
<1> HIDE DEF F
<1>4. PICK h \in [SUBSET S -> Nat] : h = Sums(F, S, h)
  BY <1>2, SumExists
<1> HIDE DEF Body
<1>5. iter = Body(iter)
  BY <1>3, <1>4
<1> HIDE DEF iter
<1>6. iter[S] \in Nat
  BY <1>2, <1>3, <1>5, SumIsNatural
<1> QED BY <1>1, <1>6

(***************************************************************************)
(* Orders                                                                  *)
(***************************************************************************)

\* R orders S: of two elements one comes first.
Orders(R, S) == /\ \A x, y \in S : x = y \/ <<x, y>> \in R \/ <<y, x>> \in R
                /\ \A x, y, z \in S : <<x, y>> \in R /\ <<y, z>> \in R => <<x, z>> \in R

\* A finite set that is ordered has a last element.
LEMMA LastExists ==
  ASSUME NEW S, IsFiniteSet(S), S # {}, NEW R, Orders(R, S)
  PROVE  \E z \in S : \A y \in S : y = z \/ <<y, z>> \in R
<1> DEFINE HasLast(U) == \E z \in U : \A y \in U : y = z \/ <<y, z>> \in R
           Bad == {U \in SUBSET S : U # {} /\ ~HasLast(U)}
<1>1. ASSUME NEW U \in Bad PROVE \E V \in Bad : V \subseteq U /\ V # U
  <2>1. PICK x \in U : TRUE
    OBVIOUS
  <2>2. U \ {x} # {}
    BY <2>1
  <2>3. ASSUME HasLast(U \ {x}) PROVE FALSE
    <3>1. PICK z \in U \ {x} : \A y \in U \ {x} : y = z \/ <<y, z>> \in R
      BY <2>3
    <3>2. x \in S /\ z \in S /\ U \subseteq S
      BY <2>1
    <3>3. CASE <<x, z>> \in R
      BY <3>1, <3>3
    <3>4. CASE <<z, x>> \in R
      <4>1. \A y \in U : y = x \/ <<y, x>> \in R
        BY <3>1, <3>2, <3>4 DEF Orders
      <4> QED BY <2>1, <4>1
    <3> QED BY <3>1, <3>2, <3>3, <3>4 DEF Orders
  <2>4. U \ {x} \in Bad
    BY <2>2, <2>3
  <2> QED BY <2>1, <2>4
<1>2. Bad \subseteq SUBSET S
  OBVIOUS
<1> HIDE DEF Bad
<1>3. Bad = {}
  BY <1>1, <1>2, SmallestSet
<1> QED BY <1>3 DEF Bad

\* A finite set that is ordered can be written in its order.
LEMMA SortExists ==
  ASSUME NEW S, IsFiniteSet(S), NEW R, Orders(R, S)
  PROVE  \E s \in SetToSeqs(S) : \A i, j \in DOMAIN s : i < j => <<s[i], s[j]>> \in R
<1> DEFINE Written(U) == \E s \in SetToSeqs(U) :
                           \A i, j \in DOMAIN s : i < j => <<s[i], s[j]>> \in R
           Bad == {U \in SUBSET S : ~Written(U)}
<1>0. ASSUME NEW U \in SUBSET S, NEW s
      PROVE  s \in SetToSeqs(U) <=> /\ s \in [1 .. Cardinality(U) -> U]
                                    /\ \A i, j \in 1 .. Cardinality(U) : i # j => s[i] # s[j]
  BY DEF SetToSeqs
<1>1. Written({})
  <2> DEFINE s == [i \in 1 .. 0 |-> 0]
  <2>1. Cardinality({}) = 0
    BY FS_EmptySet
  <2>3. 1 .. 0 = {} /\ DOMAIN s = {}
    OBVIOUS
  <2>4. s \in [1 .. Cardinality({}) -> {}]
    BY <2>1, <2>3
  <2>5. \A i, j \in 1 .. Cardinality({}) : i # j => s[i] # s[j]
    BY <2>1, <2>3
  <2> HIDE DEF s
  <2>2. s \in SetToSeqs({})
    BY <1>0, <2>4, <2>5
  <2> QED BY <2>2, <2>3
<1>2. ASSUME NEW U \in Bad PROVE \E V \in Bad : V \subseteq U /\ V # U
  <2>1. U \subseteq S /\ U # {} /\ IsFiniteSet(U)
    BY <1>1, FS_Subset
  <2>2. Orders(R, U)
    BY <2>1 DEF Orders
  <2>3. PICK z \in U : \A y \in U : y = z \/ <<y, z>> \in R
    BY <2>1, <2>2, LastExists
  <2>4. ASSUME Written(U \ {z}) PROVE Written(U)
    <3>1. PICK s \in SetToSeqs(U \ {z}) :
            \A i, j \in DOMAIN s : i < j => <<s[i], s[j]>> \in R
      BY <2>4
    <3> DEFINE n == Cardinality(U)
    <3>2. Cardinality(U \ {z}) = n - 1 /\ n \in Nat \ {0}
      BY <2>1, FS_RemoveElement, FS_CardinalityType, FS_EmptySet
    <3> HIDE DEF n
    <3>3. s \in [1 .. n - 1 -> U \ {z}] /\ \A i, j \in 1 .. n - 1 : i # j => s[i] # s[j]
      BY <1>0, <2>1, <3>1, <3>2
    <3> DEFINE t == [i \in 1 .. n |-> IF i = n THEN z ELSE s[i]]
    <3>4. \A i \in 1 .. n : i = n \/ i \in 1 .. n - 1
      BY <3>2
    <3>5. t \in [1 .. n -> U]
      BY <3>3, <3>4
    <3>6. ASSUME NEW i \in 1 .. n, NEW j \in 1 .. n, i # j PROVE t[i] # t[j]
      BY <3>3, <3>4, <3>6
    <3>7. ASSUME NEW i \in 1 .. n, NEW j \in 1 .. n, i < j PROVE <<t[i], t[j]>> \in R
      <4>1. i \in 1 .. n - 1 /\ t[i] = s[i] /\ s[i] \in U \ {z}
        BY <3>2, <3>3, <3>7
      <4>2. CASE j = n
        BY <2>3, <4>1, <4>2
      <4>3. CASE j # n
        BY <3>1, <3>3, <3>4, <3>7, <4>1, <4>3
      <4> QED BY <4>2, <4>3
    <3> HIDE DEF t
    <3>8. t \in SetToSeqs(U)
      BY <1>0, <3>5, <3>6 DEF n
    <3> QED BY <3>5, <3>7, <3>8
  <2> HIDE DEF Written
  <2>5. U \ {z} \in Bad
    BY <2>1, <2>4
  <2> QED BY <2>5
<1>3. Bad \subseteq SUBSET S
  OBVIOUS
<1> HIDE DEF Bad
<1>4. Bad = {}
  BY <1>2, <1>3, SmallestSet
<1> QED BY <1>4 DEF Bad

\* A finite set of naturals that is not empty has a greatest element, and it is one of them.
LEMMA GreatestIsOne ==
  ASSUME NEW S \in SUBSET Nat, IsFiniteSet(S), S # {}
  PROVE  Greatest(S) \in S /\ \A w \in S : w <= Greatest(S)
<1> DEFINE R == {p \in Nat \X Nat : p[1] < p[2]}
<1>1. \A x, y \in Nat : <<x, y>> \in R <=> x < y
  OBVIOUS
<1> HIDE DEF R
<1>2. Orders(R, S)
  BY <1>1 DEF Orders
<1>3. PICK z \in S : \A y \in S : y = z \/ <<y, z>> \in R
  BY <1>2, LastExists
<1>4. ASSUME NEW y \in S PROVE y <= z
  <2>1. y \in Nat /\ z \in Nat
    OBVIOUS
  <2>2. CASE y = z
    BY <2>1, <2>2
  <2>3. CASE <<y, z>> \in R
    <3>1. y < z
      BY <1>1, <2>1, <2>3
    <3> QED BY <2>1, <3>1
  <2> QED BY <1>3, <2>2, <2>3
<1> QED BY <1>4 DEF Greatest

\* Rows with amounts are listed once each, in the order that was asked for.
LEMMA SortedIsOrdered ==
  ASSUME NEW S \in SUBSET Accounts, \A a \in S : rows[a].amount.debit \in Nat, NEW f
  PROVE  /\ Sorted(S, f) \in SetToSeqs(S)
         /\ \A i, j \in DOMAIN Sorted(S, f) : i < j => Before(f, Sorted(S, f)[i], Sorted(S, f)[j])
<1> DEFINE R == {p \in S \X S : Before(f, p[1], p[2])}
           key(x) == IF f.sort = "code" THEN x ELSE rows[x].amount.debit
<1>1. \A x, y \in S : <<x, y>> \in R <=> Before(f, x, y)
  OBVIOUS
<1>2. \A x \in S : x \in Nat /\ key(x) \in Nat
  BY ConstantsAssumption
<1>3. \A x, y \in S : Before(f, x, y) <=>
        \/ key(x) = key(y) /\ x < y
        \/ IF f.ascending THEN key(x) < key(y) ELSE key(x) > key(y)
  BY DEF Before
<1> HIDE DEF R, key
<1>4. ASSUME NEW x \in S, NEW y \in S, x # y PROVE <<x, y>> \in R \/ <<y, x>> \in R
  <2>1. x < y \/ y < x
    BY <1>2, <1>4
  <2>2. key(x) < key(y) \/ key(y) < key(x) \/ key(x) = key(y)
    BY <1>2
  <2>3. Before(f, x, y) \/ Before(f, y, x)
    BY <1>2, <1>3, <2>1, <2>2
  <2> QED BY <1>1, <2>3
<1>5. \A x, y, z \in S : <<x, y>> \in R /\ <<y, z>> \in R => <<x, z>> \in R
  BY <1>1, <1>2, <1>3
<1>6. IsFiniteSet(S)
  BY ConstantsAssumption, FS_Subset
<1>7. PICK s \in SetToSeqs(S) : \A i, j \in DOMAIN s : i < j => <<s[i], s[j]>> \in R
  BY <1>4, <1>5, <1>6, SortExists DEF Orders
<1>8. DOMAIN s = 1 .. Cardinality(S) /\ \A i \in DOMAIN s : s[i] \in S
  BY <1>7 DEF SetToSeqs
<1>9. \A i, j \in DOMAIN s : i < j => Before(f, s[i], s[j])
  BY <1>1, <1>7, <1>8
<1> QED BY <1>7, <1>9 DEF Sorted

(***************************************************************************)
(* What a request reads                                                    *)
(***************************************************************************)

\* A row of a document in force has its amounts.
RowsHaveAmounts == \A a \in Accounts : rows[a].source # None => rows[a].amount \in Amount

\* A page of a sequence is a sequence of its elements, and empty when it is.
LEMMA PageIsPart ==
  ASSUME NEW S, NEW s \in Seq(S), NEW n \in Nat \ {0}
  PROVE  PageOf(s, n) \in Seq(S) /\ (s = <<>> => PageOf(s, n) = <<>>)
<1> DEFINE first == (n - 1) * PageSize + 1
           final == IF n * PageSize < Len(s) THEN n * PageSize ELSE Len(s)
<1>1. PageSize \in Nat \ {0} /\ n - 1 \in Nat /\ Len(s) \in Nat
  BY ConstantsAssumption
<1>2. (n - 1) * PageSize \in Nat /\ n * PageSize \in Nat
  BY <1>1
<1>3. first \in Nat \ {0} /\ final \in Nat /\ final <= Len(s)
  BY <1>1, <1>2
<1>4. PageOf(s, n) = SubSeq(s, first, final)
  BY DEF PageOf
<1> HIDE DEF first, final
<1>5. \A i \in first .. final : i \in 1 .. Len(s)
  BY <1>1, <1>3
<1>6. \A i \in first .. final : s[i] \in S
  BY <1>5
<1>7. PageOf(s, n) \in Seq(S)
  BY <1>3, <1>4, <1>6, SubSeqProperties
<1>8. ASSUME s = <<>> PROVE PageOf(s, n) = <<>>
  <2>1. final < first
    BY <1>3, <1>8
  <2> QED BY <1>3, <1>4, <2>1, SubSeqEmpty
<1> QED BY <1>7, <1>8

\* The reconciliation of a row is one of four, and it is unavailable exactly
\* without a ledger.
LEMMA StatusKinds ==
  ASSUME NEW l, NEW a
  PROVE  /\ StatusOf(l, a) \in Statuses
         /\ (StatusOf(l, a) = "unavailable" <=> l = None)
BY DEF StatusOf, ReconciliationStatus, Statuses

\* What matches is of what is explored: finite, with amounts.
LEMMA ExploredIsFinite ==
  ASSUME NEW v \in Versions, NEW f \in Filter, RowsHaveAmounts, NEW S \in SUBSET Explored(v, f)
  PROVE  /\ S \in SUBSET Accounts /\ IsFiniteSet(S) /\ Cardinality(S) \in Nat
         /\ \A a \in S : rows[a].amount \in Amount
<1>1. S \in SUBSET Accounts
  BY DEF Explored, Filter
<1>2. IsFiniteSet(S) /\ Cardinality(S) \in Nat
  BY <1>1, ConstantsAssumption, FS_Subset, FS_CardinalityType
<1>3. \A a \in S : rows[a].source # None
  BY ConstantsAssumption DEF Explored
<1> QED BY <1>1, <1>2, <1>3 DEF RowsHaveAmounts

\* The rows of the page are a sequence, empty when none matches.
LEMMA ShownIsPart ==
  ASSUME NEW v \in Versions, NEW f \in Filter, RowsHaveAmounts, NEW l
  PROVE  LET found == Matching(v, l, f)
             shown == PageOf(Sorted(found, f), f.page)
         IN shown \in Seq(found) /\ (found = {} => shown = <<>>)
<1> DEFINE found == Matching(v, l, f)
           s == Sorted(found, f)
<1>1. found \in SUBSET Explored(v, f)
  BY DEF Matching
<1> HIDE DEF found
<1>2. found \in SUBSET Accounts /\ Cardinality(found) \in Nat
      /\ \A a \in found : rows[a].amount.debit \in Nat
  BY <1>1, ExploredIsFinite DEF Amount
<1>3. s \in SetToSeqs(found)
  BY <1>2, SortedIsOrdered
<1>4. s \in [1 .. Cardinality(found) -> found]
  BY <1>3 DEF SetToSeqs
<1> HIDE DEF s
<1>5. s \in Seq(found) /\ Len(s) = Cardinality(found)
  BY <1>2, <1>4
<1>6. found = {} => s = <<>>
  BY <1>5, FS_EmptySet
<1>7. f.page \in Nat \ {0}
  BY DEF Filter
<1> QED BY <1>5, <1>6, <1>7, PageIsPart DEF found, s

\* The rows of an answer have their amounts and their reconciliation; an answer
\* with rows says how many match.
LEMMA ItemsTyped ==
  ASSUME NEW v \in Versions, NEW f \in Filter, RowsHaveAmounts, NEW l
  PROVE  /\ Items(v, l, f) \in [items : Listed, total : Nat]
         /\ Items(v, l, f).items # <<>> =>
              /\ Matching(v, l, f) # {}
              /\ Items(v, l, f).total = Cardinality(Matching(v, l, f))
<1> DEFINE found == Matching(v, l, f)
           shown == PageOf(Sorted(found, f), f.page)
           items == [i \in DOMAIN shown |-> <<shown[i], rows[shown[i]].amount, StatusOf(l, shown[i])>>]
           total == IF shown = <<>> THEN 0 ELSE Cardinality(found)
<1>1. shown \in Seq(found) /\ (found = {} => shown = <<>>)
  BY ShownIsPart
<1>2. Items(v, l, f) = [items |-> items, total |-> total]
  BY DEF Items
<1>3. found \in SUBSET Explored(v, f)
  BY DEF Matching
<1> HIDE DEF found
<1>4. found \in SUBSET Accounts /\ Cardinality(found) \in Nat
      /\ \A a \in found : rows[a].amount \in Amount
  BY <1>3, ExploredIsFinite
<1> HIDE DEF shown
<1>5. DOMAIN shown = 1 .. Len(shown) /\ Len(shown) \in Nat /\ \A i \in DOMAIN shown : shown[i] \in found
  BY <1>1
<1>6. \A a : StatusOf(l, a) \in Statuses
  BY StatusKinds
<1>7. \A i \in 1 .. Len(shown) :
        <<shown[i], rows[shown[i]].amount, StatusOf(l, shown[i])>> \in Accounts \X Amount \X Statuses
  BY <1>4, <1>5, <1>6
<1>8. items \in [1 .. Len(shown) -> Accounts \X Amount \X Statuses]
  BY <1>5, <1>7
<1>9. items \in Listed
  BY <1>5, <1>8 DEF Listed
<1>10. total \in Nat
  BY <1>4
<1>11. items # <<>> => shown # <<>>
  BY <1>5, <1>8
<1> HIDE DEF items
<1> QED BY <1>1, <1>2, <1>9, <1>10, <1>11 DEF found

\* The counts and the sum of a summary are naturals.
LEMMA SummaryTyped ==
  ASSUME NEW v \in Versions, NEW f \in Filter, RowsHaveAmounts, NEW l
  PROVE  Summary(v, l, f) \in [accounts : Nat, reconciled : Nat, differences : Nat,
                               noLedger : Nat, debits : Nat]
<1> DEFINE of == Explored(v, f)
           count(s) == Cardinality({a \in of : StatusOf(l, a) = s})
           sum == SumOf(LAMBDA a : rows[a].amount.debit, of)
<1>1. Summary(v, l, f) =
        [accounts |-> Cardinality(of), reconciled |-> count("reconciled"),
         differences |-> count("difference"), noLedger |-> count("no_ledger"), debits |-> sum]
  BY DEF Summary
<1>2. \A s : count(s) \in Nat
  BY ExploredIsFinite
<1>3. Cardinality(of) \in Nat /\ IsFiniteSet(of) /\ \A a \in of : rows[a].amount.debit \in Nat
  BY ExploredIsFinite DEF Amount
<1> HIDE DEF of, count
<1>4. sum \in Nat
  BY <1>3, RowDebitsAreNatural
<1> HIDE DEF sum
<1> QED BY <1>1, <1>2, <1>3, <1>4

\* The list and the summary count the same rows, whatever status is asked for.
LEMMA CountsAgree ==
  ASSUME NEW v, NEW f \in Filter, NEW l, Matching(v, l, f) # {}
  PROVE  LET total == Cardinality(Matching(v, l, f))
             summary == Summary(v, l, f)
         IN total = IF f.status = "all" THEN summary.accounts
                    ELSE IF f.status = "reconciled" THEN summary.reconciled
                    ELSE IF f.status = "difference" THEN summary.differences
                    ELSE IF f.status = "no_ledger" THEN summary.noLedger
                    ELSE summary.accounts
<1> DEFINE of == Explored(v, f)
           count(s) == Cardinality({a \in of : StatusOf(l, a) = s})
           summary == Summary(v, l, f)
<1>1. /\ summary.accounts = Cardinality(of) /\ summary.reconciled = count("reconciled")
      /\ summary.differences = count("difference") /\ summary.noLedger = count("no_ledger")
  BY DEF Summary
<1>2. f.status \in {"all"} \cup Statuses
  BY DEF Filter, Statuses
<1>3. CASE f.status = "all"
  <2>1. Matching(v, l, f) = of
    BY <1>3 DEF Matching
  <2> QED BY <1>1, <1>3, <2>1
<1>4. CASE f.status \in {"reconciled", "difference", "no_ledger"}
  <2>1. Matching(v, l, f) = {a \in of : StatusOf(l, a) = f.status}
    BY <1>4 DEF Matching
  <2>2. Cardinality(Matching(v, l, f)) = count(f.status)
    BY <2>1
  <2> HIDE DEF count
  <2>3. CASE f.status = "reconciled"
    BY <1>1, <2>2, <2>3
  <2>4. CASE f.status = "difference"
    BY <1>1, <2>2, <2>4
  <2>5. CASE f.status = "no_ledger"
    BY <1>1, <2>2, <2>5
  <2> QED BY <1>4, <2>3, <2>4, <2>5
<1>5. CASE f.status = "unavailable"
  <2>1. l = None
    BY <1>5, StatusKinds DEF Matching
  <2>2. Matching(v, l, f) = of
    BY <1>5, <2>1, StatusKinds DEF Matching
  <2> QED BY <1>1, <1>5, <2>2
<1> QED BY <1>2, <1>3, <1>4, <1>5 DEF Statuses

(***************************************************************************)
(* The inductive invariant                                                 *)
(***************************************************************************)

\* The opening balance is there and is the closing of the year before.
OpensAsClosed == opening # None /\ ~Warning

SaysReady(answer) == answer.completion = "ready_for_accounting_review"

\* "ready" is said, or is about to be said, only of such an opening.
Controlled ==
  /\ call.step = "items" /\ SaysReady(call) => OpensAsClosed
  /\ \A f \in Filters : cache[f] # None /\ SaysReady(cache[f]) => OpensAsClosed

\* While nothing has changed since the request began, a list that has rows says
\* how many match in the tables.
ReadTogether ==
  call.step = "items" /\ ~doubt /\ call.read.items # <<>> =>
    /\ Matching(call.document, call.ledger, call.filters) # {}
    /\ call.read.total = Cardinality(Matching(call.document, call.ledger, call.filters))

IInv == TypeOK /\ RowsHaveAmounts /\ Controlled /\ ReadTogether /\ AnswersAgree

\* The steps that change the tables.
Changes == PublishClosing \/ DiscardClosing \/ PublishLedger

\* The kinds of requests tell themselves apart by their step.
LEMMA RequestKinds ==
  ASSUME call \in Request
  PROVE  /\ call.step = "idle" => call = Idle
         /\ call.step = "sent" => call.filters \in Filters
         /\ call.step = "sources" =>
              /\ call.filters \in Filters /\ call.ledger \in Ledgers \cup {None}
              /\ call.document \in Versions \cup {None}
         /\ call.step = "items" =>
              /\ call.filters \in Filters /\ call.ledger \in Ledgers \cup {None}
              /\ call.document \in Versions /\ call.completion \in Completions
              /\ call.read \in [items : Listed, total : Nat]
         /\ call.step # "idle" => call # Idle
<1>1. CASE call = Idle
  BY <1>1 DEF Idle
<1>2. CASE \E f \in Filters : call = Sending(f)
  BY <1>2 DEF Sending, Idle
<1>3. CASE call \in [step : {"sources"}, filters : Filters, ledger : Ledgers \cup {None},
                     document : Versions \cup {None}]
  BY <1>3 DEF Idle
<1>4. CASE call \in [step : {"items"}, filters : Filters, ledger : Ledgers \cup {None},
                     document : Versions, completion : Completions,
                     read : [items : Listed, total : Nat]]
  BY <1>4 DEF Idle
<1> QED BY <1>1, <1>2, <1>3, <1>4 DEF Request

\* Every completion is one of five, and "ready" is said without a warning.
LEMMA CompletionKinds ==
  ASSUME NEW v, NEW l
  PROVE  /\ Completion(v, l, Warning) \in Completions
         /\ Completion(v, l, Warning) = "ready_for_accounting_review" => OpensAsClosed
BY DEF Completion, Completions, OpensAsClosed

\* The control reads the opening balance and the previous closing, and nothing else.
LEMMA ControlStays ==
  ASSUME UNCHANGED <<opening, previous>>
  PROVE  OpensAsClosed' <=> OpensAsClosed
<1>1. Control' = Control
  BY DEF Control
<1>2. Warning' <=> Warning
  BY <1>1 DEF Warning
<1> QED BY <1>2 DEF OpensAsClosed

\* The last usable version is one of the versions.
LEMMA SourceIsVersion ==
  ASSUME NEW d
  PROVE  ClosingSource(d) \in Versions \cup {None}
<1>1. Usable \in SUBSET Nat /\ Usable \subseteq Versions /\ IsFiniteSet(Usable)
  BY ConstantsAssumption, FS_Subset DEF Usable
<1>2. CASE Usable = {}
  BY <1>1, <1>2 DEF ClosingSource
<1>3. CASE Usable # {}
  <2>1. Greatest(Usable) \in Usable
    BY <1>1, <1>3, GreatestIsOne
  <2> QED BY <1>1, <2>1 DEF ClosingSource
<1> QED BY <1>2, <1>3

\* A publication and a discard keep the versions, the rows and the ledger typed,
\* and give every row in force its amounts.
LEMMA TablesStep ==
  ASSUME IInv, Changes
  PROVE  /\ closing' \in [Versions -> Document] /\ rows' \in [Accounts -> Row]
         /\ ledger' \in Ledgers \cup {None} /\ RowsHaveAmounts'
<1> USE DEF IInv, TypeOK
<1>1. CASE PublishClosing
  <2>1. PICK v \in Versions, b \in Balances : Publish(v, b)
    BY <1>1 DEF PublishClosing
  <2>2. closing' \in [Versions -> Document]
    <3>1. \A w \in Versions : closing[w] \in Document
      OBVIOUS
    <3>2. \A w \in Versions : [closing[w] EXCEPT !.status = "superseded"] \in Document
      BY <3>1 DEF Document
    <3>3. [status |-> "processed", entries |-> b] \in Document
      BY DEF Document
    <3> QED BY <2>1, <3>1, <3>2, <3>3 DEF Publish
  <2>3. ASSUME NEW a \in Accounts
        PROVE  /\ rows'[a] \in Row
               /\ rows'[a].source # None => rows'[a].amount \in Amount
    <3>1. rows[a] \in Row /\ (rows[a].source # None => rows[a].amount \in Amount)
      BY DEF RowsHaveAmounts
    <3>2. CASE b[a] # None
      <4>1. rows'[a] = [source |-> v, amount |-> b[a], discarded |-> FALSE]
        BY <2>1, <3>2 DEF Publish
      <4>2. b[a] \in Amount
        BY <3>2, ConstantsAssumption
      <4> QED BY <4>1, <4>2 DEF Row
    <3>3. CASE b[a] = None /\ rows[a].source # None
      <4>1. rows'[a] = [rows[a] EXCEPT !.discarded = TRUE]
        BY <2>1, <3>3 DEF Publish
      <4> QED BY <3>1, <4>1 DEF Row
    <3>4. CASE b[a] = None /\ rows[a].source = None
      <4>1. rows'[a] = rows[a]
        BY <2>1, <3>4 DEF Publish
      <4> QED BY <3>1, <4>1
    <3> QED BY <3>2, <3>3, <3>4
  <2>4. rows' \in [Accounts -> Row]
    <3>1. DOMAIN rows' = Accounts /\ rows' = [a \in Accounts |-> rows'[a]]
      BY <2>1 DEF Publish
    <3> QED BY <2>3, <3>1
  <2> QED BY <1>1, <2>2, <2>3, <2>4 DEF PublishClosing, RowsHaveAmounts
<1>2. CASE DiscardClosing
  <2>1. PICK v \in Versions : Discard(v)
    BY <1>2 DEF DiscardClosing
  <2>2. closing' \in [Versions -> Document]
    <3>1. [closing[v] EXCEPT !.status = "discarded"] \in Document
      BY DEF Document
    <3>2. closing' = [closing EXCEPT ![v] = [closing[v] EXCEPT !.status = "discarded"]]
      BY <2>1 DEF Discard
    <3> QED BY <3>1, <3>2
  <2>3. ASSUME NEW a \in Accounts
        PROVE  /\ rows'[a] \in Row
               /\ rows'[a].source # None => rows'[a].amount \in Amount
    <3>1. rows[a] \in Row /\ (rows[a].source # None => rows[a].amount \in Amount)
      BY DEF RowsHaveAmounts
    <3>2. rows'[a] = [rows[a] EXCEPT !.discarded = TRUE] \/ rows'[a] = rows[a]
      BY <2>1 DEF Discard
    <3>3. CASE rows'[a] = [rows[a] EXCEPT !.discarded = TRUE]
      BY <3>1, <3>3 DEF Row
    <3>4. CASE rows'[a] = rows[a]
      BY <3>1, <3>4
    <3> QED BY <3>2, <3>3, <3>4
  <2>4. rows' \in [Accounts -> Row]
    <3>1. DOMAIN rows' = Accounts /\ rows' = [a \in Accounts |-> rows'[a]]
      BY <2>1 DEF Discard
    <3> QED BY <2>3, <3>1
  <2> QED BY <1>2, <2>2, <2>3, <2>4 DEF DiscardClosing, RowsHaveAmounts
<1>3. CASE PublishLedger
  BY <1>3 DEF PublishLedger, RowsHaveAmounts
<1> QED BY <1>1, <1>2, <1>3 DEF Changes

(***************************************************************************)
(* Every step keeps it                                                     *)
(***************************************************************************)

\* An answer to filters f of tables that did not change counts what it lists.
Agrees(f, answer) ==
  ~answer.torn /\ answer.items # <<>> =>
    answer.total = IF f.status = "all" THEN answer.summary.accounts
                   ELSE IF f.status = "reconciled" THEN answer.summary.reconciled
                   ELSE IF f.status = "difference" THEN answer.summary.differences
                   ELSE IF f.status = "no_ledger" THEN answer.summary.noLedger
                   ELSE answer.summary.accounts

\* AnswersAgree is said of one answer at a time.
LEMMA AgreementByAnswer ==
  AnswersAgree <=> \A f \in Filters : cache[f] # None => Agrees(f, cache[f])
BY DEF AnswersAgree, Agrees

\* Every set of filters is a filter, and so is what the page asks for.
LEMMA FiltersAreTyped ==
  /\ \A f \in Filters : f \in Filter
  /\ NoFilter \in Filters
BY FiltersAssumption

\* What matches depends on the rows and on the request.
LEMMA MatchingStays ==
  ASSUME UNCHANGED rows, call'.document = call.document, call'.ledger = call.ledger,
         call'.filters = call.filters
  PROVE  Matching(call.document, call.ledger, call.filters)'
           = Matching(call.document, call.ledger, call.filters)
BY DEF Matching, Explored, StatusOf

\* The initial states.
LEMMA IInvInit == ASSUME Init PROVE IInv
<1> USE FiltersAreTyped DEF Init
<1>1. TypeOK
  <2>1. closing \in [Versions -> Document]
    BY DEF Document
  <2>2. rows \in [Accounts -> Row]
    BY DEF Row, NoRow
  <2>3. call \in Request
    BY DEF Request
  <2>4. cache \in [Filters -> Answer \cup {None}]
    OBVIOUS
  <2>5. ledger \in Ledgers \cup {None}
    OBVIOUS
  <2> QED BY <2>1, <2>2, <2>3, <2>4, <2>5 DEF TypeOK
<1>2. RowsHaveAmounts
  BY DEF RowsHaveAmounts, NoRow
<1>3. call.step = "sent"
  BY DEF Sending
<1>4. Controlled
  BY <1>3 DEF Controlled
<1>5. ReadTogether
  BY <1>3 DEF ReadTogether
<1>6. AnswersAgree
  BY DEF AnswersAgree
<1> QED BY <1>1, <1>2, <1>4, <1>5, <1>6 DEF IInv

\* A publication or a discard leaves what was read in doubt.
LEMMA ChangesStep == ASSUME IInv, Changes PROVE IInv'
<1>1. /\ UNCHANGED <<opening, previous, call, filters, cache, last, choices>>
      /\ changes' = changes + 1 /\ doubt' = (call # Idle)
  BY DEF Changes, PublishClosing, DiscardClosing, PublishLedger, Change, page
<1>2. TypeOK'
  <2>1. /\ closing' \in [Versions -> Document] /\ rows' \in [Accounts -> Row]
        /\ ledger' \in Ledgers \cup {None}
    BY TablesStep
  <2>2. doubt' \in BOOLEAN /\ changes' \in Nat
    BY <1>1 DEF IInv, TypeOK
  <2> QED BY <1>1, <2>1, <2>2 DEF IInv, TypeOK
<1>3. RowsHaveAmounts'
  BY TablesStep
<1>4. Controlled'
  <2>1. OpensAsClosed' <=> OpensAsClosed
    BY <1>1, ControlStays
  <2> QED BY <1>1, <2>1 DEF IInv, Controlled, SaysReady
<1>5. ReadTogether'
  <2>1. call.step = "items" => call # Idle
    BY RequestKinds DEF IInv, TypeOK
  <2>2. call'.step = "items" => doubt'
    BY <1>1, <2>1
  <2> QED BY <2>2 DEF ReadTogether
<1>6. AnswersAgree'
  BY <1>1 DEF IInv, AnswersAgree
<1> QED BY <1>2, <1>3, <1>4, <1>5, <1>6 DEF IInv

\* A step that leaves the tables and the answers alone, and reads no list.
LEMMA RequestStep ==
  ASSUME IInv, UNCHANGED <<tables, cache>>, call' \in Request,
         call'.step = "items" => UNCHANGED <<call, doubt>>,
         filters' \in Filters, last' \in Filters,
         changes' \in Nat, choices' \in Nat, doubt' \in BOOLEAN
  PROVE  IInv'
<1>1. UNCHANGED <<closing, rows, ledger, opening, previous, cache>>
  BY DEF tables
<1>2. TypeOK'
  BY <1>1 DEF IInv, TypeOK
<1>3. RowsHaveAmounts'
  BY <1>1 DEF IInv, RowsHaveAmounts
<1>4. Controlled'
  <2>1. OpensAsClosed' <=> OpensAsClosed
    BY <1>1, ControlStays
  <2> QED BY <1>1, <2>1 DEF IInv, Controlled, SaysReady
<1>5. ReadTogether'
  <2> SUFFICES ASSUME call'.step = "items" PROVE ReadTogether'
    BY DEF ReadTogether
  <2>1. Matching(call.document, call.ledger, call.filters)'
          = Matching(call.document, call.ledger, call.filters)
    BY <1>1, MatchingStays
  <2> QED BY <2>1 DEF IInv, ReadTogether
<1>6. AnswersAgree'
  BY <1>1 DEF IInv, AnswersAgree
<1> QED BY <1>2, <1>3, <1>4, <1>5, <1>6 DEF IInv

\* An answer arrives, and a request for other filters may follow.
LEMMA AnswerStep ==
  ASSUME IInv, UNCHANGED <<tables, filters, changes, choices>>, call.filters \in Filters,
         NEW answer \in Answer, Answered(answer), SaysReady(answer) => OpensAsClosed,
         Agrees(call.filters, answer)
  PROVE  IInv'
<1>1. UNCHANGED <<closing, rows, ledger, opening, previous, filters, changes, choices>>
  BY DEF tables
<1>2. cache' = [cache EXCEPT ![call.filters] = answer] /\ doubt' = FALSE
  BY DEF Answered
<1>3. call' \in Request /\ call'.step # "items"
  <2>1. call' = Idle \/ call' = Sending(filters)
    BY DEF Answered
  <2> QED BY <2>1 DEF IInv, TypeOK, Request, Sending, Idle
<1>4. \A f \in Filters : cache'[f] = IF f = call.filters THEN answer ELSE cache[f]
  BY <1>2 DEF IInv, TypeOK
<1>5. TypeOK'
  <2>1. cache' \in [Filters -> Answer \cup {None}]
    BY <1>2 DEF IInv, TypeOK
  <2>2. last' \in Filters
    BY DEF Answered, IInv, TypeOK
  <2> QED BY <1>1, <1>2, <1>3, <2>1, <2>2 DEF IInv, TypeOK
<1>6. RowsHaveAmounts'
  BY <1>1 DEF IInv, RowsHaveAmounts
<1>7. Controlled'
  <2>1. OpensAsClosed' <=> OpensAsClosed
    BY <1>1, ControlStays
  <2>2. ASSUME NEW f \in Filters, cache'[f] # None, SaysReady(cache'[f]) PROVE OpensAsClosed
    BY <1>4, <2>2 DEF IInv, Controlled
  <2> QED BY <1>3, <2>1, <2>2 DEF Controlled, SaysReady
<1>8. ReadTogether'
  BY <1>3 DEF ReadTogether
<1>9. AnswersAgree'
  <2>1. \A f \in Filters : cache[f] # None => Agrees(f, cache[f])
    BY AgreementByAnswer DEF IInv
  <2>2. \A f \in Filters : cache'[f] # None => Agrees(f, cache'[f])
    BY <1>4, <2>1
  <2> QED BY <2>2 DEF AnswersAgree, Agrees
<1> QED BY <1>5, <1>6, <1>7, <1>8, <1>9 DEF IInv

\* The sources of a request are resolved.
LEMMA ResolveStep == ASSUME IInv, ResolveSources PROVE IInv'
<1>1. /\ UNCHANGED <<tables, cache, filters, last, changes, choices, doubt>>
      /\ call.filters \in Filters
      /\ call' = [step |-> "sources", filters |-> call.filters, ledger |-> ledger,
                  document |-> ClosingSource(call.filters.document)]
  BY RequestKinds DEF ResolveSources, page, IInv, TypeOK
<1>2. ClosingSource(call.filters.document) \in Versions \cup {None}
  BY SourceIsVersion
<1>3. call' \in [step : {"sources"}, filters : Filters, ledger : Ledgers \cup {None},
                 document : Versions \cup {None}]
  BY <1>1, <1>2 DEF IInv, TypeOK
<1>4. call' \in Request /\ call'.step # "items"
  BY <1>3 DEF Request
<1> QED BY <1>1, <1>4, RequestStep DEF IInv, TypeOK

\* Without a closing balance the answer lists nothing.
LEMMA NoBalanceStep == ASSUME IInv, NoBalance PROVE IInv'
<1> DEFINE answer == [document |-> None, completion |-> Completion(None, call.ledger, Warning),
                      items |-> <<>>, total |-> 0, summary |-> NoSummary, torn |-> doubt]
<1>1. /\ UNCHANGED <<tables, filters, changes, choices>>
      /\ call.filters \in Filters /\ Answered(answer)
  BY RequestKinds DEF NoBalance, IInv, TypeOK
<1>2. answer \in Answer
  <2>1. Completion(None, call.ledger, Warning) \in Completions
    BY CompletionKinds
  <2>2. <<>> \in Listed
    BY DEF Listed
  <2> QED BY <2>1, <2>2 DEF Answer, NoSummary, IInv, TypeOK
<1>3. SaysReady(answer) => OpensAsClosed
  BY CompletionKinds DEF SaysReady
<1>4. Agrees(call.filters, answer)
  BY DEF Agrees
<1> HIDE DEF answer
<1> QED BY <1>1, <1>2, <1>3, <1>4, AnswerStep

\* The list is read.
LEMMA ReadItemsStep == ASSUME IInv, ReadItems PROVE IInv'
<1> DEFINE v == call.document
           l == call.ledger
           f == call.filters
           list == Items(v, l, f)
           said == Completion(v, l, Warning)
<1>1. /\ UNCHANGED <<closing, rows, ledger, opening, previous, cache, filters, last,
                     changes, choices, doubt>>
      /\ v \in Versions /\ l \in Ledgers \cup {None} /\ f \in Filters
      /\ call' = [step |-> "items", filters |-> f, ledger |-> l, document |-> v,
                  completion |-> said, read |-> list]
  BY RequestKinds DEF ReadItems, tables, page, IInv, TypeOK
<1>2. /\ list \in [items : Listed, total : Nat]
      /\ list.items # <<>> =>
           Matching(v, l, f) # {} /\ list.total = Cardinality(Matching(v, l, f))
  BY <1>1, FiltersAreTyped, ItemsTyped DEF IInv
<1>3. said \in Completions /\ (said = "ready_for_accounting_review" => OpensAsClosed)
  BY CompletionKinds
<1>4. ReadTogether'
  <2>1. call'.document = v /\ call'.ledger = l /\ call'.filters = f /\ call'.read = list
    BY <1>1
  <2>2. Matching(call.document, call.ledger, call.filters)' = Matching(v, l, f)
    BY <1>1, <2>1, MatchingStays
  <2> HIDE DEF list
  <2> QED BY <1>2, <2>1, <2>2 DEF ReadTogether
<1>5. Controlled'
  <2>1. OpensAsClosed' <=> OpensAsClosed
    BY <1>1, ControlStays
  <2>2. call'.completion = said
    BY <1>1
  <2> HIDE DEF said
  <2> QED BY <1>1, <1>3, <2>1, <2>2 DEF IInv, Controlled, SaysReady
<1>6. TypeOK'
  <2> HIDE DEF list, said, v, l, f
  <2>1. call' \in [step : {"items"}, filters : Filters, ledger : Ledgers \cup {None},
                   document : Versions, completion : Completions,
                   read : [items : Listed, total : Nat]]
    BY <1>1, <1>2, <1>3
  <2>2. call' \in Request
    BY <2>1 DEF Request
  <2> QED BY <1>1, <2>2 DEF IInv, TypeOK
<1>7. RowsHaveAmounts'
  BY <1>1 DEF IInv, RowsHaveAmounts
<1>8. AnswersAgree'
  BY <1>1 DEF IInv, AnswersAgree
<1> QED BY <1>4, <1>5, <1>6, <1>7, <1>8 DEF IInv

\* The summary is read after the list, and the answer has both.
LEMMA ReadSummaryStep == ASSUME IInv, ReadSummary PROVE IInv'
<1> DEFINE v == call.document
           l == call.ledger
           f == call.filters
           summary == Summary(v, l, f)
           answer == [document |-> v, completion |-> call.completion,
                      items |-> call.read.items, total |-> call.read.total,
                      summary |-> summary, torn |-> doubt]
<1>1. /\ call.step = "items" /\ UNCHANGED <<tables, filters, changes, choices>>
      /\ v \in Versions /\ l \in Ledgers \cup {None} /\ f \in Filters
      /\ call.completion \in Completions /\ call.read \in [items : Listed, total : Nat]
      /\ Answered(answer)
  BY RequestKinds DEF ReadSummary, IInv, TypeOK
<1>2. summary \in [accounts : Nat, reconciled : Nat, differences : Nat, noLedger : Nat,
                   debits : Nat]
  BY <1>1, FiltersAreTyped, SummaryTyped DEF IInv
<1>3. answer \in Answer
  <2> HIDE DEF summary, v, l, f
  <2> QED BY <1>1, <1>2 DEF Answer, IInv, TypeOK
<1>4. SaysReady(answer) => OpensAsClosed
  BY <1>1 DEF SaysReady, Controlled, IInv
<1>5. Agrees(f, answer)
  <2> SUFFICES ASSUME ~doubt, call.read.items # <<>> PROVE Agrees(f, answer)
    BY DEF Agrees
  <2>1. Matching(v, l, f) # {} /\ call.read.total = Cardinality(Matching(v, l, f))
    BY <1>1 DEF IInv, ReadTogether
  <2>2. f \in Filter
    BY <1>1, FiltersAreTyped
  <2>3. Cardinality(Matching(v, l, f))
          = IF f.status = "all" THEN summary.accounts
            ELSE IF f.status = "reconciled" THEN summary.reconciled
            ELSE IF f.status = "difference" THEN summary.differences
            ELSE IF f.status = "no_ledger" THEN summary.noLedger
            ELSE summary.accounts
    BY <2>1, <2>2, CountsAgree
  <2> HIDE DEF summary, v, l, f
  <2> QED BY <2>1, <2>3 DEF Agrees, v, l, f
<1> HIDE DEF answer
<1> QED BY <1>1, <1>3, <1>4, <1>5, AnswerStep

\* The user chooses filters.
LEMMA ChooseStep == ASSUME IInv, NEW g \in Filters, ChooseFilters(g) PROVE IInv'
<1>1. /\ UNCHANGED <<tables, cache, changes, doubt>> /\ filters' = g /\ choices' = choices + 1
      /\ call' = call \/ call' = Sending(g)
      /\ last' = g \/ last' = last
  BY DEF ChooseFilters
<1>2. call' \in Request /\ (call'.step = "items" => call' = call)
  BY <1>1 DEF Request, Sending, IInv, TypeOK
<1> QED BY <1>1, <1>2, RequestStep DEF IInv, TypeOK

\* The user opens a version of the history: the page forgets its answers.
LEMMA OpenStep == ASSUME IInv, NEW v \in Versions, OpenVersion(v) PROVE IInv'
<1>1. /\ UNCHANGED <<closing, rows, ledger, opening, previous, changes, doubt>>
      /\ filters' \in Filters /\ last' = filters' /\ choices' = choices + 1
      /\ cache' = [f \in Filters |-> None] /\ call' = Sending(filters')
  BY DEF OpenVersion, tables
<1>2. call' \in Request /\ call'.step # "items"
  BY <1>1 DEF Request, Sending
<1>3. TypeOK'
  BY <1>1, <1>2 DEF IInv, TypeOK
<1>4. RowsHaveAmounts'
  BY <1>1 DEF IInv, RowsHaveAmounts
<1>5. Controlled' /\ ReadTogether' /\ AnswersAgree'
  BY <1>1, <1>2 DEF Controlled, ReadTogether, AnswersAgree
<1> QED BY <1>3, <1>4, <1>5 DEF IInv

\* Every step keeps the invariant.
LEMMA IInvStep == ASSUME IInv, [Next]_vars PROVE IInv'
<1>1. CASE Changes
  BY <1>1, ChangesStep
<1>2. CASE ResolveSources
  BY <1>2, ResolveStep
<1>3. CASE NoBalance
  BY <1>3, NoBalanceStep
<1>4. CASE ReadItems
  BY <1>4, ReadItemsStep
<1>5. CASE ReadSummary
  BY <1>5, ReadSummaryStep
<1>6. CASE \E f \in Filters : ChooseFilters(f)
  BY <1>6, ChooseStep
<1>7. CASE \E v \in Versions : OpenVersion(v)
  BY <1>7, OpenStep
<1>8. CASE UNCHANGED vars
  <2>1. UNCHANGED <<tables, cache, call, filters, last, changes, choices, doubt>>
    BY <1>8 DEF vars, page
  <2> QED BY <2>1, RequestStep DEF IInv, TypeOK
<1> QED BY <1>1, <1>2, <1>3, <1>4, <1>5, <1>6, <1>7, <1>8 DEF Next, Changes

(***************************************************************************)
(* The theorems                                                            *)
(***************************************************************************)

\* The invariant holds of every behaviour of the explorer.
THEOREM ExplorerInvariant == Spec => []IInv
<1>1. Init => IInv
  BY IInvInit
<1>2. IInv /\ [Next]_vars => IInv'
  BY IInvStep
<1> QED BY <1>1, <1>2, PTL DEF Spec

\* The tables, the requests and the answers of the explorer have their types: every
\* sum and count is a natural, every page a sequence of rows with their amounts.
THEOREM TypesOfExplorer == Spec => []TypeOK
<1>1. IInv => TypeOK
  BY DEF IInv
<1> QED BY <1>1, ExplorerInvariant, PTL

\* "Ready" is never said of a period whose opening balance is not, account by
\* account and in both directions, the closing processed the year before.
THEOREM ReadyPeriodsOpenAsClosed == Spec => []ReadyOpensAsClosed
<1>1. ASSUME IInv PROVE ReadyOpensAsClosed
  <2> SUFFICES ASSUME NEW f \in Filters, cache[f] # None,
                      cache[f].completion = "ready_for_accounting_review",
                      previous.status = "processed"
               PROVE  /\ opening # None
                      /\ Mentioned(opening) = Mentioned(previous.entries)
                      /\ \A a \in Mentioned(opening) :
                           SameAmount(opening[a], previous.entries[a])
    BY DEF ReadyOpensAsClosed
  <2>1. opening # None /\ ~Warning
    BY <1>1 DEF IInv, Controlled, SaysReady, OpensAsClosed
  <2>2. Control = Compared(opening, previous.entries)
    BY <2>1 DEF Control
  <2> DEFINE o == opening
             p == previous.entries
  <2>3. \A a \in Mentioned(o) \cup Mentioned(p) : Compared(o, p)[a] = "matching"
    BY <2>1, <2>2 DEF Warning, Compared
  <2>4. ASSUME NEW a \in Mentioned(o) \cup Mentioned(p)
        PROVE  o[a] # None /\ p[a] # None /\ SameAmount(o[a], p[a])
    BY <2>3 DEF Compared
  <2> HIDE DEF o, p
  <2>5. Mentioned(o) = Mentioned(p)
    BY <2>4 DEF Mentioned
  <2> QED BY <2>1, <2>4, <2>5 DEF o, p
<1>2. IInv => ReadyOpensAsClosed
  BY <1>1
<1> QED BY <1>2, ExplorerInvariant, PTL

\* The rows of an answer and its counts are of the same balance, for every status
\* asked for, as long as nothing changed while it was computed.
THEOREM ListsAgreeWithSummaries == Spec => []AnswersAgree
<1>1. IInv => AnswersAgree
  BY DEF IInv
<1> QED BY <1>1, ExplorerInvariant, PTL

\* An account that is called reconciled runs, movement by movement, to the balance
\* of its row, within the tolerance of both sides: the sums are those of any finite
\* set of movements.
THEOREM ReconciledAccountsRunToBalance == Spec => []ReconciledRunsToBalance
<1> DEFINE all == [from |-> None, to |-> None]
<1>1. ASSUME IInv PROVE ReconciledRunsToBalance
  <2> SUFFICES ASSUME NEW v \in Usable, NEW a \in Accounts,
                      a \in Explored(v, NoFilter), StatusOf(ledger, a) = "reconciled",
                      NEW m \in DOMAIN GeneralLedger(a, all),
                      \A n \in DOMAIN GeneralLedger(a, all) : Earlier(n, m)
               PROVE  GeneralLedger(a, all)[m] - (rows[a].amount.debit - rows[a].amount.credit)
                        \in -(2 * Tolerance) .. 2 * Tolerance
    BY DEF ReconciledRunsToBalance
  <2> DEFINE S == Movements(ledger, a)
             d == rows[a].amount.debit
             c == rows[a].amount.credit
  <2>1. ledger # None /\ Near(d, Debits(S)) /\ Near(c, Credits(S))
    BY DEF StatusOf, ReconciliationStatus
  <2>2. ledger \in Ledgers
    BY <1>1, <2>1 DEF IInv, TypeOK
  <2>3. IsFiniteSet(S) /\ S \subseteq Movement
    BY <2>2, ConstantsAssumption, FS_Subset DEF Movements
  <2>4. Debits(S) \in Nat /\ Credits(S) \in Nat
    <3>1. \A x \in S : x.debit \in Nat /\ x.credit \in Nat
      BY <2>3 DEF Movement
    <3> QED BY <2>3, <3>1, DebitsAreNatural, CreditsAreNatural
  <2>5. d \in Nat /\ c \in Nat
    <3>1. rows[a].source # None
      BY ConstantsAssumption DEF Explored, Usable
    <3>2. rows[a].amount \in Amount
      BY <1>1, <3>1 DEF IInv, RowsHaveAmounts
    <3> QED BY <3>2 DEF Amount
  <2>6. {x \in S : Between(x, all)} = S
    BY DEF Between
  <2>7. GeneralLedger(a, all) = [x \in S |-> RunningBalance(S, x)]
    BY <2>1, <2>6 DEF GeneralLedger
  <2>8. m \in S /\ {n \in S : Earlier(n, m)} = S
    BY <2>7
  <2>9. GeneralLedger(a, all)[m] = Debits(S) - Credits(S)
    BY <2>7, <2>8 DEF RunningBalance
  <2> HIDE DEF S, d, c, all
  <2> QED BY <2>1, <2>4, <2>5, <2>9 DEF Near, Tolerance, d, c
<1>2. IInv => ReconciledRunsToBalance
  BY <1>1
<1> QED BY <1>2, ExplorerInvariant, PTL

=============================================================================
