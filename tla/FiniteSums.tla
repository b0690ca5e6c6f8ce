----------------------------- MODULE FiniteSums -----------------------------
(***************************************************************************)
(* Numbers and sums over finite sets: the facts that PredictionBootstrap's *)
(* count of what was learned rests on, and the induction with which        *)
(* AutosuggestProofs joins sequences.                                      *)
(*                                                                         *)
(* Induction is had from the library's well-founded orders, which speak of *)
(* sets only: a property of numbers is the set of numbers that have it.    *)
(***************************************************************************)
EXTENDS Integers, Sequences, FiniteSets, FiniteSetsExt, FiniteSetTheorems,
        WellFoundedInduction, TLAPS

Below == {ss \in Nat \X Nat : ss[1] < ss[2]}

\* A set of numbers that is not empty has a least one.
LEMMA LeastNumber ==
  ASSUME NEW T \in SUBSET Nat, T # {}
  PROVE  \E x \in T : \A y \in T : x <= y
<1>1. IsWellFoundedOn(Below, Nat)
  BY NatLessThanWellFounded DEF OpToRel, Below
<1>2. PICK x \in T : \A y \in T : ~ (<<y, x>> \in Below)
  BY <1>1, WFMin
<1>3. ASSUME NEW y \in T, y < x PROVE FALSE
  <2>1. <<y, x>> \in Nat \X Nat /\ <<y, x>>[1] < <<y, x>>[2]
    BY <1>3
  <2> QED
    BY <1>2, <2>1 DEF Below
<1> QED
  BY <1>3

\* A bounded one has a greatest one.
LEMMA GreatestNumber ==
  ASSUME NEW T \in SUBSET Nat, T # {}, NEW b \in Nat, \A x \in T : x <= b
  PROVE  \E x \in T : \A y \in T : x >= y
<1> DEFINE R == {b - x : x \in T}
<1>1. R \in SUBSET Nat /\ R # {}
  <2>1. \A x \in T : b - x \in Nat
    OBVIOUS
  <2> QED
    BY <2>1
<1>2. PICK r \in R : \A y \in R : r <= y
  BY <1>1, LeastNumber
<1>3. PICK x \in T : r = b - x
  OBVIOUS
<1>4. \A y \in T : b - x <= b - y
  BY <1>2, <1>3
<1> QED
  BY <1>4

\* The maximum of a bounded set of numbers is one of them, and the greatest.
LEMMA MaxOfBounded ==
  ASSUME NEW T \in SUBSET Nat, T # {}, NEW b \in Nat, \A x \in T : x <= b
  PROVE  Max(T) \in T /\ \A y \in T : Max(T) >= y
  BY GreatestNumber DEF Max

\* A set of numbers with zero and with every number's successor is Nat.
LEMMA Induction ==
  ASSUME NEW A, 0 \in A, \A n \in Nat : n \in A => n + 1 \in A
  PROVE  \A n \in Nat : n \in A
<1> SUFFICES ASSUME NEW m \in Nat, m \notin A PROVE FALSE
  OBVIOUS
<1>1. PICK x \in Nat \ A : \A y \in Nat \ A : x <= y
  BY LeastNumber
<1>2. x - 1 \in A
  BY <1>1
<1>3. (x - 1) + 1 \in A
  BY <1>2
<1> QED
  BY <1>3

-----------------------------------------------------------------------------
(***************************************************************************)
(* Recursive functions that go up step by step.                            *)
(***************************************************************************)
\* A step of F leads from each set of V to the next one.
Leads(n, V, F) == \A i \in 1..n : \A v \in V[i - 1] : F[i][v] \in V[i]

Iteration(g, n, V, F, base) == /\ g[0] = base
                               /\ \A i \in 1..n : g[i] = F[i][g[i - 1]]
                               /\ \A i \in 0..n : g[i] \in V[i]

\* A recursive function that goes up step by step from 0 exists, and its
\* values are in the sets that the steps lead to.
LEMMA Iterates ==
  ASSUME NEW n \in Nat, NEW W, NEW V \in [0..n -> SUBSET W], NEW F,
         NEW base \in V[0], Leads(n, V, F)
  PROVE  \E g \in [0..n -> W] : Iteration(g, n, V, F, base)
<1> USE DEF Leads, Iteration
<1> DEFINE Steps(g, m) == /\ g[0] = base
                          /\ \A i \in 1..m : g[i] = F[i][g[i - 1]]
                          /\ \A i \in 0..m : g[i] \in V[i]
           A == {m \in Nat : m <= n => \E g \in [0..m -> W] : Steps(g, m)}
<1>1. 0 \in A
  <2> DEFINE g == [i \in 0..0 |-> base]
  <2>1. g \in [0..0 -> W] /\ Steps(g, 0)
    OBVIOUS
  <2> QED
    BY <2>1
<1>2. ASSUME NEW m \in Nat, m \in A PROVE m + 1 \in A
  <2> SUFFICES ASSUME m + 1 <= n
               PROVE  \E h \in [0..(m + 1) -> W] : Steps(h, m + 1)
    OBVIOUS
  <2>1. PICK g \in [0..m -> W] : Steps(g, m)
    BY <1>2
  <2>2. F[m + 1][g[m]] \in V[m + 1] /\ V[m + 1] \subseteq W
    <3>1. m + 1 \in 1..n /\ g[m] \in V[(m + 1) - 1]
      BY <2>1
    <3> QED
      BY <3>1
  <2> DEFINE h == [i \in 0..(m + 1) |-> IF i <= m THEN g[i] ELSE F[m + 1][g[m]]]
  <2>3. h \in [0..(m + 1) -> W]
    BY <2>2
  <2>4. /\ \A i \in 0..m : h[i] = g[i]
        /\ h[m + 1] = F[m + 1][g[m]]
    OBVIOUS
  <2> HIDE DEF h
  <2>5. \A i \in 0..(m + 1) : h[i] \in V[i]
    BY <2>1, <2>2, <2>4
  <2>6. \A i \in 1..(m + 1) : h[i] = F[i][h[i - 1]]
    <3> SUFFICES ASSUME NEW i \in 1..(m + 1) PROVE h[i] = F[i][h[i - 1]]
      OBVIOUS
    <3>1. h[i - 1] = g[i - 1]
      BY <2>4
    <3>2. CASE i = m + 1
      BY <2>4, <3>1, <3>2
    <3>3. CASE i \in 1..m
      BY <2>1, <2>4, <3>1, <3>3
    <3> QED
      BY <3>2, <3>3
  <2> QED
    BY <2>1, <2>3, <2>4, <2>5, <2>6
<1>3. n \in A
  <2> HIDE DEF A
  <2> QED
    BY <1>1, <1>2, Induction
<1> QED
  BY <1>3

\* What a sequence has at its places.
LEMMA Item ==
  ASSUME NEW T, NEW s \in Seq(T), NEW k \in 1..Len(s)
  PROVE  s[k] \in T
  OBVIOUS

\* What leads from each number to the next one leads to all of them.
LEMMA Climb ==
  ASSUME NEW n \in Nat, NEW V, NEW f, f[0] \in V[0],
         \A i \in 1..n : f[i - 1] \in V[i - 1] => f[i] \in V[i]
  PROVE  \A i \in 0..n : f[i] \in V[i]
<1> DEFINE A == {m \in Nat : m <= n => f[m] \in V[m]}
<1>1. 0 \in A
  OBVIOUS
<1>2. ASSUME NEW m \in Nat, m \in A PROVE m + 1 \in A
  BY <1>2
<1>3. \A m \in Nat : m \in A
  <2> HIDE DEF A
  <2> QED
    BY <1>1, <1>2, Induction
<1> QED
  BY <1>3

-----------------------------------------------------------------------------
(***************************************************************************)
(* Sums.  A sum is that of the folds' recursive function, which is shown   *)
(* to exist, and not to depend on the set it was begun with.               *)
(***************************************************************************)
Sum(f, S) == MapThenSumSet(LAMBDA s : f[s], S)

One(s) == CHOOSE x \in s : TRUE

\* g sums f over the sets of D, a set of finite sets closed downwards.
Sums(g, f, D) ==
  g = [s \in D |-> IF s = {} THEN 0 ELSE f[One(s)] + g[s \ {One(s)}]]

\* The sets of at most n elements of S.
SmallSets(n, S) == {s \in SUBSET S : IsFiniteSet(s) /\ Cardinality(s) <= n}

\* One is a member.
LEMMA OneIn == ASSUME NEW s, s # {} PROVE One(s) \in s
  BY DEF One

\* Without it there is one member less.
LEMMA WithoutOne ==
  ASSUME NEW S, NEW n \in Nat, NEW s \in SmallSets(n + 1, S), NEW x \in s
  PROVE  s \ {x} \in SmallSets(n, S) /\ Cardinality(s) = Cardinality(s \ {x}) + 1
<1>1. IsFiniteSet(s \ {x}) /\ Cardinality(s \ {x}) = Cardinality(s) - 1
  BY FS_RemoveElement DEF SmallSets
<1>2. Cardinality(s) \in Nat
  BY FS_CardinalityType DEF SmallSets
<1> QED
  BY <1>1, <1>2 DEF SmallSets

\* For every size there is a function that sums the sets of that size.
LEMMA SumsUpTo ==
  ASSUME NEW S, NEW f, \A x \in S : f[x] \in Nat
  PROVE  \A n \in Nat : \E g \in [SmallSets(n, S) -> Nat] : Sums(g, f, SmallSets(n, S))
<1> DEFINE A == {n \in Nat : \E g \in [SmallSets(n, S) -> Nat] :
                               Sums(g, f, SmallSets(n, S))}
<1>1. 0 \in A
  <2>1. \A s \in SmallSets(0, S) : s = {}
    BY FS_EmptySet, FS_CardinalityType DEF SmallSets
  <2> DEFINE g == [s \in SmallSets(0, S) |-> 0]
  <2>2. g \in [SmallSets(0, S) -> Nat] /\ Sums(g, f, SmallSets(0, S))
    BY <2>1 DEF Sums
  <2> QED
    BY <2>2
<1>2. ASSUME NEW n \in Nat, n \in A PROVE n + 1 \in A
  <2>1. PICK g \in [SmallSets(n, S) -> Nat] : Sums(g, f, SmallSets(n, S))
    BY <1>2
  <2> DEFINE h == [s \in SmallSets(n + 1, S) |->
                     IF s = {} THEN 0 ELSE f[One(s)] + g[s \ {One(s)}]]
  <2>2. \A s \in SmallSets(n + 1, S) : s # {} =>
          /\ One(s) \in S
          /\ s \ {One(s)} \in SmallSets(n, S)
          /\ s \ {One(s)} \in SmallSets(n + 1, S)
    <3> SUFFICES ASSUME NEW s \in SmallSets(n + 1, S), s # {}
                 PROVE  /\ One(s) \in S
                        /\ s \ {One(s)} \in SmallSets(n, S)
                        /\ s \ {One(s)} \in SmallSets(n + 1, S)
      OBVIOUS
    <3>1. One(s) \in s /\ s \subseteq S
      BY OneIn DEF SmallSets
    <3>2. s \ {One(s)} \in SmallSets(n, S)
      BY <3>1, WithoutOne
    <3>3. SmallSets(n, S) \subseteq SmallSets(n + 1, S)
      BY FS_CardinalityType DEF SmallSets
    <3> QED
      BY <3>1, <3>2, <3>3
  <2>3. h \in [SmallSets(n + 1, S) -> Nat]
    BY <2>2
  <2>4. \A s \in SmallSets(n, S) : s \in SmallSets(n + 1, S)
    BY FS_CardinalityType DEF SmallSets
  <2>5. \A s \in SmallSets(n, S) : h[s] = g[s]
    BY <2>1, <2>4 DEF Sums
  <2>6. Sums(h, f, SmallSets(n + 1, S))
    <3>1. \A s \in SmallSets(n + 1, S) :
            h[s] = IF s = {} THEN 0 ELSE f[One(s)] + h[s \ {One(s)}]
      BY <2>2, <2>5
    <3> QED
      BY <3>1 DEF Sums
  <2> HIDE DEF h
  <2> QED
    BY <2>3, <2>6
<1>3. \A n \in Nat : n \in A
  <2> HIDE DEF A
  <2> QED BY <1>1, <1>2, Induction
<1> QED
  BY <1>3

\* The recursive function of a sum over a finite set exists.
LEMMA SumsExist ==
  ASSUME NEW S, IsFiniteSet(S), NEW f, \A x \in S : f[x] \in Nat
  PROVE  \E g \in [SUBSET S -> Nat] : Sums(g, f, SUBSET S)
<1>1. Cardinality(S) \in Nat
  BY FS_CardinalityType
<1>2. SmallSets(Cardinality(S), S) = SUBSET S
  BY FS_Subset DEF SmallSets
<1>3. \E g \in [SmallSets(Cardinality(S), S) -> Nat] :
         Sums(g, f, SmallSets(Cardinality(S), S))
  BY <1>1, SumsUpTo
<1> QED
  BY <1>2, <1>3

\* It does not depend on the set whose subsets are its domain.
LEMMA SumsUnique ==
  ASSUME NEW S, NEW T \in SUBSET S, IsFiniteSet(T), NEW f, NEW g, NEW h,
         Sums(g, f, SUBSET S), Sums(h, f, SUBSET T)
  PROVE  g[T] = h[T]
<1> DEFINE A == {n \in Nat : \A s \in SmallSets(n, T) : g[s] = h[s]}
<1>1. \A s \in SUBSET S :
        g[s] = IF s = {} THEN 0 ELSE f[One(s)] + g[s \ {One(s)}]
  BY DEF Sums
<1>2. \A s \in SUBSET T :
        h[s] = IF s = {} THEN 0 ELSE f[One(s)] + h[s \ {One(s)}]
  BY DEF Sums
<1>3. 0 \in A
  <2>1. \A s \in SmallSets(0, T) : s = {}
    BY FS_EmptySet, FS_CardinalityType DEF SmallSets
  <2> QED
    BY <1>1, <1>2, <2>1
<1>4. ASSUME NEW n \in Nat, n \in A PROVE n + 1 \in A
  <2> SUFFICES ASSUME NEW s \in SmallSets(n + 1, T) PROVE g[s] = h[s]
    OBVIOUS
  <2>1. s \in SUBSET T /\ s \in SUBSET S
    BY DEF SmallSets
  <2>2. CASE s = {}
    BY <1>1, <1>2, <2>2
  <2>3. CASE s # {}
    <3>1. s \ {One(s)} \in SmallSets(n, T)
      BY <2>3, OneIn, WithoutOne
    <3>2. g[s \ {One(s)}] = h[s \ {One(s)}]
      BY <1>4, <3>1
    <3> QED
      BY <1>1, <1>2, <2>1, <3>2
  <2> QED
    BY <2>2, <2>3
<1>5. Cardinality(T) \in A
  <2> HIDE DEF A
  <2> QED
    BY <1>3, <1>4, Induction, FS_CardinalityType
<1>6. T \in SmallSets(Cardinality(T), T)
  BY FS_CardinalityType DEF SmallSets
<1> QED
  BY <1>5, <1>6

\* So Sum is that function.
LEMMA SumIs ==
  ASSUME NEW S, IsFiniteSet(S), NEW f, \A x \in S : f[x] \in Nat,
         NEW T \in SUBSET S, NEW g, Sums(g, f, SUBSET S)
  PROVE  Sum(f, T) = g[T]
<1> DEFINE h == CHOOSE it : Sums(it, f, SUBSET T)
<1>1. IsFiniteSet(T) /\ \A x \in T : f[x] \in Nat
  BY FS_Subset
<1>2. Sums(h, f, SUBSET T)
  BY <1>1, SumsExist
<1>3. Sum(f, T) = h[T]
  BY DEF Sum, MapThenSumSet, MapThenFoldSet, Sums, One
<1>4. g[T] = h[T]
  <2> HIDE DEF h
  <2> QED
    BY <1>1, <1>2, SumsUnique
<1> QED
  BY <1>3, <1>4

\* A sum is one term and the sum of the others.
LEMMA SumOne ==
  ASSUME NEW S, IsFiniteSet(S), NEW f, \A x \in S : f[x] \in Nat
  PROVE  /\ Sum(f, S) \in Nat
         /\ S = {} => Sum(f, S) = 0
         /\ S # {} => Sum(f, S) = f[One(S)] + Sum(f, S \ {One(S)})
<1>1. PICK g \in [SUBSET S -> Nat] : Sums(g, f, SUBSET S)
  BY SumsExist
<1>2. \A T \in SUBSET S : Sum(f, T) = g[T]
  BY <1>1, SumIs
<1>3. \A s \in SUBSET S :
        g[s] = IF s = {} THEN 0 ELSE f[One(s)] + g[s \ {One(s)}]
  BY <1>1 DEF Sums
<1> QED
  BY <1>2, <1>3

-----------------------------------------------------------------------------
(***************************************************************************)
(* What sums do: take an element out, compare, add one.                    *)
(***************************************************************************)
LEMMA SumEmpty == ASSUME NEW f PROVE Sum(f, {}) = 0
  BY SumOne, FS_EmptySet

\* A sum of numbers is a number.
LEMMA SumNat ==
  ASSUME NEW S, IsFiniteSet(S), NEW f, \A x \in S : f[x] \in Nat
  PROVE  Sum(f, S) \in Nat
  BY SumOne

\* Any term may be taken out first.
LEMMA SumRemove ==
  ASSUME NEW S, IsFiniteSet(S), NEW f, \A x \in S : f[x] \in Nat, NEW x \in S
  PROVE  Sum(f, S) = f[x] + Sum(f, S \ {x})
<1> DEFINE A == {n \in Nat : \A T \in SmallSets(n, S) : \A y \in T :
                               Sum(f, T) = f[y] + Sum(f, T \ {y})}
<1>1. 0 \in A
  BY FS_EmptySet, FS_CardinalityType DEF SmallSets
<1>2. ASSUME NEW n \in Nat, n \in A PROVE n + 1 \in A
  <2> SUFFICES ASSUME NEW T \in SmallSets(n + 1, S), NEW y \in T
               PROVE  Sum(f, T) = f[y] + Sum(f, T \ {y})
    OBVIOUS
  <2> DEFINE c == One(T)
  <2>1. T \in SUBSET S /\ IsFiniteSet(T) /\ c \in T
    BY OneIn DEF SmallSets
  <2>2. Sum(f, T) = f[c] + Sum(f, T \ {c})
    BY <2>1, SumOne
  <2>3. CASE y # c
    <3>1. T \ {c} \in SmallSets(n, S) /\ T \ {y} \in SmallSets(n, S)
      BY <2>1, WithoutOne
    <3>2. y \in T \ {c} /\ c \in T \ {y}
      BY <2>1, <2>3
    <3>3. Sum(f, T \ {c}) = f[y] + Sum(f, (T \ {c}) \ {y})
      BY <1>2, <3>1, <3>2
    <3>4. Sum(f, T \ {y}) = f[c] + Sum(f, (T \ {y}) \ {c})
      BY <1>2, <3>1, <3>2
    <3>5. IsFiniteSet((T \ {y}) \ {c}) /\ (T \ {y}) \ {c} \in SUBSET S
      BY <2>1, FS_Subset
    <3>6. Sum(f, (T \ {y}) \ {c}) \in Nat
      BY <3>5, SumNat
    <3>7. f[y] \in Nat /\ f[c] \in Nat
      BY <2>1
    <3> QED
      BY <2>2, <3>3, <3>4, <3>6, <3>7
  <2> QED
    BY <2>2, <2>3
<1>3. Cardinality(S) \in A
  <2> HIDE DEF A
  <2> QED
    BY <1>1, <1>2, Induction, FS_CardinalityType
<1>4. S \in SmallSets(Cardinality(S), S)
  BY FS_CardinalityType DEF SmallSets
<1> QED
  BY <1>3, <1>4

\* Sums of the same terms are the same.
LEMMA SumSame ==
  ASSUME NEW S, IsFiniteSet(S), NEW f, \A x \in S : f[x] \in Nat,
         NEW g, \A x \in S : g[x] = f[x]
  PROVE  Sum(g, S) = Sum(f, S)
<1> DEFINE A == {n \in Nat : \A T \in SmallSets(n, S) : Sum(g, T) = Sum(f, T)}
<1>1. 0 \in A
  <2>1. \A T \in SmallSets(0, S) : T = {}
    BY FS_EmptySet, FS_CardinalityType DEF SmallSets
  <2> QED
    BY <2>1, SumEmpty
<1>2. ASSUME NEW n \in Nat, n \in A PROVE n + 1 \in A
  <2> SUFFICES ASSUME NEW T \in SmallSets(n + 1, S), T # {}
               PROVE  Sum(g, T) = Sum(f, T)
    BY SumEmpty
  <2>1. PICK y \in T : TRUE
    OBVIOUS
  <2>2. T \in SUBSET S /\ IsFiniteSet(T)
    BY DEF SmallSets
  <2>3. Sum(f, T) = f[y] + Sum(f, T \ {y})
    BY <2>2, SumRemove
  <2>4. Sum(g, T) = g[y] + Sum(g, T \ {y})
    BY <2>2, SumRemove
  <2>5. Sum(g, T \ {y}) = Sum(f, T \ {y})
    BY <1>2, WithoutOne
  <2> QED
    BY <2>2, <2>3, <2>4, <2>5
<1>3. Cardinality(S) \in A
  <2> HIDE DEF A
  <2> QED
    BY <1>1, <1>2, Induction, FS_CardinalityType
<1>4. S \in SmallSets(Cardinality(S), S)
  BY FS_CardinalityType DEF SmallSets
<1> QED
  BY <1>3, <1>4

\* A sum over fewer is no more.
LEMMA SumSubset ==
  ASSUME NEW S, IsFiniteSet(S), NEW f, \A x \in S : f[x] \in Nat,
         NEW T \in SUBSET S
  PROVE  Sum(f, T) <= Sum(f, S)
<1> DEFINE A == {n \in Nat : \A V \in SmallSets(n, S) : \A U \in SUBSET V :
                               Sum(f, U) <= Sum(f, V)}
<1>1. \A V \in SUBSET S : IsFiniteSet(V) /\ Sum(f, V) \in Nat
  BY FS_Subset, SumNat
<1>2. 0 \in A
  <2>1. \A V \in SmallSets(0, S) : V = {}
    BY FS_EmptySet, FS_CardinalityType DEF SmallSets
  <2> QED
    BY <2>1, SumEmpty
<1>3. ASSUME NEW n \in Nat, n \in A PROVE n + 1 \in A
  <2> SUFFICES ASSUME NEW V \in SmallSets(n + 1, S), NEW U \in SUBSET V, U # V
               PROVE  Sum(f, U) <= Sum(f, V)
    BY <1>1 DEF SmallSets
  <2>1. PICK y \in V : y \notin U
    OBVIOUS
  <2>2. V \in SUBSET S /\ V \ {y} \in SUBSET S /\ U \in SUBSET S
    BY DEF SmallSets
  <2>3. Sum(f, V) = f[y] + Sum(f, V \ {y})
    BY <1>1, <2>2, SumRemove
  <2>4. Sum(f, U) <= Sum(f, V \ {y})
    BY <1>3, <2>1, WithoutOne
  <2> QED
    BY <1>1, <2>2, <2>3, <2>4
<1>4. Cardinality(S) \in A
  <2> HIDE DEF A
  <2> QED
    BY <1>2, <1>3, Induction, FS_CardinalityType
<1>5. S \in SmallSets(Cardinality(S), S)
  BY FS_CardinalityType DEF SmallSets
<1> QED
  BY <1>4, <1>5

\* One term more by one, and the sum is.
LEMMA SumBumped ==
  ASSUME NEW S, IsFiniteSet(S), NEW f, \A x \in S : f[x] \in Nat,
         NEW x \in S, NEW g, g[x] = f[x] + 1,
         \A y \in S \ {x} : g[y] = f[y]
  PROVE  Sum(g, S) = Sum(f, S) + 1
<1>1. Sum(f, S) = f[x] + Sum(f, S \ {x})
  BY SumRemove
<1>2. Sum(g, S) = g[x] + Sum(g, S \ {x})
  BY SumRemove
<1>3. IsFiniteSet(S \ {x})
  BY FS_Subset
<1>4. Sum(g, S \ {x}) = Sum(f, S \ {x}) /\ Sum(f, S \ {x}) \in Nat
  BY <1>3, SumSame, SumNat
<1> QED
  BY <1>1, <1>2, <1>4

\* A sum of zeros is zero.
LEMMA SumZero ==
  ASSUME NEW S, IsFiniteSet(S), NEW f, \A x \in S : f[x] = 0
  PROVE  Sum(f, S) = 0
<1> DEFINE A == {n \in Nat : \A T \in SmallSets(n, S) : Sum(f, T) = 0}
<1>1. 0 \in A
  <2>1. \A T \in SmallSets(0, S) : T = {}
    BY FS_EmptySet, FS_CardinalityType DEF SmallSets
  <2> QED
    BY <2>1, SumEmpty
<1>2. ASSUME NEW n \in Nat, n \in A PROVE n + 1 \in A
  <2> SUFFICES ASSUME NEW T \in SmallSets(n + 1, S), T # {} PROVE Sum(f, T) = 0
    BY SumEmpty
  <2>1. PICK y \in T : TRUE
    OBVIOUS
  <2>2. T \in SUBSET S /\ IsFiniteSet(T) /\ \A x \in T : f[x] \in Nat
    BY DEF SmallSets
  <2>3. Sum(f, T) = f[y] + Sum(f, T \ {y})
    BY <2>2, SumRemove
  <2>4. Sum(f, T \ {y}) = 0
    BY <1>2, WithoutOne
  <2> QED
    BY <2>2, <2>3, <2>4
<1>3. Cardinality(S) \in A
  <2> HIDE DEF A
  <2> QED
    BY <1>1, <1>2, Induction, FS_CardinalityType
<1>4. S \in SmallSets(Cardinality(S), S)
  BY FS_CardinalityType DEF SmallSets
<1> QED
  BY <1>3, <1>4
=============================================================================
