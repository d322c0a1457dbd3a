------------------------------ MODULE OperatorLemmas ------------------------------
(***************************************************************************)
(* Facts about the operators the models are built from: sums over finite   *)
(* sets, sets of numbers in order, first and last matches, the six rules,  *)
(* scores, the extractors.  The proof modules of the components cite them. *)
(***************************************************************************)
EXTENDS Checks, Scoring, DocumentReading, FiniteSetTheorems, SequenceTheorems,
        WellFoundedInduction, TLAPS

\* Every non-empty set of natural numbers has a least element.
LEMMA LeastElement ==
    ASSUME NEW T, T \subseteq Nat, T # {}
    PROVE  \E x \in T : \A y \in T : x <= y
<1>1. PICK x \in T : \A y \in T : ~(<<y, x>> \in OpToRel(<, Nat))
  BY NatLessThanWellFounded, WFMin
<1>2. ASSUME NEW y \in T PROVE x <= y
  <2>1. <<y, x>> \in Nat \X Nat
    OBVIOUS
  <2>2. ~(y < x)
    BY <1>1, <1>2, <2>1 DEF OpToRel
  <2> QED
    BY <2>1, <2>2
<1> QED
  BY <1>2

\* Among a bounded choice of natural numbers there is a greatest one.
LEMMA GreatestElement ==
    ASSUME NEW T, NEW n \in Nat, T \subseteq 0 .. n, T # {}
    PROVE  \E x \in T : \A y \in T : y <= x
<1> DEFINE Gaps == {n - x : x \in T}
<1>1. Gaps \subseteq Nat /\ Gaps # {}
  <2>1. \A x \in T : x \in Nat /\ n - x \in Nat
    OBVIOUS
  <2> QED
    BY <2>1
<1>2. PICK g \in Gaps : \A h \in Gaps : g <= h
  <2> HIDE DEF Gaps
  <2> QED
    BY <1>1, LeastElement
<1>3. PICK x \in T : g = n - x
  OBVIOUS
<1>4. ASSUME NEW y \in T PROVE y <= x
  <2>1. n - x <= n - y
    BY <1>2, <1>3
  <2>2. x \in 0 .. n /\ y \in 0 .. n
    OBVIOUS
  <2> QED
    BY <2>1, <2>2
<1> QED
  BY <1>4
-----------------------------------------------------------------------------
(* Sums over finite sets. *)

Taken(s) == CHOOSE x \in s : TRUE

\* h holds the sums of f over the subsets of S, as the fold works them out.
Sums(h, f, S) ==
    h = [s \in SUBSET S |-> IF s = {} THEN 0 ELSE f[Taken(s)] + h[s \ {Taken(s)}]]

LEMMA SumIsComputed ==
    ASSUME NEW f, NEW S
    PROVE  SumFunctionOnSet(f, S) = (CHOOSE h : Sums(h, f, S))[S]
BY DEF SumFunctionOnSet, FoldFunctionOnSet, MapThenFoldSet, Sums, Taken

\* Two tables of sums agree where both have an entry.
LEMMA SumsAgree ==
    ASSUME NEW f, NEW S, IsFiniteSet(S), NEW T, IsFiniteSet(T),
           NEW g, Sums(g, f, S), NEW h, Sums(h, f, T)
    PROVE  \A s \in (SUBSET S) \cap SUBSET T : g[s] = h[s]
<1> DEFINE Bad == {s \in (SUBSET S) \cap SUBSET T : g[s] # h[s]}
           Sizes == {Cardinality(s) : s \in Bad}
<1> SUFFICES ASSUME Bad # {} PROVE FALSE
  OBVIOUS
<1>1. \A s \in Bad : IsFiniteSet(s) /\ Cardinality(s) \in Nat
  BY FS_Subset, FS_CardinalityType
<1>2. Sizes \subseteq Nat /\ Sizes # {}
  BY <1>1
<1>3. PICK m \in Sizes : \A n \in Sizes : m <= n
  <2> HIDE DEF Sizes
  <2> QED
    BY <1>2, LeastElement
<1>4. PICK s \in Bad : Cardinality(s) = m
  OBVIOUS
<1>5. CASE s = {}
  BY <1>5 DEF Sums
<1>6. CASE s # {}
  <2> DEFINE t == s \ {Taken(s)}
  <2>1. Taken(s) \in s
    BY <1>6 DEF Taken
  <2>2. t \in (SUBSET S) \cap SUBSET T
    BY <1>4
  <2>3. Cardinality(t) = m - 1 /\ Cardinality(t) \in Nat
    BY <1>1, <1>4, <2>1, FS_RemoveElement, FS_CardinalityType
  <2>4. t \notin Bad
    <3> SUFFICES ASSUME t \in Bad PROVE FALSE
      OBVIOUS
    <3>1. Cardinality(t) \in Sizes /\ m \in Nat
      BY <1>2, <1>3
    <3> HIDE DEF t, Sizes, Bad
    <3> QED
      BY <3>1, <1>3, <2>3
  <2>5. g[t] = h[t]
    BY <2>2, <2>4
  <2>6. g[s] = f[Taken(s)] + g[t] /\ h[s] = f[Taken(s)] + h[t]
    <3>1. s \in SUBSET S /\ s \in SUBSET T
      BY <1>4
    <3> QED
      BY <3>1, <1>6 DEF Sums
  <2> QED
    BY <1>4, <2>5, <2>6
<1> QED
  BY <1>5, <1>6

LEMMA SumsExist ==
    ASSUME NEW f, NEW S, IsFiniteSet(S)
    PROVE  \E h : Sums(h, f, S)
<1> DEFINE Bad == {T \in SUBSET S : ~\E h : Sums(h, f, T)}
           Sizes == {Cardinality(T) : T \in Bad}
<1> SUFFICES ASSUME Bad # {} PROVE FALSE
  OBVIOUS
<1>1. \A T \in SUBSET S : IsFiniteSet(T) /\ Cardinality(T) \in Nat
  BY FS_Subset, FS_CardinalityType
<1>2. Sizes \subseteq Nat /\ Sizes # {}
  BY <1>1
<1>3. PICK m \in Sizes : \A n \in Sizes : m <= n
  <2> HIDE DEF Sizes
  <2> QED
    BY <1>2, LeastElement
<1>4. PICK T \in Bad : Cardinality(T) = m
  OBVIOUS
<1> DEFINE Value(s) == (CHOOSE h : Sums(h, f, s))[s]
           g == [s \in SUBSET T |->
                     IF s = {} THEN 0 ELSE f[Taken(s)] + Value(s \ {Taken(s)})]
<1>5. ASSUME NEW s \in SUBSET T, s # T
      PROVE  Sums(CHOOSE h : Sums(h, f, s), f, s)
  <2>1. Cardinality(s) < m /\ s \in SUBSET S
    <3>1. Cardinality(s) <= Cardinality(T) /\ Cardinality(s) # Cardinality(T)
      BY <1>1, <1>5, FS_Subset
    <3> QED
      BY <1>1, <1>4, <3>1
  <2>2. s \notin Bad
    <3> SUFFICES ASSUME s \in Bad PROVE FALSE
      OBVIOUS
    <3>1. Cardinality(s) \in Sizes /\ m \in Nat /\ Cardinality(s) \in Nat
      BY <1>1, <1>2, <1>3
    <3> HIDE DEF Sizes, Bad
    <3> QED
      BY <3>1, <1>3, <2>1
  <2> QED
    BY <2>1, <2>2
<1>6. ASSUME NEW s \in SUBSET T, s # T, s # {}
      PROVE  Value(s) = f[Taken(s)] + Value(s \ {Taken(s)})
  <2> DEFINE t == s \ {Taken(s)}
             hs == CHOOSE h : Sums(h, f, s)
             ht == CHOOSE h : Sums(h, f, t)
  <2>1. t \in SUBSET T /\ t # T /\ t \in SUBSET s
    <3>1. Taken(s) \in s
      BY <1>6 DEF Taken
    <3> QED
      BY <3>1, <1>6
  <2>2. Sums(hs, f, s) /\ Sums(ht, f, t)
    BY <1>5, <1>6, <2>1
  <2>3. IsFiniteSet(s) /\ IsFiniteSet(t)
    BY <1>1, <2>1
  <2>4. hs[t] = ht[t]
    <3>1. t \in (SUBSET s) \cap SUBSET t
      BY <2>1
    <3> HIDE DEF hs, ht, t
    <3> QED
      BY <2>2, <2>3, <3>1, SumsAgree
  <2>5. hs[s] = f[Taken(s)] + hs[t]
    <3>1. s \in SUBSET s
      OBVIOUS
    <3> HIDE DEF hs
    <3> QED
      BY <2>2, <3>1, <1>6 DEF Sums
  <2> QED
    BY <2>4, <2>5
<1>7. ASSUME NEW s \in SUBSET T, s # {}
      PROVE  Value(s \ {Taken(s)}) = g[s \ {Taken(s)}]
  <2> DEFINE t == s \ {Taken(s)}
  <2>1. t \in SUBSET T /\ t # T
    BY <1>7 DEF Taken
  <2>2. CASE t = {}
    <3>1. Sums(CHOOSE h : Sums(h, f, t), f, t)
      BY <1>5, <2>1
    <3> DEFINE ht == CHOOSE h : Sums(h, f, t)
    <3>2. ht[t] = 0
      <4>1. t \in SUBSET t
        OBVIOUS
      <4>2. Sums(ht, f, t)
        BY <3>1
      <4> HIDE DEF ht
      <4> QED
        BY <4>1, <4>2, <2>2 DEF Sums
    <3> QED
      BY <3>2, <2>1, <2>2
  <2>3. CASE t # {}
    <3>1. Value(t) = f[Taken(t)] + Value(t \ {Taken(t)})
      BY <1>6, <2>1, <2>3
    <3>2. g[t] = f[Taken(t)] + Value(t \ {Taken(t)})
      <4> HIDE DEF Value, t
      <4> QED
        BY <2>1, <2>3
    <3> QED
      BY <3>1, <3>2
  <2> QED
    BY <2>2, <2>3
<1>8. Sums(g, f, T)
  <2>1. g = [s \in SUBSET T |->
                 IF s = {} THEN 0 ELSE f[Taken(s)] + Value(s \ {Taken(s)})]
    OBVIOUS
  <2> HIDE DEF g, Value
  <2> QED
    BY <1>7, <2>1 DEF Sums
<1> QED
  BY <1>8

\* The equation that the sum over a finite set satisfies.
LEMMA SumEquation ==
    ASSUME NEW f, NEW S, IsFiniteSet(S)
    PROVE  SumFunctionOnSet(f, S) =
               IF S = {} THEN 0
               ELSE f[Taken(S)] + SumFunctionOnSet(f, S \ {Taken(S)})
<1> DEFINE rest == S \ {Taken(S)}
           whole == CHOOSE h : Sums(h, f, S)
           part == CHOOSE h : Sums(h, f, rest)
<1>1. IsFiniteSet(rest)
  BY FS_RemoveElement
<1>2. Sums(whole, f, S) /\ Sums(part, f, rest)
  BY <1>1, SumsExist
<1>3. SumFunctionOnSet(f, S) = whole[S] /\ SumFunctionOnSet(f, rest) = part[rest]
  BY SumIsComputed
<1>4. S \in SUBSET S /\ rest \in (SUBSET S) \cap SUBSET rest
  OBVIOUS
<1>5. whole[S] = IF S = {} THEN 0 ELSE f[Taken(S)] + whole[rest]
  <2> HIDE DEF whole
  <2> QED
    BY <1>2, <1>4 DEF Sums
<1>6. whole[rest] = part[rest]
  <2> HIDE DEF whole, part, rest
  <2> QED
    BY <1>1, <1>2, <1>4, SumsAgree, Z3
<1> QED
  BY <1>3, <1>5, <1>6

LEMMA SumOfNone ==
    ASSUME NEW f
    PROVE  SumFunctionOnSet(f, {}) = 0
BY SumEquation, FS_EmptySet

\* A sum does not depend on the order in which the elements are taken: any of
\* them can be set apart.
LEMMA SumWithout ==
    ASSUME NEW S, IsFiniteSet(S), NEW f, \A x \in S : f[x] \in Int
    PROVE  /\ SumFunctionOnSet(f, S) \in Int
           /\ \A x \in S : SumFunctionOnSet(f, S) = f[x] + SumFunctionOnSet(f, S \ {x})
<1> DEFINE Sum(T) == SumFunctionOnSet(f, T)
           Good(T) == Sum(T) \in Int /\ \A x \in T : Sum(T) = f[x] + Sum(T \ {x})
           Bad == {T \in SUBSET S : ~Good(T)}
           Sizes == {Cardinality(T) : T \in Bad}
<1> SUFFICES ASSUME Bad # {} PROVE FALSE
  <2>1. S \in SUBSET S
    OBVIOUS
  <2> QED
    BY <2>1
<1>1. \A T \in SUBSET S : IsFiniteSet(T) /\ Cardinality(T) \in Nat
  BY FS_Subset, FS_CardinalityType
<1>2. Sizes \subseteq Nat /\ Sizes # {}
  BY <1>1
<1>3. PICK m \in Sizes : \A n \in Sizes : m <= n
  <2> HIDE DEF Sizes
  <2> QED
    BY <1>2, LeastElement
<1>4. PICK T \in Bad : Cardinality(T) = m
  OBVIOUS
<1>5. ASSUME NEW R \in SUBSET T, R # T PROVE Good(R)
  <2>1. Cardinality(R) <= Cardinality(T) /\ Cardinality(R) # Cardinality(T)
    BY <1>1, <1>4, <1>5, FS_Subset
  <2>2. R \in SUBSET S /\ Cardinality(R) < m /\ ~(m <= Cardinality(R))
    BY <1>1, <1>4, <2>1
  <2>3. Cardinality(R) \notin Sizes
    <3> HIDE DEF Sizes
    <3> QED
      BY <1>3, <2>2
  <2> QED
    BY <2>2, <2>3
<1>6. T # {}
  <2> SUFFICES ASSUME T = {} PROVE FALSE
    OBVIOUS
  <2>1. Good(T)
    BY SumOfNone
  <2> QED
    BY <2>1, <1>4
<1> DEFINE t == Taken(T)
<1>7. t \in T /\ T \subseteq S
  BY <1>4, <1>6 DEF Taken
<1>8. Sum(T) = f[t] + Sum(T \ {t})
  BY <1>1, <1>6, <1>7, SumEquation
<1>9. ASSUME NEW x \in T PROVE Sum(T) = f[x] + Sum(T \ {x}) /\ Sum(T) \in Int
  <2>1. f[x] \in Int /\ f[t] \in Int
    BY <1>7
  <2>2. Good(T \ {t}) /\ Good(T \ {x}) /\ Good((T \ {t}) \ {x})
    <3>1. T \ {t} # T /\ T \ {x} # T /\ (T \ {t}) \ {x} # T
      BY <1>7
    <3> HIDE DEF Good, t
    <3> QED
      BY <1>5, <3>1
  <2>3. CASE x = t
    BY <1>8, <2>1, <2>2, <2>3
  <2>4. CASE x # t
    <3>1. (T \ {t}) \ {x} = (T \ {x}) \ {t}
      OBVIOUS
    <3>2. Sum(T \ {t}) = f[x] + Sum((T \ {t}) \ {x})
      BY <2>2, <2>4
    <3>3. Sum(T \ {x}) = f[t] + Sum((T \ {x}) \ {t})
      BY <1>7, <2>2, <2>4
    <3>4. Sum((T \ {t}) \ {x}) \in Int
      BY <2>2
    <3>5. Sum(T \ {x}) = f[t] + Sum((T \ {t}) \ {x})
      BY <3>1, <3>3
    <3> HIDE DEF Sum, t
    <3> QED
      BY <1>8, <2>1, <3>2, <3>4, <3>5, Z3
  <2> QED
    BY <2>3, <2>4
<1> QED
  BY <1>4, <1>6, <1>7, <1>9

LEMMA SumOfOne ==
    ASSUME NEW f, NEW x, f[x] \in Int
    PROVE  SumFunctionOnSet(f, {x}) = f[x]
<1>1. IsFiniteSet({x}) /\ {x} \ {x} = {}
  BY FS_Singleton
<1>2. SumFunctionOnSet(f, {x}) = f[x] + SumFunctionOnSet(f, {x} \ {x})
  BY <1>1, SumWithout
<1> QED
  BY <1>1, <1>2, SumOfNone

LEMMA SumOfTwo ==
    ASSUME NEW f, NEW x, NEW y, x # y, f[x] \in Int, f[y] \in Int
    PROVE  SumFunctionOnSet(f, {x, y}) = f[x] + f[y]
<1>1. IsFiniteSet({x, y})
  <2>1. IsFiniteSet({x}) /\ {x, y} = {x} \cup {y}
    BY FS_Singleton
  <2> QED
    BY <2>1, FS_AddElement
<1>2. SumFunctionOnSet(f, {x, y}) = f[x] + SumFunctionOnSet(f, {x, y} \ {x})
  BY <1>1, SumWithout
<1>3. {x, y} \ {x} = {y}
  OBVIOUS
<1> QED
  BY <1>2, <1>3, SumOfOne
-----------------------------------------------------------------------------
(* Sets of numbers in order. *)

Ascending(s) == \A m, n \in DOMAIN s : m < n => s[m] < s[n]

LEMMA AscendingExists ==
    ASSUME NEW N \in Nat, NEW S \in SUBSET (1 .. N)
    PROVE  \E s \in [1 .. Cardinality(S) -> S] : Ascending(s)
<1> DEFINE Good(T) == \E s \in [1 .. Cardinality(T) -> T] : Ascending(s)
           Bad == {T \in SUBSET (1 .. N) : ~Good(T)}
           Sizes == {Cardinality(T) : T \in Bad}
<1> SUFFICES ASSUME Bad # {} PROVE FALSE
  OBVIOUS
<1>1. \A T \in SUBSET (1 .. N) : IsFiniteSet(T) /\ Cardinality(T) \in Nat
  <2>1. IsFiniteSet(1 .. N)
    <3>1. 1 \in Int /\ N \in Int
      OBVIOUS
    <3> QED
      BY <3>1, FS_Interval
  <2> QED
    BY <2>1, FS_Subset, FS_CardinalityType
<1>2. Sizes \subseteq Nat /\ Sizes # {}
  BY <1>1
<1>3. PICK c \in Sizes : \A n \in Sizes : c <= n
  <2> HIDE DEF Sizes
  <2> QED
    BY <1>2, LeastElement
<1>4. PICK T \in Bad : Cardinality(T) = c
  OBVIOUS
<1>5. c \in Nat
  BY <1>2, <1>3
<1>6. CASE T = {}
  <2>1. c = 0
    BY <1>4, <1>6, FS_EmptySet
  <2>2. <<>> \in [1 .. 0 -> T] /\ Ascending(<<>>)
    BY DEF Ascending
  <2> QED
    BY <1>4, <2>1, <2>2
<1>7. CASE T # {}
  <2>1. T \subseteq 0 .. N
    OBVIOUS
  <2>2. PICK top \in T : \A x \in T : x <= top
    BY <1>7, <2>1, GreatestElement
  <2> DEFINE R == T \ {top}
  <2>3. R \in SUBSET (1 .. N) /\ Cardinality(R) = c - 1
    BY <1>1, <1>4, <2>2, FS_RemoveElement
  <2>4. Cardinality(R) \notin Sizes
    <3>1. ~(c <= c - 1)
      BY <1>5
    <3> HIDE DEF Sizes
    <3> QED
      BY <1>3, <2>3, <3>1
  <2>5. Good(R)
    BY <2>3, <2>4
  <2>6. PICK s \in [1 .. c - 1 -> R] : Ascending(s)
    BY <2>3, <2>5
  <2> DEFINE longer == [n \in 1 .. c |-> IF n = c THEN top ELSE s[n]]
  <2>7. longer \in [1 .. c -> T]
    <3>1. \A n \in 1 .. c : n # c => n \in 1 .. c - 1
      BY <1>5
    <3> QED
      BY <3>1
  <2>8. Ascending(longer)
    <3> SUFFICES ASSUME NEW m \in 1 .. c, NEW n \in 1 .. c, m < n
                 PROVE  longer[m] < longer[n]
      BY DEF Ascending
    <3>1. m \in 1 .. c - 1 /\ longer[m] = s[m] /\ s[m] \in R
      BY <1>5
    <3>2. CASE n = c
      <4>1. longer[n] = top /\ s[m] # top /\ s[m] <= top
        BY <2>2, <3>1, <3>2
      <4>2. s[m] \in 1 .. N /\ top \in 1 .. N
        BY <2>2, <2>3, <3>1
      <4> QED
        BY <3>1, <4>1, <4>2
    <3>3. CASE n # c
      <4>1. n \in 1 .. c - 1 /\ longer[n] = s[n]
        BY <1>5, <3>3
      <4> QED
        BY <2>6, <3>1, <4>1 DEF Ascending
    <3> QED
      BY <3>2, <3>3
  <2> QED
    BY <1>4, <2>7, <2>8
<1> QED
  BY <1>6, <1>7

\* The sequence of a set of numbers holds each of them once.
LEMMA InOrderIsExact ==
    ASSUME NEW N \in Nat, NEW S \in SUBSET (1 .. N)
    PROVE  /\ Cardinality(S) \in Nat /\ (Cardinality(S) = 0 <=> S = {})
           /\ InOrder(S) \in [1 .. Cardinality(S) -> S]
           /\ DOMAIN InOrder(S) = 1 .. Cardinality(S)
           /\ \A m, n \in DOMAIN InOrder(S) : InOrder(S)[m] = InOrder(S)[n] => m = n
           /\ \A k \in S : \E n \in DOMAIN InOrder(S) : InOrder(S)[n] = k
<1> DEFINE s == InOrder(S)
           c == Cardinality(S)
<1>1. IsFiniteSet(S) /\ c \in Nat /\ (c = 0 <=> S = {})
  <2>1. IsFiniteSet(1 .. N)
    <3>1. 1 \in Int /\ N \in Int
      OBVIOUS
    <3> QED
      BY <3>1, FS_Interval
  <2>2. IsFiniteSet(S)
    BY <2>1, FS_Subset
  <2> QED
    BY <2>2, FS_CardinalityType, FS_EmptySet
<1>2. s \in [1 .. c -> S] /\ Ascending(s)
  BY AscendingExists DEF InOrder, Ascending
<1>3. \A m, n \in DOMAIN s : s[m] = s[n] => m = n
  <2> SUFFICES ASSUME NEW m \in 1 .. c, NEW n \in 1 .. c, s[m] = s[n] PROVE m = n
    BY <1>2
  <2>1. s[m] \in S /\ s[n] \in S
    BY <1>2
  <2>3. ~(s[m] < s[n]) /\ ~(s[n] < s[m])
    <3> HIDE DEF s
    <3>1. s[m] \in 1 .. N
      BY <2>1
    <3> QED
      BY <3>1
  <2>2. ~(m < n) /\ ~(n < m)
    BY <1>2, <2>3 DEF Ascending
  <2> QED
    BY <1>1, <2>2
<1>4. s \in Surjection(1 .. c, S)
  <2>1. s \in Injection(1 .. c, S)
    BY <1>2, <1>3 DEF Injection, IsInjective
  <2>2. Cardinality(1 .. c) = c
    <3>1. 1 \in Int /\ c \in Int
      BY <1>1
    <3>2. Cardinality(1 .. c) = IF 1 > c THEN 0 ELSE c - 1 + 1
      BY <3>1, FS_Interval
    <3> QED
      BY <1>1, <3>2
  <2> HIDE DEF s
  <2> QED
    BY <1>1, <2>1, <2>2, FS_Injection
<1> QED
  BY <1>1, <1>2, <1>3, <1>4 DEF Surjection
-----------------------------------------------------------------------------
(* Rounding. *)

LEMMA ProductOfNaturals ==
    ASSUME NEW a \in Nat, NEW b \in Nat
    PROVE  a * b \in Nat
OBVIOUS

LEMMA ProductOfPositives ==
    ASSUME NEW a \in Int, NEW b \in Int, a > 0, b > 0
    PROVE  a * b > 0
OBVIOUS

LEMMA Division ==
    ASSUME NEW n \in Int, NEW d \in Nat \ {0}
    PROVE  /\ n \div d \in Int /\ n % d \in 0 .. d - 1
           /\ n = (d * (n \div d)) + (n % d)
OBVIOUS

\* A rounded quotient is within half of the exact one.
LEMMA HalfEvenIsNear ==
    ASSUME NEW n \in Int, NEW d \in Nat \ {0}
    PROVE  /\ HalfEven(n, d) \in Int
           /\ 2 * (d * HalfEven(n, d)) <= 2 * n + d
           /\ 2 * (d * HalfEven(n, d)) >= 2 * n - d
<1> DEFINE quotient == n \div d
           rest == n % d
<1>1. quotient \in Int /\ rest \in 0 .. d - 1 /\ n = (d * quotient) + rest
  BY Division
<1>2. d * (quotient + 1) = (d * quotient) + d
  BY <1>1
<1>3. \/ HalfEven(n, d) = quotient /\ 2 * rest <= d
      \/ HalfEven(n, d) = quotient + 1 /\ 2 * rest >= d
  BY <1>1 DEF HalfEven
<1> HIDE DEF quotient, rest
<1> QED
  BY <1>1, <1>2, <1>3

\* An integer is what a rounded quotient of it by one is.
LEMMA HalfEvenIsExact ==
    ASSUME NEW m \in Int, NEW d \in Nat \ {0}
    PROVE  HalfEven(d * m, d) = m
<1> DEFINE n == d * m
           h == HalfEven(n, d)
<1>1. n \in Int
  OBVIOUS
<1>2. h \in Int /\ 2 * (d * h) <= 2 * n + d /\ 2 * (d * h) >= 2 * n - d
  BY <1>1, HalfEvenIsNear
<1> HIDE DEF h
<1>3. CASE h >= m + 1
  <2>1. d * h >= d * (m + 1) /\ d * (m + 1) = n + d
    BY <1>2, <1>3
  <2> QED
    BY <1>1, <1>2, <2>1
<1>4. CASE h <= m - 1
  <2>1. d * h <= d * (m - 1) /\ d * (m - 1) = n - d
    BY <1>2, <1>4
  <2> QED
    BY <1>1, <1>2, <2>1
<1> QED
  BY <1>2, <1>3, <1>4 DEF h

LEMMA ScalesArePositive ==
    /\ Cent \in Nat \ {0} /\ Piece \in Nat \ {0} /\ Percent \in Nat \ {0}
    /\ Whole \in Nat \ {0}
BY ScalesAssumption DEF Whole

\* An amount rounded to cents is within half a cent of the exact one.
LEMMA QuantizedIsNear ==
    ASSUME NEW n \in Int, NEW d \in Nat \ {0}
    PROVE  /\ Quantized(n, d) \in Int
           /\ 2 * (d * Quantized(n, d)) <= 2 * n + d * Cent
           /\ 2 * (d * Quantized(n, d)) >= 2 * n - d * Cent
<1> DEFINE h == HalfEven(n, d * Cent)
<1>1. d * Cent \in Nat \ {0}
  BY ScalesArePositive, ProductOfPositives
<1>2. /\ h \in Int
      /\ 2 * ((d * Cent) * h) <= 2 * n + d * Cent
      /\ 2 * ((d * Cent) * h) >= 2 * n - d * Cent
  BY <1>1, HalfEvenIsNear
<1>3. Quantized(n, d) = Cent * h
  BY DEF Quantized
<1> HIDE DEF h
<1>4. Cent * h \in Int /\ d * (Cent * h) = (d * Cent) * h
  BY <1>2, ScalesArePositive
<1> QED
  BY <1>2, <1>3, <1>4
-----------------------------------------------------------------------------
(* The rate card. *)

\* A rate for a sku is an entry of the card.
LEMMA RateForIsAnEntry ==
    ASSUME NEW contract, NEW sku, contract.rate_cards \in Seq(RateCardEntries)
    PROVE  \/ RateFor(contract, sku) = None
           \/ /\ RateFor(contract, sku) \in RateCardEntries
              /\ \E k \in DOMAIN contract.rate_cards :
                     RateFor(contract, sku) = contract.rate_cards[k]
<1> DEFINE cards == contract.rate_cards
           Has(k) == cards[k].sku = sku
           ks == {k \in DOMAIN cards : Has(k)}
           First(k) == k \in DOMAIN cards /\ Has(k) /\ \A j \in 1 .. k - 1 : ~Has(j)
<1>1. CASE ks = {}
  BY <1>1 DEF RateFor
<1>2. CASE ks # {}
  <2>1. ks \subseteq Nat /\ DOMAIN cards = 1 .. Len(cards) /\ Len(cards) \in Nat
    OBVIOUS
  <2>2. PICK k \in ks : \A j \in ks : k <= j
    <3> HIDE DEF ks
    <3> QED
      BY <1>2, <2>1, LeastElement
  <2>3. First(k)
    <3> SUFFICES ASSUME NEW j \in 1 .. k - 1, Has(j) PROVE FALSE
      BY <2>2
    <3>1. j \in DOMAIN cards
      BY <2>1, <2>2
    <3> QED
      BY <2>1, <2>2, <3>1
  <2>4. RateFor(contract, sku) = cards[CHOOSE i \in DOMAIN cards :
                                      Has(i) /\ \A j \in 1 .. i - 1 : ~Has(j)]
    BY <1>2 DEF RateFor
  <2>5. PICK i \in DOMAIN cards : RateFor(contract, sku) = cards[i]
    BY <2>3, <2>4
  <2> QED
    BY <2>5
<1> QED
  BY <1>1, <1>2

\* A discount leaves something or nothing to pay.
LEMMA DiscountIsAShare ==
    ASSUME NEW entry \in RateCardEntries, NEW quantity \in Nat
    PROVE  ApplicableDiscount(entry, quantity) \in 0 .. Whole
<1> DEFINE earned == {0} \cup {t.discount_pct : t \in
                          {u \in entry.volume_discounts : quantity >= u.min_quantity}}
<1>1. earned \subseteq 0 .. Whole /\ earned # {}
  <2>1. entry.volume_discounts \in SUBSET DiscountTiers
    BY DEF RateCardEntries
  <2>2. \A u \in entry.volume_discounts : u.discount_pct \in 0 .. Whole
    BY <2>1 DEF DiscountTiers
  <2> QED
    BY <2>2, ScalesArePositive
<1>2. \E d \in earned : \A e \in earned : e <= d
  <2>1. Whole \in Nat /\ earned \subseteq 0 .. Whole /\ earned # {}
    BY <1>1, ScalesArePositive
  <2> HIDE DEF earned
  <2> QED
    BY <2>1, GreatestElement
<1>3. ApplicableDiscount(entry, quantity) \in earned
  BY <1>2 DEF ApplicableDiscount
<1> QED
  BY <1>1, <1>3

\* The discounted rate, rounded to cents, is within half a cent of the exact one.
LEMMA ExpectedUnitIsNear ==
    ASSUME NEW entry \in RateCardEntries, NEW quantity \in Nat
    PROVE  LET r == entry.unit_rate.amount
               exact == r * (Whole - ApplicableDiscount(entry, quantity))
               unit == ExpectedUnit(entry, quantity)
           IN /\ r \in Int /\ exact \in Int /\ unit \in Int
              /\ 2 * (Whole * unit) <= 2 * exact + Whole * Cent
              /\ 2 * (Whole * unit) >= 2 * exact - Whole * Cent
<1> DEFINE r == entry.unit_rate.amount
           d == ApplicableDiscount(entry, quantity)
           exact == r * (Whole - d)
<1>1. r \in Int /\ d \in 0 .. Whole
  BY DiscountIsAShare DEF RateCardEntries, Amounts
<1>2. exact \in Int
  <2> HIDE DEF r, d
  <2> QED
    BY <1>1, ScalesArePositive
<1>3. ExpectedUnit(entry, quantity) = Quantized(exact, Whole)
  BY DEF ExpectedUnit
<1> HIDE DEF exact
<1> QED
  BY <1>1, <1>2, <1>3, ScalesArePositive, QuantizedIsNear DEF exact
-----------------------------------------------------------------------------
(* Sequences joined. *)

\* Each entry of g is the one before it in f, with one more sequence joined.
Lengthens(g, f, seqs) ==
    g = [i \in 1 .. Len(seqs) |-> IF i = 1 THEN seqs[i] ELSE f[i - 1] \o seqs[i]]

\* f holds the first sequences of seqs joined, the first one, two and so on.
Joins(f, seqs) == Lengthens(f, f, seqs)

LEMMA SixJoined ==
    ASSUME NEW seqs, NEW f, NEW g, Len(seqs) = 6, Lengthens(g, f, seqs)
    PROVE  /\ g[1] = seqs[1] /\ g[2] = f[1] \o seqs[2] /\ g[3] = f[2] \o seqs[3]
           /\ g[4] = f[3] \o seqs[4] /\ g[5] = f[4] \o seqs[5] /\ g[6] = f[5] \o seqs[6]
<1>1. ASSUME NEW n \in 2 .. 6, NEW m \in 1 .. 5, m = n - 1
      PROVE  g[n] = f[m] \o seqs[n]
  <2>1. n \in 1 .. 6 /\ n # 1
    OBVIOUS
  <2>2. g[n] = f[n - 1] \o seqs[n]
    BY <2>1, Zenon DEF Lengthens
  <2> QED
    BY <1>1, <2>2
<1>2. g[1] = seqs[1]
  BY Z3 DEF Lengthens
<1>3. g[2] = f[1] \o seqs[2]
  <2>1. 2 \in 2 .. 6 /\ 1 \in 1 .. 5 /\ 1 = 2 - 1
    OBVIOUS
  <2> QED
    BY <2>1, <1>1, Zenon
<1>4. g[3] = f[2] \o seqs[3]
  <2>1. 3 \in 2 .. 6 /\ 2 \in 1 .. 5 /\ 2 = 3 - 1
    OBVIOUS
  <2> QED
    BY <2>1, <1>1, Zenon
<1>5. g[4] = f[3] \o seqs[4]
  <2>1. 4 \in 2 .. 6 /\ 3 \in 1 .. 5 /\ 3 = 4 - 1
    OBVIOUS
  <2> QED
    BY <2>1, <1>1, Zenon
<1>6. g[5] = f[4] \o seqs[5]
  <2>1. 5 \in 2 .. 6 /\ 4 \in 1 .. 5 /\ 4 = 5 - 1
    OBVIOUS
  <2> QED
    BY <2>1, <1>1, Zenon
<1>7. g[6] = f[5] \o seqs[6]
  <2>1. 6 \in 2 .. 6 /\ 5 \in 1 .. 5 /\ 5 = 6 - 1
    OBVIOUS
  <2> QED
    BY <2>1, <1>1, Zenon
<1> QED
  BY <1>2, <1>3, <1>4, <1>5, <1>6, <1>7, Zenon

LEMMA FlattenSix ==
    ASSUME NEW seqs, Len(seqs) = 6
    PROVE  \E f : Joins(f, seqs) /\ FlattenSeq(seqs) = f[6]
<1> DEFINE two == seqs[1] \o seqs[2]
           three == two \o seqs[3]
           four == three \o seqs[4]
           five == four \o seqs[5]
           six == five \o seqs[6]
           f == [i \in 1 .. 6 |-> IF i = 1 THEN seqs[1]
                                  ELSE IF i = 2 THEN two
                                  ELSE IF i = 3 THEN three
                                  ELSE IF i = 4 THEN four
                                  ELSE IF i = 5 THEN five ELSE six]
           g == [i \in 1 .. 6 |-> IF i = 1 THEN seqs[i] ELSE f[i - 1] \o seqs[i]]
<1>1. ASSUME NEW i \in 1 .. 6 PROVE f[i] = g[i]
  <2>1. i = 1 \/ i = 2 \/ i = 3 \/ i = 4 \/ i = 5 \/ i = 6
    OBVIOUS
  <2>2. /\ f[1] = seqs[1] /\ f[2] = two /\ f[3] = three
        /\ f[4] = four /\ f[5] = five /\ f[6] = six
    <3> HIDE DEF two, three, four, five, six
    <3>1. f[1] = seqs[1] /\ f[2] = two /\ f[3] = three
      BY Z3
    <3>2. f[4] = four /\ f[5] = five /\ f[6] = six
      BY Z3
    <3> QED
      BY <3>1, <3>2
  <2>3. /\ g[1] = seqs[1] /\ g[2] = f[1] \o seqs[2] /\ g[3] = f[2] \o seqs[3]
        /\ g[4] = f[3] \o seqs[4] /\ g[5] = f[4] \o seqs[5] /\ g[6] = f[5] \o seqs[6]
    <3> HIDE DEF f
    <3>1. Lengthens(g, f, seqs)
      BY DEF Lengthens
    <3> HIDE DEF g
    <3> QED
      BY <3>1, SixJoined
  <2> HIDE DEF f, g
  <2> QED
    BY <2>1, <2>2, <2>3
<1>2. f = g
  <2>1. DOMAIN f = 1 .. 6 /\ DOMAIN g = 1 .. 6 /\ f = [i \in 1 .. 6 |-> f[i]]
        /\ g = [i \in 1 .. 6 |-> g[i]]
    OBVIOUS
  <2> HIDE DEF f, g
  <2> QED
    BY <1>1, <2>1
<1>3. Joins(f, seqs)
  <2> HIDE DEF f
  <2> QED
    BY <1>2 DEF Joins, Lengthens
<1> HIDE DEF f, g
<1>4. \E h : Joins(h, seqs)
  BY <1>3
<1> DEFINE h == CHOOSE h : Joins(h, seqs)
<1>5. FlattenSeq(seqs) = h[6]
  BY DEF FlattenSeq, Joins, Lengthens
<1> QED
  BY <1>4, <1>5
-----------------------------------------------------------------------------
(* What the rules report, one by one and together. *)

\* What validated invoices and contracts hold.
Billed(inv) == inv.line_items \in Seq(LineItems)
Carded(c) == c.rate_cards \in Seq(RateCardEntries)

Prices == {Money(a, c) : a \in Int, c \in DOMAIN Upper}

Findings ==
    [type : FindingTypes, invoice_line_no : Nat \cup {None},
     monetary_impact : Prices \cup {None}, confidence : 0 .. 100, cites : {None}]

\* The numbers of these lines.
LineNos(inv, lines) == {inv.line_items[k].line_no : k \in lines}

\* No other line has the number of this one.
Alone(inv, k) ==
    \A j \in DOMAIN inv.line_items \ {k} : inv.line_items[j].line_no # inv.line_items[k].line_no

\* The findings of an outcome are of this type and name these numbers.
Reports(outcome, type, nos) ==
    LET fs == outcome.findings IN
    /\ outcome.raised = FALSE
    /\ fs \in Seq(Findings)
    /\ \A n \in DOMAIN fs : fs[n].type = type /\ fs[n].invoice_line_no \in nos
    /\ \A no \in nos : \E n \in DOMAIN fs : fs[n].invoice_line_no = no

\* One finding, this one, names the number.
NamedOnce(fs, no, finding) ==
    \E n \in DOMAIN fs :
        /\ fs[n] = finding /\ finding.invoice_line_no = no
        /\ \A m \in DOMAIN fs : fs[m].invoice_line_no = no => m = n

\* A flagged line with a number of its own has the finding made for it, only.
Reported(outcome, inv, report) ==
    \A k \in DOMAIN report :
        Alone(inv, k) => NamedOnce(outcome.findings, inv.line_items[k].line_no, report[k])

LEMMA NoLineNoNumber ==
    ASSUME NEW inv, NEW flagged, LineNos(inv, flagged) = {}
    PROVE  flagged = {}
BY DEF LineNos

\* A line with a number of its own is flagged if its number is a flagged one's.
LEMMA FlaggedByNumber ==
    ASSUME NEW inv, NEW k, Alone(inv, k), NEW flagged, flagged \subseteq DOMAIN inv.line_items,
           k \notin flagged
    PROVE  inv.line_items[k].line_no \notin LineNos(inv, flagged)
BY DEF Alone, LineNos

LEMMA PerLineReports ==
    ASSUME NEW inv, Len(inv.line_items) \in Nat,
           DOMAIN inv.line_items = 1 .. Len(inv.line_items),
           NEW flagged \in SUBSET (DOMAIN inv.line_items), NEW type,
           NEW report, report = [k \in flagged |-> report[k]],
           \A k \in flagged : /\ report[k] \in Findings
                              /\ report[k].type = type
                              /\ report[k].invoice_line_no = inv.line_items[k].line_no
    PROVE  /\ Reports(PerLine(report), type, LineNos(inv, flagged))
           /\ Reported(PerLine(report), inv, report)
<1> DEFINE ks == InOrder(flagged)
           c == Cardinality(flagged)
           fs == [n \in DOMAIN ks |-> report[ks[n]]]
           No(k) == inv.line_items[k].line_no
<1>1. /\ c \in Nat
      /\ ks \in [1 .. c -> flagged]
      /\ DOMAIN ks = 1 .. c
      /\ \A m, n \in DOMAIN ks : ks[m] = ks[n] => m = n
      /\ \A k \in flagged : \E n \in DOMAIN ks : ks[n] = k
  BY InOrderIsExact, Z3
<1>0. DOMAIN report = flagged
  OBVIOUS
<1>2. PerLine(report) = [raised |-> FALSE, findings |-> fs]
  BY <1>0 DEF PerLine, Returns
<1> HIDE DEF ks, c
<1>3. \A n \in DOMAIN ks : ks[n] \in flagged
  BY <1>1
<1>4. fs \in Seq(Findings)
  <2>1. \A n \in 1 .. c : report[ks[n]] \in Findings
    BY <1>1, <1>3
  <2>2. fs = [n \in 1 .. c |-> report[ks[n]]]
    BY <1>1
  <2> HIDE DEF fs
  <2>3. fs \in [1 .. c -> Findings]
    BY <2>1, <2>2
  <2> QED
    BY <1>1, <2>3
<1>5. \A n \in DOMAIN fs : fs[n] = report[ks[n]] /\ fs[n].invoice_line_no = No(ks[n])
  BY <1>3
<1>6. DOMAIN fs = DOMAIN ks
  OBVIOUS
<1> HIDE DEF fs
<1> DEFINE outcome == PerLine(report)
<1>7. outcome.findings = fs /\ outcome.raised = FALSE
  BY <1>2
<1> HIDE DEF outcome
<1>8. Reports(outcome, type, LineNos(inv, flagged))
  <2>1. \A n \in DOMAIN fs : fs[n].type = type /\ fs[n].invoice_line_no \in LineNos(inv, flagged)
    BY <1>3, <1>5, <1>6 DEF LineNos
  <2>2. ASSUME NEW no \in LineNos(inv, flagged)
        PROVE  \E n \in DOMAIN fs : fs[n].invoice_line_no = no
    <3>1. PICK k \in flagged : no = No(k)
      BY <2>2 DEF LineNos
    <3>2. PICK n \in DOMAIN ks : ks[n] = k
      BY <1>1
    <3> QED
      BY <3>1, <3>2, <1>5, <1>6
  <2> QED
    BY <1>4, <1>7, <2>1, <2>2 DEF Reports
<1>9. ASSUME NEW k \in flagged, Alone(inv, k)
      PROVE  NamedOnce(fs, No(k), report[k])
  <2>1. PICK n \in DOMAIN ks : ks[n] = k
    BY <1>1
  <2>2. ASSUME NEW m \in DOMAIN fs, fs[m].invoice_line_no = No(k)
        PROVE  m = n
    <3>1. ks[m] \in DOMAIN inv.line_items /\ No(ks[m]) = No(k)
      BY <1>3, <1>5, <1>6, <2>2
    <3>2. ks[m] = k
      BY <1>9, <3>1 DEF Alone
    <3> QED
      BY <1>1, <1>6, <2>1, <3>2
  <2> QED
    BY <1>5, <1>6, <2>1, <2>2 DEF NamedOnce
<1>10. Reported(outcome, inv, report)
  BY <1>0, <1>7, <1>9 DEF Reported
<1> QED
  BY <1>8, <1>10 DEF outcome
-----------------------------------------------------------------------------
(* What the single rules report. *)

LEMMA FindingIsAFinding ==
    ASSUME NEW type \in FindingTypes, NEW k \in Nat,
           NEW impact \in Prices \cup {None}, NEW confidence \in 0 .. 100
    PROVE  /\ Finding(type, k, impact, confidence) \in Findings
           /\ Finding(type, k, impact, confidence).type = type
           /\ Finding(type, k, impact, confidence).invoice_line_no = k
           /\ Finding(type, k, impact, confidence).monetary_impact = impact
BY DEF Finding, Findings

LEMMA LinesAreLines ==
    ASSUME NEW inv, Billed(inv)
    PROVE  /\ Len(inv.line_items) \in Nat
           /\ DOMAIN inv.line_items = 1 .. Len(inv.line_items)
           /\ \A k \in DOMAIN inv.line_items :
                  LET line == inv.line_items[k]
                  IN /\ line \in LineItems /\ line.line_no \in Nat
                     /\ line.quantity \in Nat /\ line.quantity > 0
                     /\ line.unit_rate.amount \in Int
                     /\ line.unit_rate.currency \in DOMAIN Upper
                     /\ line.line_total.amount \in Int
                     /\ line.line_total.currency \in DOMAIN Upper
<1> DEFINE lines == inv.line_items
<1>1. lines \in Seq(LineItems)
  BY DEF Billed
<1> HIDE DEF lines
<1>2. Len(lines) \in Nat /\ DOMAIN lines = 1 .. Len(lines)
  BY <1>1
<1>3. \A k \in DOMAIN lines : lines[k] \in LineItems
  BY <1>1, <1>2
<1>4. \A line \in LineItems : /\ line.line_no \in Nat
                              /\ line.quantity \in Nat /\ line.quantity > 0
                              /\ line.unit_rate.amount \in Int
                              /\ line.unit_rate.currency \in DOMAIN Upper
                              /\ line.line_total.amount \in Int
                              /\ line.line_total.currency \in DOMAIN Upper
  BY DEF LineItems, Amounts
<1> QED
  BY <1>2, <1>3, <1>4 DEF lines

ElsewhereBilled(inv, c) ==
    {k \in DOMAIN inv.line_items : inv.line_items[k].unit_rate.currency # c.currency}

LEMMA CurrencyMismatchReports ==
    ASSUME NEW inv, Billed(inv), NEW c, Carded(c)
    PROVE  Reports(CurrencyMismatchRule(inv, c), "CURRENCY_MISMATCH",
                   LineNos(inv, ElsewhereBilled(inv, c)))
<1> DEFINE No(k) == inv.line_items[k].line_no
           flagged == ElsewhereBilled(inv, c)
           report == [k \in flagged |-> Finding("CURRENCY_MISMATCH", No(k), None, 99)]
<1>1. /\ Len(inv.line_items) \in Nat /\ DOMAIN inv.line_items = 1 .. Len(inv.line_items)
      /\ flagged \in SUBSET (DOMAIN inv.line_items)
  BY LinesAreLines DEF ElsewhereBilled
<1>0. \A k \in flagged : No(k) \in Nat
  BY <1>1, LinesAreLines
<1>2. CurrencyMismatchRule(inv, c) = PerLine(report)
  BY DEF CurrencyMismatchRule, ElsewhereBilled
<1> HIDE DEF flagged
<1>3. ASSUME NEW k \in flagged
      PROVE  /\ report[k] \in Findings
             /\ report[k].type = "CURRENCY_MISMATCH"
             /\ report[k].invoice_line_no = No(k)
  <2>1. No(k) \in Nat /\ "CURRENCY_MISMATCH" \in FindingTypes
    BY <1>0 DEF FindingTypes
  <2>2. report[k] = Finding("CURRENCY_MISMATCH", No(k), None, 99)
    OBVIOUS
  <2> HIDE DEF report
  <2> QED
    BY <2>1, <2>2, FindingIsAFinding
<1>4. report = [k \in flagged |-> report[k]]
  OBVIOUS
<1> HIDE DEF report
<1>5. Reports(PerLine(report), "CURRENCY_MISMATCH", LineNos(inv, flagged))
  BY <1>1, <1>3, <1>4, PerLineReports
<1> QED
  BY <1>2, <1>5 DEF flagged

MisTotalled(inv) ==
    {k \in DOMAIN inv.line_items :
         LET difference == inv.line_items[k].line_total.amount
                               - ExpectedTotal(inv.line_items[k])
         IN difference > ArithmeticTolerance \/ -difference > ArithmeticTolerance}

LEMMA ExpectedTotalIsNear ==
    ASSUME NEW inv, Billed(inv), NEW k \in DOMAIN inv.line_items
    PROVE  LET line == inv.line_items[k]
               product == line.quantity * line.unit_rate.amount
           IN /\ ExpectedTotal(line) \in Int /\ product \in Int
              /\ 2 * (Piece * ExpectedTotal(line)) <= 2 * product + Piece * Cent
              /\ 2 * (Piece * ExpectedTotal(line)) >= 2 * product - Piece * Cent
<1> DEFINE line == inv.line_items[k]
           n == line.quantity * line.unit_rate.amount
<1>1. line.quantity \in Int /\ line.unit_rate.amount \in Int
  BY LinesAreLines
<1>2. n \in Int
  <2> HIDE DEF line
  <2> QED
    BY <1>1
<1>3. ExpectedTotal(line) = Quantized(n, Piece)
  BY DEF ExpectedTotal
<1> HIDE DEF n
<1> QED
  BY <1>2, <1>3, ScalesArePositive, QuantizedIsNear DEF n

LEMMA ArithmeticReports ==
    ASSUME NEW inv, Billed(inv), NEW c, Carded(c)
    PROVE  \/ ArithmeticRule(inv, c) = Raised
           \/ /\ Reports(ArithmeticRule(inv, c), "ARITHMETIC_ERROR",
                         LineNos(inv, MisTotalled(inv)))
              /\ \A k \in DOMAIN inv.line_items :
                     inv.line_items[k].unit_rate.currency
                         = inv.line_items[k].line_total.currency
<1> DEFINE lines == inv.line_items
           No(k) == inv.line_items[k].line_no
           flagged == MisTotalled(inv)
           Difference(k) == lines[k].line_total.amount - ExpectedTotal(lines[k])
           Impact1(k) == Money(Piece * Difference(k), lines[k].line_total.currency)
           report == [k \in flagged |-> Finding("ARITHMETIC_ERROR", No(k), Impact1(k), 99)]
<1>1. /\ Len(inv.line_items) \in Nat /\ DOMAIN inv.line_items = 1 .. Len(inv.line_items)
      /\ flagged \in SUBSET (DOMAIN inv.line_items)
  BY LinesAreLines DEF MisTotalled
<1>0. \A k \in flagged : No(k) \in Nat
  BY <1>1, LinesAreLines
<1>2. \/ ArithmeticRule(inv, c) = Raised
      \/ /\ ArithmeticRule(inv, c) = PerLine(report)
         /\ \A k \in DOMAIN lines : lines[k].unit_rate.currency
                                        = lines[k].line_total.currency
  BY DEF ArithmeticRule, MisTotalled
<1>3. ASSUME NEW k \in flagged PROVE Impact1(k) \in Prices
  <2>1. k \in DOMAIN lines
    BY <1>3 DEF MisTotalled
  <2>2. /\ lines[k].line_total.amount \in Int /\ lines[k].line_total.currency \in DOMAIN Upper
        /\ ExpectedTotal(lines[k]) \in Int
    BY <2>1, LinesAreLines, ExpectedTotalIsNear
  <2>3. Piece * Difference(k) \in Int
    <3> HIDE DEF lines
    <3> QED
      BY <2>2, ScalesArePositive
  <2> QED
    BY <2>2, <2>3 DEF Prices
<1> HIDE DEF flagged, Impact1
<1>4. ASSUME NEW k \in flagged
      PROVE  /\ report[k] \in Findings
             /\ report[k].type = "ARITHMETIC_ERROR"
             /\ report[k].invoice_line_no = No(k)
  <2> DEFINE no == No(k)
             impact == Impact1(k)
  <2>1. /\ no \in Nat /\ "ARITHMETIC_ERROR" \in FindingTypes
        /\ impact \in Prices \cup {None} /\ 99 \in 0 .. 100
    BY <1>0, <1>3 DEF FindingTypes
  <2>2. report[k] = Finding("ARITHMETIC_ERROR", no, impact, 99)
    OBVIOUS
  <2> HIDE DEF report, no, impact
  <2>3. /\ Finding("ARITHMETIC_ERROR", no, impact, 99) \in Findings
        /\ Finding("ARITHMETIC_ERROR", no, impact, 99).type = "ARITHMETIC_ERROR"
        /\ Finding("ARITHMETIC_ERROR", no, impact, 99).invoice_line_no = no
    BY <2>1 DEF Finding, Findings
  <2> QED
    BY <2>2, <2>3 DEF no
<1>5. report = [k \in flagged |-> report[k]]
  OBVIOUS
<1> HIDE DEF report
<1>6. Reports(PerLine(report), "ARITHMETIC_ERROR", LineNos(inv, flagged))
  BY <1>1, <1>4, <1>5, PerLineReports
<1> QED
  BY <1>2, <1>6 DEF flagged

LEMMA ContractedEntry ==
    ASSUME NEW c, Carded(c), NEW sku, RateFor(c, sku) # None
    PROVE  RateFor(c, sku) \in RateCardEntries
BY RateForIsAnEntry DEF Carded

Contracted(line, c) == RateFor(c, line.sku).unit_rate.amount

Overcharged(inv, c) ==
    {k \in DOMAIN inv.line_items :
         /\ Comparable(inv.line_items[k], c)
         /\ inv.line_items[k].unit_rate.amount > Contracted(inv.line_items[k], c)}

\* A flagged line with a number of its own has one finding, which claims the
\* excess over the rate.
Claims(outcome, inv, flagged, Rate(_)) ==
    \A k \in flagged : Alone(inv, k) =>
        LET line == inv.line_items[k]
        IN \E finding :
               /\ NamedOnce(outcome.findings, line.line_no, finding)
               /\ finding.monetary_impact.amount = Excess(line, Rate(line))

LEMMA ExcessIsAnAmount ==
    ASSUME NEW inv, Billed(inv), NEW k \in DOMAIN inv.line_items, NEW rate \in Int
    PROVE  Excess(inv.line_items[k], rate) \in Int
<1> DEFINE line == inv.line_items[k]
<1>1. line.quantity \in Int /\ line.unit_rate.amount \in Int
  BY LinesAreLines
<1> HIDE DEF line
<1>2. (line.unit_rate.amount - rate) * line.quantity \in Int
  BY <1>1
<1> QED
  BY <1>2 DEF Excess, line

LEMMA RateMismatchReports ==
    ASSUME NEW inv, Billed(inv), NEW c, Carded(c)
    PROVE  /\ Reports(RateMismatchRule(inv, c), "RATE_MISMATCH",
                      LineNos(inv, Overcharged(inv, c)))
           /\ Claims(RateMismatchRule(inv, c), inv, Overcharged(inv, c),
                     LAMBDA line : Contracted(line, c))
<1> DEFINE lines == inv.line_items
           No(k) == inv.line_items[k].line_no
           flagged == Overcharged(inv, c)
           Claim(k) == Excess(lines[k], Contracted(lines[k], c))
           Impact1(k) == Money(Claim(k), lines[k].unit_rate.currency)
           report == [k \in flagged |-> Finding("RATE_MISMATCH", No(k), Impact1(k), 97)]
<1>1. /\ Len(inv.line_items) \in Nat /\ DOMAIN inv.line_items = 1 .. Len(inv.line_items)
      /\ flagged \in SUBSET (DOMAIN inv.line_items)
  BY LinesAreLines DEF Overcharged
<1>0. \A k \in flagged : No(k) \in Nat
  BY <1>1, LinesAreLines
<1>2. RateMismatchRule(inv, c) = PerLine(report)
  BY DEF RateMismatchRule, Overcharged, Contracted
<1>3. ASSUME NEW k \in flagged PROVE Impact1(k) \in Prices
  <2>1. k \in DOMAIN lines /\ RateFor(c, lines[k].sku) # None
    BY <1>3 DEF Overcharged, Comparable
  <2>2. RateFor(c, lines[k].sku) \in RateCardEntries
    BY <2>1, ContractedEntry
  <2>3. Contracted(lines[k], c) \in Int
    BY <2>2 DEF Contracted, RateCardEntries, Amounts
  <2>4. lines[k].unit_rate.currency \in DOMAIN Upper /\ Claim(k) \in Int
    BY <2>1, <2>3, LinesAreLines, ExcessIsAnAmount
  <2> QED
    BY <2>4 DEF Prices
<1>4. \A k : Impact1(k).amount = Claim(k)
  BY DEF Money
<1> HIDE DEF flagged, Impact1
<1>5. ASSUME NEW k \in flagged
      PROVE  /\ report[k] \in Findings
             /\ report[k].type = "RATE_MISMATCH"
             /\ report[k].invoice_line_no = No(k)
             /\ report[k].monetary_impact = Impact1(k)
  <2>1. No(k) \in Nat /\ "RATE_MISMATCH" \in FindingTypes
    BY <1>0 DEF FindingTypes
  <2>2. report[k] = Finding("RATE_MISMATCH", No(k), Impact1(k), 97)
    OBVIOUS
  <2> HIDE DEF report
  <2> QED
    BY <1>3, <2>1, <2>2, FindingIsAFinding
<1>6. report = [k \in flagged |-> report[k]]
  OBVIOUS
<1> HIDE DEF report
<1>7. /\ Reports(PerLine(report), "RATE_MISMATCH", LineNos(inv, flagged))
      /\ Reported(PerLine(report), inv, report)
  BY <1>1, <1>5, <1>6, PerLineReports
<1>8. Claims(PerLine(report), inv, flagged, LAMBDA line : Contracted(line, c))
  BY <1>4, <1>5, <1>6, <1>7 DEF Claims, Reported
<1> QED
  BY <1>2, <1>7, <1>8 DEF flagged

Discount(line, c) == ApplicableDiscount(RateFor(c, line.sku), line.quantity)

Discounted(line, c) == ExpectedUnit(RateFor(c, line.sku), line.quantity)

Undiscounted(inv, c) ==
    {k \in DOMAIN inv.line_items :
         LET line == inv.line_items[k]
         IN /\ Comparable(line, c)
            /\ Discount(line, c) > 0
            /\ line.unit_rate.amount > Discounted(line, c)}

\* The rates a line is compared with.
LEMMA RatesOfALine ==
    ASSUME NEW inv, Billed(inv), NEW c, Carded(c), NEW k \in DOMAIN inv.line_items,
           Comparable(inv.line_items[k], c)
    PROVE  LET line == inv.line_items[k]
           IN /\ Contracted(line, c) \in Int
              /\ Discounted(line, c) \in Int
              /\ Discount(line, c) \in 0 .. Whole
              /\ LET exact == Contracted(line, c) * (Whole - Discount(line, c))
                 IN /\ exact \in Int
                    /\ 2 * (Whole * Discounted(line, c)) <= 2 * exact + Whole * Cent
                    /\ 2 * (Whole * Discounted(line, c)) >= 2 * exact - Whole * Cent
<1> DEFINE line == inv.line_items[k]
           entry == RateFor(c, line.sku)
<1>1. entry \in RateCardEntries
  BY ContractedEntry DEF Comparable
<1>2. line.quantity \in Nat
  BY LinesAreLines
<1> QED
  BY <1>1, <1>2, DiscountIsAShare, ExpectedUnitIsNear
     DEF Contracted, Discount, Discounted

LEMMA MissedVolumeDiscountReports ==
    ASSUME NEW inv, Billed(inv), NEW c, Carded(c)
    PROVE  \/ MissedVolumeDiscountRule(inv, c) = Raised
           \/ /\ Reports(MissedVolumeDiscountRule(inv, c), "MISSED_VOLUME_DISCOUNT",
                         LineNos(inv, Undiscounted(inv, c)))
              /\ Claims(MissedVolumeDiscountRule(inv, c), inv, Undiscounted(inv, c),
                        LAMBDA line : Discounted(line, c))
<1> DEFINE lines == inv.line_items
           No(k) == inv.line_items[k].line_no
           flagged == Undiscounted(inv, c)
           Claim(k) == Excess(lines[k], Discounted(lines[k], c))
           Impact1(k) == Money(Claim(k), lines[k].unit_rate.currency)
           report == [k \in flagged |->
                          Finding("MISSED_VOLUME_DISCOUNT", No(k), Impact1(k), 90)]
<1>1. /\ Len(inv.line_items) \in Nat /\ DOMAIN inv.line_items = 1 .. Len(inv.line_items)
      /\ flagged \in SUBSET (DOMAIN inv.line_items)
  BY LinesAreLines DEF Undiscounted
<1>0. \A k \in flagged : No(k) \in Nat
  BY <1>1, LinesAreLines
<1>2. \/ MissedVolumeDiscountRule(inv, c) = Raised
      \/ MissedVolumeDiscountRule(inv, c) = PerLine(report)
  BY DEF MissedVolumeDiscountRule, Undiscounted, Discount, Discounted
<1>3. ASSUME NEW k \in flagged PROVE Impact1(k) \in Prices
  <2>1. k \in DOMAIN lines /\ Comparable(lines[k], c)
    BY <1>3 DEF Undiscounted
  <2>2. Discounted(lines[k], c) \in Int
    BY <2>1, RatesOfALine
  <2>3. lines[k].unit_rate.currency \in DOMAIN Upper /\ Claim(k) \in Int
    BY <2>1, <2>2, LinesAreLines, ExcessIsAnAmount
  <2> QED
    BY <2>3 DEF Prices
<1>4. \A k : Impact1(k).amount = Claim(k)
  BY DEF Money
<1> HIDE DEF flagged, Impact1
<1>5. ASSUME NEW k \in flagged
      PROVE  /\ report[k] \in Findings
             /\ report[k].type = "MISSED_VOLUME_DISCOUNT"
             /\ report[k].invoice_line_no = No(k)
             /\ report[k].monetary_impact = Impact1(k)
  <2>1. No(k) \in Nat /\ "MISSED_VOLUME_DISCOUNT" \in FindingTypes
    BY <1>0 DEF FindingTypes
  <2>2. report[k] = Finding("MISSED_VOLUME_DISCOUNT", No(k), Impact1(k), 90)
    OBVIOUS
  <2> HIDE DEF report
  <2> QED
    BY <1>3, <2>1, <2>2, FindingIsAFinding
<1>6. report = [k \in flagged |-> report[k]]
  OBVIOUS
<1> HIDE DEF report
<1>7. /\ Reports(PerLine(report), "MISSED_VOLUME_DISCOUNT", LineNos(inv, flagged))
      /\ Reported(PerLine(report), inv, report)
  BY <1>1, <1>5, <1>6, PerLineReports
<1>8. Claims(PerLine(report), inv, flagged, LAMBDA line : Discounted(line, c))
  BY <1>4, <1>5, <1>6, <1>7 DEF Claims, Reported
<1> QED
  BY <1>2, <1>7, <1>8 DEF flagged

Expired(inv, c) == IF IsActiveOn(c, inv.invoice_date) THEN {} ELSE {None}

LEMMA OutOfTermReports ==
    ASSUME NEW inv, Billed(inv), NEW c, Carded(c)
    PROVE  Reports(OutOfTermRule(inv, c), "OUT_OF_TERM", Expired(inv, c))
<1> DEFINE finding == Finding("OUT_OF_TERM", None, None, 95)
<1>1. /\ finding \in Findings /\ finding.type = "OUT_OF_TERM"
      /\ finding.invoice_line_no = None
  <2>1. /\ "OUT_OF_TERM" \in FindingTypes /\ None \in Nat \cup {None}
        /\ None \in Prices \cup {None} /\ 95 \in 0 .. 100
    BY DEF FindingTypes
  <2> QED
    BY <2>1 DEF Finding, Findings
<1> HIDE DEF finding
<1>2. CASE IsActiveOn(c, inv.invoice_date)
  BY <1>2 DEF OutOfTermRule, Expired, Returns, Reports
<1>3. CASE ~IsActiveOn(c, inv.invoice_date)
  <2>1. OutOfTermRule(inv, c) = [raised |-> FALSE, findings |-> <<finding>>]
    BY <1>3 DEF OutOfTermRule, Returns, finding
  <2>2. <<finding>> \in Seq(Findings) /\ DOMAIN <<finding>> = {1}
    BY <1>1
  <2> QED
    BY <1>1, <1>3, <2>1, <2>2 DEF Reports, Expired
<1> QED
  BY <1>2, <1>3

Uncontracted(inv, c) ==
    {k \in DOMAIN inv.line_items : RateFor(c, inv.line_items[k].sku) = None}

LEMMA UncontractedItemReports ==
    ASSUME NEW inv, Billed(inv), NEW c, Carded(c)
    PROVE  Reports(UncontractedItemRule(inv, c), "UNCONTRACTED_ITEM",
                   LineNos(inv, Uncontracted(inv, c)))
<1> DEFINE No(k) == inv.line_items[k].line_no
           flagged == Uncontracted(inv, c)
           report == [k \in flagged |-> Finding("UNCONTRACTED_ITEM", No(k), None, 85)]
<1>1. /\ Len(inv.line_items) \in Nat /\ DOMAIN inv.line_items = 1 .. Len(inv.line_items)
      /\ flagged \in SUBSET (DOMAIN inv.line_items)
  BY LinesAreLines DEF Uncontracted
<1>0. \A k \in flagged : No(k) \in Nat
  BY <1>1, LinesAreLines
<1>2. UncontractedItemRule(inv, c) = PerLine(report)
  BY DEF UncontractedItemRule, Uncontracted
<1> HIDE DEF flagged
<1>3. ASSUME NEW k \in flagged
      PROVE  /\ report[k] \in Findings
             /\ report[k].type = "UNCONTRACTED_ITEM"
             /\ report[k].invoice_line_no = No(k)
  <2>1. No(k) \in Nat /\ "UNCONTRACTED_ITEM" \in FindingTypes
    BY <1>0 DEF FindingTypes
  <2>2. report[k] = Finding("UNCONTRACTED_ITEM", No(k), None, 85)
    OBVIOUS
  <2> HIDE DEF report
  <2> QED
    BY <2>1, <2>2, FindingIsAFinding
<1>4. report = [k \in flagged |-> report[k]]
  OBVIOUS
<1> HIDE DEF report
<1>5. Reports(PerLine(report), "UNCONTRACTED_ITEM", LineNos(inv, flagged))
  BY <1>1, <1>3, <1>4, PerLineReports
<1> QED
  BY <1>2, <1>5 DEF flagged
-----------------------------------------------------------------------------
(* The rules in their order. *)

Turns == 1 .. 6

LEMMA SixRules ==
    /\ Len(DefaultRules) = 6 /\ DOMAIN DefaultRules = Turns
    /\ \A inv, c :
           /\ Outcome(DefaultRules[1], inv, c) = CurrencyMismatchRule(inv, c)
           /\ Outcome(DefaultRules[2], inv, c) = ArithmeticRule(inv, c)
           /\ Outcome(DefaultRules[3], inv, c) = RateMismatchRule(inv, c)
           /\ Outcome(DefaultRules[4], inv, c) = MissedVolumeDiscountRule(inv, c)
           /\ Outcome(DefaultRules[5], inv, c) = OutOfTermRule(inv, c)
           /\ Outcome(DefaultRules[6], inv, c) = UncontractedItemRule(inv, c)
BY DEF DefaultRules, Outcome, Turns

\* A rule returns a sequence of findings, or raises and leaves none.
LEMMA OutcomesAreSequences ==
    ASSUME NEW inv, Billed(inv), NEW c, Carded(c), NEW t \in Turns
    PROVE  LET outcome == Outcome(DefaultRules[t], inv, c)
           IN /\ outcome.findings \in Seq(Findings)
              /\ outcome.raised \in BOOLEAN
              /\ outcome.raised => outcome.findings = <<>>
<1> DEFINE Sound(outcome) == /\ outcome.findings \in Seq(Findings)
                             /\ outcome.raised \in BOOLEAN
                             /\ outcome.raised => outcome.findings = <<>>
<1>1. Sound(Raised)
  BY DEF Raised
<1>2. \A outcome, type, flagged : Reports(outcome, type, flagged) => Sound(outcome)
  BY DEF Reports
<1> HIDE DEF Sound
<1>3. /\ Sound(CurrencyMismatchRule(inv, c)) /\ Sound(ArithmeticRule(inv, c))
      /\ Sound(RateMismatchRule(inv, c)) /\ Sound(MissedVolumeDiscountRule(inv, c))
      /\ Sound(OutOfTermRule(inv, c)) /\ Sound(UncontractedItemRule(inv, c))
  BY <1>1, <1>2, CurrencyMismatchReports, ArithmeticReports, RateMismatchReports,
     MissedVolumeDiscountReports, OutOfTermReports, UncontractedItemReports
<1>4. Sound(Outcome(DefaultRules[t], inv, c))
  <2>1. t = 1 \/ t = 2 \/ t = 3 \/ t = 4 \/ t = 5 \/ t = 6
    BY DEF Turns
  <2> QED
    BY <1>3, <2>1, SixRules
<1> QED
  BY <1>4 DEF Sound

\* The findings of the rules, turn by turn.
Found(inv, c) ==
    [n \in DOMAIN DefaultRules |-> Outcome(DefaultRules[n], inv, c).findings]

\* The findings of the first rules, one of them, two and so on.
Collected(inv, c) ==
    CHOOSE f : Joins(f, Found(inv, c)) /\ FlattenSeq(Found(inv, c)) = f[6]

LEMMA CollectedTurnByTurn ==
    ASSUME NEW inv, Billed(inv), NEW c, Carded(c)
    PROVE  /\ \A t \in Turns :
                  /\ Collected(inv, c)[t] \in Seq(Findings)
                  /\ Found(inv, c)[t] \in Seq(Findings)
                  /\ Found(inv, c)[t] = Outcome(DefaultRules[t], inv, c).findings
                  /\ Collected(inv, c)[t] =
                         IF t = 1 THEN Found(inv, c)[t]
                         ELSE Collected(inv, c)[t - 1] \o Found(inv, c)[t]
           /\ Joins(Collected(inv, c), Found(inv, c)) /\ Len(Found(inv, c)) = 6
           /\ Evaluate(inv, c) = Collected(inv, c)[6]
<1> DEFINE fs == Found(inv, c)
           f == Collected(inv, c)
<1>1. \A t \in Turns : /\ fs[t] \in Seq(Findings)
                       /\ fs[t] = Outcome(DefaultRules[t], inv, c).findings
  BY SixRules, OutcomesAreSequences DEF Found
<1>2. Len(fs) = 6
  <2>1. fs = [n \in 1 .. 6 |-> Outcome(DefaultRules[n], inv, c).findings]
    BY SixRules DEF Found, Turns
  <2>2. fs \in Seq({Outcome(DefaultRules[n], inv, c).findings : n \in 1 .. 6})
    <3> HIDE DEF fs
    <3>1. 6 \in Nat /\ fs \in [1 .. 6 -> {Outcome(DefaultRules[n], inv, c).findings :
                                             n \in 1 .. 6}]
      BY <2>1
    <3> QED
      BY <3>1, SeqDef
  <2> HIDE DEF fs
  <2> QED
    BY <2>1, <2>2
<1>3. Joins(f, fs) /\ FlattenSeq(fs) = f[6]
  BY <1>2, FlattenSix DEF Collected
<1> HIDE DEF f, fs
<1>4. \A t \in Turns : f[t] = IF t = 1 THEN fs[t] ELSE f[t - 1] \o fs[t]
  BY <1>2, <1>3, Zenon DEF Joins, Lengthens, Turns
<1>5. \A t \in Turns : f[t] \in Seq(Findings)
  <2>1. 1 \in Turns /\ 2 \in Turns /\ 3 \in Turns /\ 4 \in Turns /\ 5 \in Turns
        /\ 6 \in Turns
    BY DEF Turns
  <2>2. ASSUME NEW t \in Turns, t # 1, f[t - 1] \in Seq(Findings)
        PROVE  f[t] \in Seq(Findings)
    <3>1. f[t] = f[t - 1] \o fs[t] /\ fs[t] \in Seq(Findings)
      BY <1>1, <1>4, <2>2
    <3> QED
      BY <2>2, <3>1
  <2>3. 2 - 1 = 1 /\ 3 - 1 = 2 /\ 4 - 1 = 3 /\ 5 - 1 = 4 /\ 6 - 1 = 5
    OBVIOUS
  <2>4. f[1] \in Seq(Findings)
    BY <1>1, <1>4, <2>1
  <2>5. f[2] \in Seq(Findings)
    BY <2>1, <2>2, <2>3, <2>4
  <2>6. f[3] \in Seq(Findings)
    BY <2>1, <2>2, <2>3, <2>5
  <2>7. f[4] \in Seq(Findings)
    BY <2>1, <2>2, <2>3, <2>6
  <2>8. f[5] \in Seq(Findings)
    BY <2>1, <2>2, <2>3, <2>7
  <2>9. f[6] \in Seq(Findings)
    BY <2>1, <2>2, <2>3, <2>8
  <2> QED
    BY <2>4, <2>5, <2>6, <2>7, <2>8, <2>9 DEF Turns
<1>6. Evaluate(inv, c) = FlattenSeq(fs)
  BY DEF Evaluate, fs, Found
<1> QED
  BY <1>1, <1>2, <1>3, <1>4, <1>5, <1>6 DEF f, fs

\* The findings of an evaluation are those of the six rules, one after another.
LEMMA EvaluateJoins ==
    ASSUME NEW inv, Billed(inv), NEW c, Carded(c)
    PROVE  LET f == Found(inv, c)
           IN /\ \A t \in Turns : f[t] \in Seq(Findings)
              /\ Evaluate(inv, c) = ((((f[1] \o f[2]) \o f[3]) \o f[4]) \o f[5]) \o f[6]
<1> DEFINE f == Found(inv, c)
           g == Collected(inv, c)
<1>1. \A t \in Turns : f[t] \in Seq(Findings)
  BY CollectedTurnByTurn
<1>2. Joins(g, f) /\ Len(f) = 6 /\ Evaluate(inv, c) = g[6]
  BY CollectedTurnByTurn
<1> HIDE DEF f, g
<1>3. Lengthens(g, g, f)
  BY <1>2 DEF Joins
<1>4. /\ g[1] = f[1] /\ g[2] = g[1] \o f[2] /\ g[3] = g[2] \o f[3]
      /\ g[4] = g[3] \o f[4] /\ g[5] = g[4] \o f[5] /\ g[6] = g[5] \o f[6]
  BY <1>2, <1>3, SixJoined
<1> QED
  BY <1>1, <1>2, <1>4 DEF f

LEMMA EmptyParts ==
    ASSUME NEW S, NEW s \in Seq(S), NEW t \in Seq(S), s \o t = <<>>
    PROVE  s = <<>> /\ t = <<>>
<1>1. Len(s) + Len(t) = 0 /\ Len(s) \in Nat /\ Len(t) \in Nat
  <2>1. Len(s \o t) = Len(s) + Len(t)
    OBVIOUS
  <2> QED
    BY <2>1
<1>2. Len(s) = 0 /\ Len(t) = 0
  BY <1>1
<1> QED
  BY <1>2

LEMMA NothingFound ==
    ASSUME NEW inv, Billed(inv), NEW c, Carded(c), Evaluate(inv, c) = <<>>
    PROVE  \A t \in Turns : Outcome(DefaultRules[t], inv, c).findings = <<>>
<1> DEFINE f == Found(inv, c)
           two == f[1] \o f[2]
           three == two \o f[3]
           four == three \o f[4]
           five == four \o f[5]
<1>1. /\ \A t \in Turns : f[t] \in Seq(Findings)
      /\ five \o f[6] = <<>>
  BY EvaluateJoins
<1>12. \A t \in Turns : f[t] = Outcome(DefaultRules[t], inv, c).findings
  BY CollectedTurnByTurn
<1> HIDE DEF f
<1>2. /\ f[1] \in Seq(Findings) /\ f[2] \in Seq(Findings) /\ f[3] \in Seq(Findings)
      /\ f[4] \in Seq(Findings) /\ f[5] \in Seq(Findings) /\ f[6] \in Seq(Findings)
  BY <1>1 DEF Turns
<1>3. two \in Seq(Findings)
  BY <1>2
<1>4. three \in Seq(Findings)
  BY <1>2, <1>3
<1>5. four \in Seq(Findings)
  BY <1>2, <1>4
<1>6. five \in Seq(Findings)
  BY <1>2, <1>5
<1> HIDE DEF five
<1>7. f[6] = <<>> /\ five = <<>>
  BY <1>1, <1>2, <1>6, EmptyParts
<1> USE DEF five
<1> HIDE DEF four
<1>8. f[5] = <<>> /\ four = <<>>
  BY <1>2, <1>5, <1>7, EmptyParts
<1> USE DEF four
<1> HIDE DEF three
<1>9. f[4] = <<>> /\ three = <<>>
  BY <1>2, <1>4, <1>8, EmptyParts
<1> USE DEF three
<1> HIDE DEF two
<1>10. f[3] = <<>> /\ two = <<>>
  BY <1>2, <1>3, <1>9, EmptyParts
<1> USE DEF two
<1>11. f[1] = <<>> /\ f[2] = <<>>
  BY <1>2, <1>10, EmptyParts
<1> QED
  BY <1>7, <1>8, <1>9, <1>10, <1>11, <1>12 DEF Turns
\* Where nothing was found, every line is contracted, in the contract's
\* currency, at no more than the contracted rate, and the term has not ended.
LEMMA NothingToFind ==
    ASSUME NEW inv, Billed(inv), NEW c, Carded(c), Evaluate(inv, c) = <<>>
    PROVE  /\ IsActiveOn(c, inv.invoice_date)
           /\ \A k \in DOMAIN inv.line_items :
                  LET line == inv.line_items[k]
                  IN /\ line.unit_rate.currency = c.currency
                     /\ RateFor(c, line.sku) # None
                     /\ Comparable(line, c) => line.unit_rate.amount <= Contracted(line, c)
<1>1. /\ CurrencyMismatchRule(inv, c).findings = <<>> /\ RateMismatchRule(inv, c).findings = <<>>
      /\ OutOfTermRule(inv, c).findings = <<>> /\ UncontractedItemRule(inv, c).findings = <<>>
  <2>1. 1 \in Turns /\ 3 \in Turns /\ 5 \in Turns /\ 6 \in Turns
    BY DEF Turns
  <2> QED
    BY <2>1, NothingFound, SixRules
<1>2. \A outcome, type, flagged :
          Reports(outcome, type, flagged) /\ outcome.findings = <<>> => flagged = {}
  BY DEF Reports
<1>3. ElsewhereBilled(inv, c) = {}
  BY <1>1, <1>2, CurrencyMismatchReports, NoLineNoNumber
<1>4. Overcharged(inv, c) = {}
  <2>1. Reports(RateMismatchRule(inv, c), "RATE_MISMATCH", LineNos(inv, Overcharged(inv, c)))
    BY RateMismatchReports DEF Claims
  <2> QED
    BY <1>1, <1>2, <2>1, NoLineNoNumber
<1>5. Expired(inv, c) = {}
  BY <1>1, <1>2, OutOfTermReports
<1>6. Uncontracted(inv, c) = {}
  BY <1>1, <1>2, UncontractedItemReports, NoLineNoNumber
<1>7. IsActiveOn(c, inv.invoice_date)
  BY <1>5 DEF Expired
<1>8. ASSUME NEW k \in DOMAIN inv.line_items
      PROVE  LET line == inv.line_items[k]
             IN /\ line.unit_rate.currency = c.currency
                /\ RateFor(c, line.sku) # None
                /\ Comparable(line, c) => line.unit_rate.amount <= Contracted(line, c)
  <2> DEFINE line == inv.line_items[k]
  <2>1. line.unit_rate.currency = c.currency /\ RateFor(c, line.sku) # None
    BY <1>3, <1>6 DEF ElsewhereBilled, Uncontracted
  <2>2. ASSUME Comparable(line, c) PROVE line.unit_rate.amount <= Contracted(line, c)
    <3>1. ~(line.unit_rate.amount > Contracted(line, c))
      BY <1>4, <2>2 DEF Overcharged
    <3>2. line.unit_rate.amount \in Int /\ Contracted(line, c) \in Int
      BY <2>2, LinesAreLines, RatesOfALine
    <3> HIDE DEF line
    <3> QED
      BY <3>1, <3>2
  <2> QED
    BY <2>1, <2>2
<1> QED
  BY <1>7, <1>8

Without(s, type) == \A n \in DOMAIN s : s[n].type # type

LEMMA WithoutBoth ==
    ASSUME NEW S, NEW s \in Seq(S), NEW t \in Seq(S), NEW type,
           Without(s, type), Without(t, type)
    PROVE  Without(s \o t, type)
<1> SUFFICES ASSUME NEW n \in DOMAIN (s \o t) PROVE (s \o t)[n].type # type
  BY DEF Without
<1>1. CASE n \in DOMAIN s
  BY <1>1 DEF Without
<1>2. CASE n \notin DOMAIN s
  <2>1. n - Len(s) \in DOMAIN t /\ (s \o t)[n] = t[n - Len(s)]
    BY <1>2
  <2> QED
    BY <2>1 DEF Without
<1> QED
  BY <1>1, <1>2

\* A currency mismatch is reported for a line in another currency only.
LEMMA MismatchesFound ==
    ASSUME NEW inv, Billed(inv), NEW c, Carded(c), NEW n \in DOMAIN Evaluate(inv, c),
           Evaluate(inv, c)[n].type = "CURRENCY_MISMATCH"
    PROVE  ElsewhereBilled(inv, c) # {}
<1> SUFFICES ASSUME ElsewhereBilled(inv, c) = {}
             PROVE  Without(Evaluate(inv, c), "CURRENCY_MISMATCH")
  BY DEF Without
<1> DEFINE type == "CURRENCY_MISMATCH"
           f == Found(inv, c)
           two == f[1] \o f[2]
           three == two \o f[3]
           four == three \o f[4]
           five == four \o f[5]
<1>1. /\ \A t \in Turns : f[t] \in Seq(Findings)
      /\ Evaluate(inv, c) = five \o f[6]
  BY EvaluateJoins
<1>2. \A t \in Turns : f[t] = Outcome(DefaultRules[t], inv, c).findings
  BY CollectedTurnByTurn
<1>3. \A outcome, other, flagged :
          Reports(outcome, other, flagged) /\ (other # type \/ flagged = {})
              => Without(outcome.findings, type)
  BY DEF Reports, Without
<1>4. Without(Raised.findings, type)
  BY DEF Raised, Without
<1>5. /\ Without(CurrencyMismatchRule(inv, c).findings, type)
      /\ Without(ArithmeticRule(inv, c).findings, type)
      /\ Without(RateMismatchRule(inv, c).findings, type)
      /\ Without(MissedVolumeDiscountRule(inv, c).findings, type)
      /\ Without(OutOfTermRule(inv, c).findings, type)
      /\ Without(UncontractedItemRule(inv, c).findings, type)
  <2>1. LineNos(inv, ElsewhereBilled(inv, c)) = {}
    BY DEF LineNos
  <2> QED
    BY <1>3, <1>4, <2>1, CurrencyMismatchReports, ArithmeticReports, RateMismatchReports,
       MissedVolumeDiscountReports, OutOfTermReports, UncontractedItemReports
<1>6. \A t \in Turns : Without(f[t], type)
  <2> SUFFICES ASSUME NEW t \in Turns
               PROVE  Without(Outcome(DefaultRules[t], inv, c).findings, type)
    BY <1>2
  <2>1. t = 1 \/ t = 2 \/ t = 3 \/ t = 4 \/ t = 5 \/ t = 6
    BY DEF Turns
  <2> HIDE DEF type
  <2> QED
    BY <1>5, <2>1, SixRules
<1> HIDE DEF f, type
<1>7. /\ f[1] \in Seq(Findings) /\ f[2] \in Seq(Findings) /\ f[3] \in Seq(Findings)
      /\ f[4] \in Seq(Findings) /\ f[5] \in Seq(Findings) /\ f[6] \in Seq(Findings)
  BY <1>1 DEF Turns
<1>8. /\ Without(f[1], type) /\ Without(f[2], type) /\ Without(f[3], type)
      /\ Without(f[4], type) /\ Without(f[5], type) /\ Without(f[6], type)
  BY <1>6 DEF Turns
<1>9. two \in Seq(Findings) /\ Without(two, type)
  BY <1>7, <1>8, WithoutBoth
<1> HIDE DEF two
<1>10. three \in Seq(Findings) /\ Without(three, type)
  BY <1>7, <1>8, <1>9, WithoutBoth
<1> HIDE DEF three
<1>11. four \in Seq(Findings) /\ Without(four, type)
  BY <1>7, <1>8, <1>10, WithoutBoth
<1> HIDE DEF four
<1>12. five \in Seq(Findings) /\ Without(five, type)
  BY <1>7, <1>8, <1>11, WithoutBoth
<1> HIDE DEF five
<1>13. Without(five \o f[6], type)
  BY <1>7, <1>8, <1>12, WithoutBoth
<1> QED
  BY <1>1, <1>13 DEF type
-----------------------------------------------------------------------------
(* What the extractors make of what the parsers copied. *)

LEMMA MinIsMember ==
    ASSUME NEW T, T \subseteq Nat, T # {}
    PROVE  Min(T) \in T
<1>1. \E x \in T : \A y \in T : x <= y
  BY LeastElement
<1> QED
  BY <1>1 DEF Min

LEMMA MaxIsMember ==
    ASSUME NEW T, NEW n \in Nat, T \subseteq 0 .. n, T # {}
    PROVE  Max(T) \in T
<1>1. PICK x \in T : \A y \in T : y <= x
  BY GreatestElement
<1>2. \A y \in T : x >= y
  BY <1>1
<1> QED
  BY <1>2 DEF Max

\* An invoice with nothing on it that is not on the document, in one currency.
CopiedFrom(inv, doc) ==
    /\ inv.invoice_id \in doc.words
    /\ \E c \in DOMAIN Upper : inv.currency = Upper[c]
    /\ \A k \in DOMAIN inv.line_items :
           LET line == inv.line_items[k]
           IN /\ line.sku \in doc.words /\ Figures(line) \subseteq doc.numbers
              /\ line.unit_rate.currency = inv.currency

LEMMA InvoiceFromCopies ==
    ASSUME NEW doc, NEW id \in doc.words, NEW vendor, NEW day, NEW currency \in DOMAIN Upper,
           NEW rows,
           \A k \in DOMAIN rows : CopiedRow(rows[k], doc) /\ RowParses(rows[k])
    PROVE  CopiedFrom(InvoiceFrom(id, vendor, day, currency, rows), doc)
<1> DEFINE inv == InvoiceFrom(id, vendor, day, currency, rows)
<1>1. /\ inv.invoice_id = id /\ inv.currency = Upper[currency]
      /\ inv.line_items = [k \in DOMAIN rows |-> LineItem(rows[k], currency)]
  BY DEF InvoiceFrom
<1> HIDE DEF inv
<1>2. ASSUME NEW k \in DOMAIN rows
      PROVE  LET line == LineItem(rows[k], currency)
             IN /\ line.sku \in doc.words /\ Figures(line) \subseteq doc.numbers
                /\ line.unit_rate.currency = Upper[currency]
  BY DEF CopiedRow, LineItem, Money, Figures, Numbers
<1>3. ASSUME NEW k \in DOMAIN inv.line_items
      PROVE  k \in DOMAIN rows /\ inv.line_items[k] = LineItem(rows[k], currency)
  BY <1>1
<1> QED
  BY <1>1, <1>2, <1>3 DEF CopiedFrom, inv

LEMMA InferredIsACurrency ==
    ASSUME NEW rows
    PROVE  Inferred(rows) \in DOMAIN Upper \cup {None}
<1> DEFINE symbols == {rows[k].symbol : k \in {j \in DOMAIN rows : rows[j] # None}}
           Shown == {i \in 1 .. Len(CurrencyOrder) : CurrencyOrder[i] \in symbols}
           first == SelectInSeq(CurrencyOrder, LAMBDA c : c \in symbols)
<1>1. first = IF Shown # {} THEN Min(Shown) ELSE 0
  BY DEF SelectInSeq
<1>2. Inferred(rows) = IF first = 0 THEN None ELSE CurrencyOrder[first]
  BY DEF Inferred
<1>3. Shown \subseteq Nat
  OBVIOUS
<1> HIDE DEF first, Shown
<1>4. first = 0 \/ first \in Shown
  BY <1>1, <1>3, MinIsMember
<1>5. first = 0 \/ CurrencyOrder[first] \in DOMAIN Upper
  BY <1>4, CurrencyOrderAssumption DEF Shown
<1> QED
  BY <1>2, <1>5

LEMMA LayoutAwareCopies ==
    ASSUME NEW doc, CopiedInvoice(doc), LayoutAware(doc) # None
    PROVE  CopiedFrom(LayoutAware(doc), doc)
<1> DEFINE Tables == {i \in 1 .. Len(doc.tables) : IsTable(doc.tables[i])}
           first == SelectInSeq(doc.tables, IsTable)
           table == doc.tables[first]
           header == Labelled(doc)
           currency == IF header["currency"] # None
                       THEN header["currency"] ELSE Inferred(table.rows)
           vendor == IF header["vendor"] # None THEN header["vendor"] ELSE doc.letterhead
<1>1. /\ first # 0 /\ Readable(table)
      /\ currency # None /\ header["invoice_id"] # None
      /\ LayoutAware(doc) = InvoiceFrom(header["invoice_id"], vendor, header["date"],
                                        currency, table.rows)
  BY DEF LayoutAware
<1>2. table \in Range(doc.tables)
  <2>1. first = IF Tables # {} THEN Min(Tables) ELSE 0
    BY DEF SelectInSeq
  <2>2. Tables \subseteq Nat
    OBVIOUS
  <2>3. first # 0
    BY <1>1
  <2> HIDE DEF Tables, first
  <2>4. Tables # {} /\ first = Min(Tables)
    BY <2>1, <2>3
  <2>5. first \in Tables
    BY <2>2, <2>4, MinIsMember
  <2>6. first \in DOMAIN doc.tables
    BY <2>5 DEF Tables, CopiedInvoice
  <2> QED
    BY <2>6 DEF Range
<1>3. header["invoice_id"] \in doc.words
  <2>1. header["invoice_id"] \in {doc.above["invoice_id"], doc.below["invoice_id"]}
    BY DEF Labelled, RequiredHeader
  <2> QED
    BY <1>1, <2>1 DEF CopiedInvoice
<1>4. currency \in DOMAIN Upper
  <2>1. header["currency"] \in {doc.above["currency"], doc.below["currency"]}
    BY DEF Labelled, RequiredHeader
  <2>2. header["currency"] \in DOMAIN Upper \cup {None}
    BY <2>1 DEF CopiedInvoice
  <2>3. Inferred(table.rows) \in DOMAIN Upper \cup {None}
    BY InferredIsACurrency
  <2> QED
    BY <1>1, <2>2, <2>3
<1>5. \A k \in DOMAIN table.rows : CopiedRow(table.rows[k], doc) /\ RowParses(table.rows[k])
  BY <1>1, <1>2 DEF CopiedInvoice, Readable
<1> HIDE DEF header, currency, vendor, table
<1> QED
  BY <1>1, <1>3, <1>4, <1>5, InvoiceFromCopies

LEMMA RuleBasedCopies ==
    ASSUME NEW doc, CopiedInvoice(doc), RuleBased(doc) # None
    PROVE  CopiedFrom(RuleBased(doc), doc)
<1> DEFINE header == doc.above
           rows == doc.written.rows
<1>1. /\ doc.written # None /\ Readable(doc.written)
      /\ header["invoice_id"] # None /\ header["currency"] # None
      /\ RuleBased(doc) = InvoiceFrom(header["invoice_id"], header["vendor"], header["date"],
                                      header["currency"], rows)
  BY DEF RuleBased, RequiredHeader
<1>2. header["invoice_id"] \in doc.words /\ header["currency"] \in DOMAIN Upper
  BY <1>1 DEF CopiedInvoice
<1>3. \A k \in DOMAIN rows : CopiedRow(rows[k], doc) /\ RowParses(rows[k])
  BY <1>1 DEF CopiedInvoice, Readable
<1> HIDE DEF header, rows
<1> QED
  BY <1>1, <1>2, <1>3, InvoiceFromCopies

\* What the model answers is taken only if it is on the document too.
LEMMA AnswerCopies ==
    ASSUME NEW doc, NEW answer \in Answers, FromAnswer(answer, doc) # None
    PROVE  CopiedFrom(FromAnswer(answer, doc), doc)
<1> DEFINE inv == InvoiceFrom(answer.invoice_id, answer.vendor_name, answer.invoice_date,
                              answer.currency, answer.line_items)
<1>1. FromAnswer(answer, doc) = inv /\ answer # None /\ VerifyGrounded(inv, doc)
  BY DEF FromAnswer
<1>2. answer.currency \in DOMAIN Upper
  BY <1>1, AnswersAssumption
<1>3. /\ inv.currency = Upper[answer.currency]
      /\ \A k \in DOMAIN inv.line_items :
             inv.line_items[k].unit_rate.currency = Upper[answer.currency]
  BY DEF InvoiceFrom, LineItem, Money
<1> HIDE DEF inv
<1> QED
  BY <1>1, <1>2, <1>3 DEF CopiedFrom, VerifyGrounded

\* Whichever tier read it, an invoice is a copy of its document.
LEMMA InvoicesAreCopies ==
    ASSUME NEW options, NEW doc, CopiedInvoice(doc), NEW inv \in InvoicesIn(options, doc)
    PROVE  CopiedFrom(inv, doc)
<1>1. CASE LayoutAware(doc) # None
  BY <1>1, LayoutAwareCopies DEF InvoicesIn
<1>2. CASE LayoutAware(doc) = None /\ RuleBased(doc) # None
  BY <1>2, RuleBasedCopies DEF InvoicesIn
<1>3. CASE LayoutAware(doc) = None /\ RuleBased(doc) = None
  <2>1. PICK answer \in Answers : inv = FromAnswer(answer, doc) /\ inv # None
    BY <1>3 DEF InvoicesIn
  <2> QED
    BY <2>1, AnswerCopies
<1> QED
  BY <1>1, <1>2, <1>3

\* A contract that was read is in the upper case of one currency, its rates too.
LEMMA ContractsAreCopies ==
    ASSUME NEW doc, CopiedContract(doc), ContractFrom(doc) # None
    PROVE  \E c \in DOMAIN Upper :
               /\ ContractFrom(doc).currency = Upper[c]
               /\ \A k \in DOMAIN ContractFrom(doc).rate_cards :
                      ContractFrom(doc).rate_cards[k].unit_rate.currency = Upper[Upper[c]]
<1> DEFINE printed == Field(doc, "currency")
           Lines == {i \in 1 .. Len(doc.labels) : doc.labels[i].key = "currency"}
           last == SelectLastInSeq(doc.labels, LAMBDA line : line.key = "currency")
<1>1. ContractFrom(doc) = ContractIn(doc, Upper[printed]) /\ printed # None
  BY DEF ContractFrom, ReadableContract, ContractKeys
<1>2. printed \in DOMAIN Upper
  <2>1. last = IF Lines # {} THEN Max(Lines) ELSE 0
    BY DEF SelectLastInSeq
  <2>2. printed = IF last = 0 THEN None ELSE doc.labels[last].value
    BY DEF Field
  <2>3. Lines # {} /\ last = Max(Lines) /\ last # 0
    BY <1>1, <2>1, <2>2
  <2>4. Lines \subseteq 0 .. Len(doc.labels) /\ Len(doc.labels) \in Nat
    BY DEF CopiedContract
  <2>5. last \in Lines
    <3> HIDE DEF Lines, last
    <3> QED
      BY <2>3, <2>4, MaxIsMember
  <2>6. last \in DOMAIN doc.labels /\ doc.labels[last].key = "currency"
    <3> HIDE DEF last
    <3> QED
      BY <2>5 DEF CopiedContract
  <2> HIDE DEF last, printed
  <2> QED
    BY <2>2, <2>3, <2>6 DEF CopiedContract, Range
<1>3. /\ ContractIn(doc, Upper[printed]).currency = Upper[printed]
      /\ \A k \in DOMAIN ContractIn(doc, Upper[printed]).rate_cards :
             ContractIn(doc, Upper[printed]).rate_cards[k].unit_rate.currency
                 = Upper[Upper[printed]]
  <2> HIDE DEF printed
  <2> QED
    BY DEF ContractIn, RateCardEntry, Money
<1> HIDE DEF printed
<1> QED
  BY <1>1, <1>2, <1>3
=============================================================================
