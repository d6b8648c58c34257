---------------------------- MODULE NaturalLemmas ----------------------------
(***************************************************************************)
(* Least elements and induction for sets of naturals and finite sets, as   *)
(* facts without operator parameters, and what follows from them for sums  *)
(* (SumFunctionOnSet).  They rest on the well-foundedness of inclusion     *)
(* among finite sets, for the intervals 1 .. n.                            *)
(***************************************************************************)
EXTENDS Integers, FiniteSetTheorems, TLAPS

\* A nonempty set of naturals has a least element.
LEMMA LeastElement ==
  ASSUME NEW S \in SUBSET Nat, S # {}
  PROVE  \E x \in S : \A y \in S : x <= y
  <1> DEFINE T == {1 .. x : x \in S}
  <1>1. ASSUME NEW x \in S PROVE 1 .. x \in FiniteSubsetsOf(Nat)
    <2>1. IsFiniteSet(1 .. x)
      BY FS_Interval
    <2>2. 1 .. x \subseteq Nat
      OBVIOUS
    <2> QED
      BY <2>1, <2>2 DEF FiniteSubsetsOf
  <1>2. T \subseteq FiniteSubsetsOf(Nat) /\ T # {}
    BY <1>1
  <1>3. PICK t \in T : \A u \in T : ~ (<<u, t>> \in StrictSubsetOrdering(Nat))
    BY <1>2, FS_StrictSubsetOrderingWellFounded, WFMin
  <1>4. PICK x \in S : t = 1 .. x
    OBVIOUS
  <1>5. ASSUME NEW y \in S PROVE x <= y
    <2>1. SUFFICES ASSUME y < x PROVE FALSE
      OBVIOUS
    <2>2. 1 .. y \subseteq 1 .. x /\ x \in 1 .. x /\ x \notin 1 .. y
      BY <2>1
    <2>3. <<1 .. y, 1 .. x>> \in StrictSubsetOrdering(Nat)
      BY <2>2 DEF StrictSubsetOrdering
    <2> QED
      BY <1>3, <1>4, <2>3
  <1> QED
    BY <1>5

\* Induction: a set of naturals that has 0 and every successor has them all.
LEMMA SetInduction ==
  ASSUME NEW S, 0 \in S, \A n \in Nat : n \in S => n + 1 \in S
  PROVE  Nat \subseteq S
  <1> SUFFICES ASSUME Nat \ S # {} PROVE FALSE
    OBVIOUS
  <1>1. PICK m \in Nat \ S : \A y \in Nat \ S : m <= y
    BY LeastElement
  <1>2. m # 0 /\ m - 1 \in Nat /\ m - 1 \notin Nat \ S
    BY <1>1
  <1>3. (m - 1) + 1 = m
    OBVIOUS
  <1> QED
    BY <1>2, <1>3
-----------------------------------------------------------------------------
(***************************************************************************)
(* Finite sets: induction by adding one element at a time.                 *)
(***************************************************************************)

\* A family of subsets of a finite set that has the empty set, and with a
\* subset also that subset and one more element, has the set itself.
LEMMA SubsetInduction ==
  ASSUME NEW S, IsFiniteSet(S), NEW F, {} \in F,
         \A t \in SUBSET S : t \in F => \A x \in S \ t : t \cup {x} \in F
  PROVE  S \in F
  <1> DEFINE N == {n \in Nat : \A s \in SUBSET S : Cardinality(s) = n => s \in F}
  <1>1. \A s \in SUBSET S : IsFiniteSet(s) /\ Cardinality(s) \in Nat
    BY FS_Subset, FS_CardinalityType
  <1>2. 0 \in N
    BY <1>1, FS_EmptySet
  <1>3. ASSUME NEW n \in Nat, n \in N PROVE n + 1 \in N
    <2> SUFFICES ASSUME NEW s \in SUBSET S, Cardinality(s) = n + 1 PROVE s \in F
      OBVIOUS
    <2>1. s # {}
      BY FS_EmptySet
    <2>2. PICK x \in s : TRUE
      BY <2>1
    <2>3. s \ {x} \in SUBSET S /\ x \in S \ (s \ {x}) /\ (s \ {x}) \cup {x} = s
      BY <2>2
    <2>4. Cardinality(s \ {x}) = n
      <3>1. Cardinality(s \ {x}) = Cardinality(s) - 1
        BY <1>1, <2>2, FS_RemoveElement
      <3> QED
        BY <3>1
    <2>5. s \ {x} \in F
      BY <1>3, <2>3, <2>4
    <2> QED
      BY <2>3, <2>5
  <1> HIDE DEF N
  <1>4. Nat \subseteq N
    BY <1>2, <1>3, SetInduction
  <1>5. Cardinality(S) \in N
    BY <1>1, <1>4
  <1> QED
    BY <1>5 DEF N

-----------------------------------------------------------------------------
(***************************************************************************)
(* Sums of functions over finite sets.                                     *)
(***************************************************************************)
Chosen(s) == CHOOSE x \in s : TRUE

\* h has the sum of f over each subset of S, taken in the order of the fold.
IsSum(h, f, S) ==
  h = [s \in SUBSET S |->
         IF s = {} THEN 0 ELSE f[Chosen(s)] + h[s \ {Chosen(s)}]]

\* What SumFunctionOnSet stands for.
LEMMA SumDefinition ==
  ASSUME NEW f, NEW S
  PROVE  SumFunctionOnSet(f, S) = (CHOOSE h : IsSum(h, f, S))[S]
  BY DEF SumFunctionOnSet, FoldFunctionOnSet, MapThenFoldSet, IsSum, Chosen

\* There is such a function.
LEMMA SumExists ==
  ASSUME NEW f, NEW S, IsFiniteSet(S)
  PROVE  \E h : IsSum(h, f, S)
  <1> DEFINE Small(n) == {s \in SUBSET S : Cardinality(s) <= n}
             Term(h, s) == IF s = {} THEN 0
                           ELSE f[Chosen(s)] + h[s \ {Chosen(s)}]
             N == {n \in Nat : \E h : h = [s \in Small(n) |-> Term(h, s)]}
  <1>1. \A s \in SUBSET S : IsFiniteSet(s) /\ Cardinality(s) \in Nat
    BY FS_Subset, FS_CardinalityType
  <1>2. 0 \in N
    <2> DEFINE h == [s \in Small(0) |-> 0]
    <2>1. \A s \in Small(0) : s = {}
      BY <1>1, FS_EmptySet
    <2>2. h = [s \in Small(0) |-> Term(h, s)]
      BY <2>1
    <2> QED
      BY <2>2
  <1>3. ASSUME NEW n \in Nat, n \in N PROVE n + 1 \in N
    <2>1. PICK h : h = [s \in Small(n) |-> Term(h, s)]
      BY <1>3
    <2> DEFINE g == [s \in Small(n + 1) |-> Term(h, s)]
    <2>2. ASSUME NEW s \in Small(n + 1), s # {}
          PROVE  s \ {Chosen(s)} \in Small(n)
      <3>1. Chosen(s) \in s
        BY <2>2 DEF Chosen
      <3>2. Cardinality(s \ {Chosen(s)}) = Cardinality(s) - 1
        BY <1>1, <3>1, FS_RemoveElement
      <3> QED
        BY <1>1, <3>2
    <2>3. ASSUME NEW s \in Small(n) PROVE s \in Small(n + 1) /\ g[s] = h[s]
      <3>1. s \in Small(n + 1)
        BY <1>1
      <3>2. g[s] = Term(h, s) /\ h[s] = Term(h, s)
        BY <2>1, <3>1
      <3> QED
        BY <3>1, <3>2
    <2>4. ASSUME NEW s \in Small(n + 1) PROVE Term(h, s) = Term(g, s)
      <3>1. CASE s = {}
        BY <3>1
      <3>2. CASE s # {}
        <4>1. g[s \ {Chosen(s)}] = h[s \ {Chosen(s)}]
          BY <2>2, <2>3, <3>2
        <4> HIDE DEF g
        <4> QED
          BY <4>1
      <3> QED
        BY <3>1, <3>2
    <2>5. g = [s \in Small(n + 1) |-> Term(g, s)]
      <3>1. \A s \in Small(n + 1) : g[s] = Term(g, s)
        BY <2>4
      <3>2. DOMAIN g = Small(n + 1) /\ g = [s \in Small(n + 1) |-> g[s]]
        OBVIOUS
      <3> HIDE DEF g
      <3> QED
        BY <3>1, <3>2
    <2>6. \E k : k = [s \in Small(n + 1) |-> Term(k, s)]
      <3> HIDE DEF g, Small, Term
      <3> QED
        BY <2>5
    <2>7. n + 1 \in Nat
      OBVIOUS
    <2> HIDE DEF Small, Term
    <2> QED
      BY <2>6, <2>7
  <1>4. Cardinality(S) \in N
    <2> HIDE DEF N
    <2>1. Nat \subseteq N
      BY <1>2, <1>3, SetInduction
    <2> QED
      BY <1>1, <2>1
  <1>5. PICK h : h = [s \in Small(Cardinality(S)) |-> Term(h, s)]
    BY <1>4
  <1>6. Small(Cardinality(S)) = SUBSET S
    <2>1. \A s \in SUBSET S : Cardinality(s) <= Cardinality(S)
      BY FS_Subset
    <2> QED
      BY <2>1
  <1> QED
    BY <1>5, <1>6 DEF IsSum

\* The order of the fold does not matter.
LEMMA SumAnyOrder ==
  ASSUME NEW S, IsFiniteSet(S), NEW f, \A x \in S : f[x] \in Int,
         NEW h, IsSum(h, f, S)
  PROVE  \A s \in SUBSET S : /\ h[s] \in Int
                             /\ \A x \in s : h[s] = f[x] + h[s \ {x}]
  <1> DEFINE Good(s) == h[s] \in Int /\ \A x \in s : h[s] = f[x] + h[s \ {x}]
             N == {n \in Nat : \A s \in SUBSET S : Cardinality(s) <= n => Good(s)}
  <1>1. \A s \in SUBSET S : IsFiniteSet(s) /\ Cardinality(s) \in Nat
    BY FS_Subset, FS_CardinalityType
  <1>2. /\ h[{}] = 0
        /\ \A s \in SUBSET S : s # {} =>
              Chosen(s) \in s /\ h[s] = f[Chosen(s)] + h[s \ {Chosen(s)}]
    BY DEF IsSum, Chosen
  <1>3. 0 \in N
    <2>1. Good({})
      BY <1>2
    <2>2. \A s \in SUBSET S : Cardinality(s) <= 0 => s = {}
      BY <1>1, FS_EmptySet
    <2> QED
      BY <2>1, <2>2
  <1>4. ASSUME NEW n \in Nat, n \in N PROVE n + 1 \in N
    <2> SUFFICES ASSUME NEW s \in SUBSET S, Cardinality(s) = n + 1 PROVE Good(s)
      <3>1. \A s \in SUBSET S : Cardinality(s) <= n + 1 =>
                                 Cardinality(s) <= n \/ Cardinality(s) = n + 1
        BY <1>1
      <3> HIDE DEF Good
      <3> QED
        BY <1>4, <3>1
    <2> DEFINE y == Chosen(s)
    <2>1. s # {}
      BY FS_EmptySet
    <2>2. y \in s /\ h[s] = f[y] + h[s \ {y}]
      BY <1>2, <2>1
    <2>3. ASSUME NEW t \in SUBSET s, t # s
          PROVE  t \in SUBSET S /\ Good(t)
      <3>1. Cardinality(t) <= Cardinality(s) /\ Cardinality(t) # Cardinality(s)
        BY <1>1, <2>3, FS_Subset
      <3>2. t \in SUBSET S /\ Cardinality(t) \in Nat
        BY <1>1
      <3>3. Cardinality(t) <= n
        BY <3>1, <3>2
      <3> HIDE DEF Good
      <3> QED
        BY <1>4, <3>2, <3>3
    <2>4. ASSUME NEW x \in s PROVE f[x] \in Int /\ h[s \ {x}] \in Int
      BY <2>3
    <2>5. h[s] \in Int
      BY <2>2, <2>4
    <2>6. ASSUME NEW x \in s, x # y PROVE h[s] = f[x] + h[s \ {x}]
      <3> DEFINE r == s \ {x, y}
      <3>1. (s \ {x}) \ {y} = r /\ (s \ {y}) \ {x} = r /\ y \in s \ {x} /\ x \in s \ {y}
        BY <2>2, <2>6
      <3>2. h[s \ {x}] = f[y] + h[r]
        BY <2>3, <3>1
      <3>3. h[s \ {y}] = f[x] + h[r]
        BY <2>2, <2>3, <3>1
      <3>4. h[r] \in Int
        BY <2>3
      <3> HIDE DEF r, y
      <3> QED
        BY <2>2, <2>4, <3>2, <3>3, <3>4
    <2> QED
      BY <2>2, <2>5, <2>6
  <1> HIDE DEF N
  <1>5. Nat \subseteq N
    BY <1>3, <1>4, SetInduction
  <1>6. Cardinality(S) \in N
    BY <1>1, <1>5
  <1>7. \A s \in SUBSET S : Cardinality(s) <= Cardinality(S)
    BY FS_Subset
  <1> QED
    BY <1>6, <1>7 DEF N

\* Sums over S and over a subset of it are values of the same function.
LEMMA SumOfSubset ==
  ASSUME NEW S, IsFiniteSet(S), NEW f, NEW T \in SUBSET S, NEW h, IsSum(h, f, S)
  PROVE  SumFunctionOnSet(f, T) = h[T]
  <1>1. IsFiniteSet(T)
    BY FS_Subset
  <1> DEFINE k == CHOOSE g : IsSum(g, f, T)
             N == {n \in Nat : \A s \in SUBSET T : Cardinality(s) <= n => k[s] = h[s]}
  <1>2. IsSum(k, f, T)
    BY <1>1, SumExists
  <1> HIDE DEF k
  <1>3. \A s \in SUBSET T : IsFiniteSet(s) /\ Cardinality(s) \in Nat
    BY <1>1, FS_Subset, FS_CardinalityType
  <1>4. /\ k[{}] = 0 /\ h[{}] = 0
        /\ \A s \in SUBSET T : s # {} =>
              /\ Chosen(s) \in s
              /\ k[s] = f[Chosen(s)] + k[s \ {Chosen(s)}]
              /\ h[s] = f[Chosen(s)] + h[s \ {Chosen(s)}]
    BY <1>2 DEF IsSum, Chosen
  <1>5. 0 \in N
    <2>1. \A s \in SUBSET T : Cardinality(s) <= 0 => s = {}
      BY <1>3, FS_EmptySet
    <2> QED
      BY <1>4, <2>1
  <1>6. ASSUME NEW n \in Nat, n \in N PROVE n + 1 \in N
    <2> SUFFICES ASSUME NEW s \in SUBSET T, Cardinality(s) = n + 1 PROVE k[s] = h[s]
      BY <1>3, <1>6
    <2>1. s # {}
      BY FS_EmptySet
    <2>2. Chosen(s) \in s /\ s \ {Chosen(s)} \in SUBSET T
      BY <1>4, <2>1
    <2>3. Cardinality(s \ {Chosen(s)}) = Cardinality(s) - 1
      BY <1>3, <2>2, FS_RemoveElement
    <2>4. Cardinality(s \ {Chosen(s)}) <= n
      BY <2>3
    <2>5. k[s \ {Chosen(s)}] = h[s \ {Chosen(s)}]
      BY <1>6, <2>2, <2>4
    <2> QED
      BY <1>4, <2>1, <2>5
  <1> HIDE DEF N
  <1>7. Nat \subseteq N
    BY <1>5, <1>6, SetInduction
  <1>8. Cardinality(T) \in N
    BY <1>3, <1>7
  <1>9. k[T] = h[T]
    BY <1>8, <1>3 DEF N
  <1> QED
    BY <1>9, SumDefinition DEF k

\* The sum over no index.
LEMMA SumEmpty ==
  ASSUME NEW f
  PROVE  SumFunctionOnSet(f, {}) = 0
  <1>1. IsFiniteSet({})
    BY FS_EmptySet
  <1>2. PICK h : IsSum(h, f, {})
    BY <1>1, SumExists
  <1>3. SumFunctionOnSet(f, {}) = h[{}]
    BY <1>1, <1>2, SumOfSubset
  <1> QED
    BY <1>2, <1>3 DEF IsSum

\* One more index adds its value.
LEMMA SumAdd ==
  ASSUME NEW S, IsFiniteSet(S), NEW x, x \notin S, NEW f,
         \A y \in S \cup {x} : f[y] \in Int
  PROVE  /\ SumFunctionOnSet(f, S) \in Int
         /\ SumFunctionOnSet(f, S \cup {x}) = SumFunctionOnSet(f, S) + f[x]
  <1> DEFINE T == S \cup {x}
  <1>1. IsFiniteSet(T)
    BY FS_AddElement
  <1>2. PICK h : IsSum(h, f, T)
    BY <1>1, SumExists
  <1>3. SumFunctionOnSet(f, T) = h[T] /\ SumFunctionOnSet(f, S) = h[S]
    BY <1>1, <1>2, SumOfSubset
  <1>4. h[S] \in Int /\ h[T] = f[x] + h[T \ {x}]
    BY <1>1, <1>2, SumAnyOrder
  <1>5. T \ {x} = S
    OBVIOUS
  <1>6. f[x] \in Int
    OBVIOUS
  <1>7. h[T] = f[x] + h[S]
    BY <1>4, <1>5
  <1>8. SumFunctionOnSet(f, T) = SumFunctionOnSet(f, S) + f[x]
    <2> HIDE DEF T
    <2> QED
      BY <1>3, <1>4, <1>6, <1>7
  <1> QED
    BY <1>3, <1>4, <1>8

\* The sum over an initial interval, one index further.
LEMMA SumNext ==
  ASSUME NEW n \in Nat, NEW f, \A i \in 1 .. n + 1 : f[i] \in Int
  PROVE  /\ SumFunctionOnSet(f, 1 .. n) \in Int
         /\ SumFunctionOnSet(f, 1 .. n + 1) = SumFunctionOnSet(f, 1 .. n) + f[n + 1]
  <1>1. IsFiniteSet(1 .. n)
    BY FS_Interval
  <1>2. (1 .. n) \cup {n + 1} = 1 .. n + 1
    OBVIOUS
  <1>3. n + 1 \notin 1 .. n
    OBVIOUS
  <1>4. \A y \in (1 .. n) \cup {n + 1} : f[y] \in Int
    BY <1>2
  <1>5. /\ SumFunctionOnSet(f, 1 .. n) \in Int
        /\ SumFunctionOnSet(f, (1 .. n) \cup {n + 1}) =
             SumFunctionOnSet(f, 1 .. n) + f[n + 1]
    BY <1>1, <1>3, <1>4, SumAdd, Zenon
  <1> QED
    BY <1>2, <1>5

\* Functions that agree on the indices have the same sum, and it is an integer.
LEMMA SumCongruence ==
  ASSUME NEW S, IsFiniteSet(S), NEW f, NEW g,
         \A x \in S : f[x] = g[x] /\ f[x] \in Int
  PROVE  /\ SumFunctionOnSet(f, S) = SumFunctionOnSet(g, S)
         /\ SumFunctionOnSet(f, S) \in Int
  <1> DEFINE Good(t) == /\ SumFunctionOnSet(f, t) = SumFunctionOnSet(g, t)
                        /\ SumFunctionOnSet(f, t) \in Int
             F == {t \in SUBSET S : Good(t)}
  <1>1. {} \in F
    BY SumEmpty
  <1>2. ASSUME NEW t \in SUBSET S, t \in F, NEW x \in S \ t PROVE t \cup {x} \in F
    <2>1. IsFiniteSet(t)
      BY FS_Subset
    <2>2. SumFunctionOnSet(f, t \cup {x}) = SumFunctionOnSet(f, t) + f[x]
      BY <2>1, SumAdd
    <2>3. SumFunctionOnSet(g, t \cup {x}) = SumFunctionOnSet(g, t) + g[x]
      BY <2>1, SumAdd
    <2>4. Good(t) /\ f[x] = g[x] /\ f[x] \in Int
      BY <1>2
    <2>5. Good(t \cup {x})
      BY <2>2, <2>3, <2>4
    <2> QED
      BY <2>5
  <1>3. S \in F
    <2> HIDE DEF F
    <2> QED
      BY <1>1, <1>2, SubsetInduction
  <1> QED
    BY <1>3

\* Smaller values have a smaller sum.
LEMMA SumMonotone ==
  ASSUME NEW S, IsFiniteSet(S), NEW f, NEW g,
         \A x \in S : f[x] \in Int /\ g[x] \in Int /\ f[x] <= g[x]
  PROVE  /\ SumFunctionOnSet(f, S) \in Int /\ SumFunctionOnSet(g, S) \in Int
         /\ SumFunctionOnSet(f, S) <= SumFunctionOnSet(g, S)
  <1> DEFINE Good(t) == /\ SumFunctionOnSet(f, t) \in Int
                        /\ SumFunctionOnSet(g, t) \in Int
                        /\ SumFunctionOnSet(f, t) <= SumFunctionOnSet(g, t)
             F == {t \in SUBSET S : Good(t)}
  <1>1. {} \in F
    BY SumEmpty
  <1>2. ASSUME NEW t \in SUBSET S, t \in F, NEW x \in S \ t PROVE t \cup {x} \in F
    <2>1. IsFiniteSet(t)
      BY FS_Subset
    <2>2. SumFunctionOnSet(f, t \cup {x}) = SumFunctionOnSet(f, t) + f[x]
      BY <2>1, SumAdd
    <2>3. SumFunctionOnSet(g, t \cup {x}) = SumFunctionOnSet(g, t) + g[x]
      BY <2>1, SumAdd
    <2>4. Good(t) /\ f[x] \in Int /\ g[x] \in Int /\ f[x] <= g[x]
      BY <1>2
    <2>5. Good(t \cup {x})
      BY <2>2, <2>3, <2>4
    <2> QED
      BY <2>5
  <1>3. S \in F
    <2> HIDE DEF F
    <2> QED
      BY <1>1, <1>2, SubsetInduction
  <1> QED
    BY <1>3

\* Naturals add up to a natural, and over fewer indices to no more.
LEMMA SumNatural ==
  ASSUME NEW S, IsFiniteSet(S), NEW f, \A x \in S : f[x] \in Nat,
         NEW T \in SUBSET S
  PROVE  /\ SumFunctionOnSet(f, T) \in Nat /\ SumFunctionOnSet(f, S) \in Nat
         /\ SumFunctionOnSet(f, T) <= SumFunctionOnSet(f, S)
  <1> DEFINE Good(t) == /\ SumFunctionOnSet(f, t) \in Nat
                        /\ SumFunctionOnSet(f, t \cap T) \in Nat
                        /\ SumFunctionOnSet(f, t \cap T) <= SumFunctionOnSet(f, t)
             F == {t \in SUBSET S : Good(t)}
  <1>1. {} \in F
    <2>1. {} \cap T = {}
      OBVIOUS
    <2> QED
      BY <2>1, SumEmpty
  <1>2. ASSUME NEW t \in SUBSET S, t \in F, NEW x \in S \ t PROVE t \cup {x} \in F
    <2>1. IsFiniteSet(t) /\ IsFiniteSet(t \cap T)
      BY FS_Subset
    <2>2. SumFunctionOnSet(f, t \cup {x}) = SumFunctionOnSet(f, t) + f[x]
      <3>1. x \notin t /\ \A y \in t \cup {x} : f[y] \in Int
        OBVIOUS
      <3> QED
        BY <2>1, <3>1, SumAdd, Zenon
    <2>3. Good(t) /\ f[x] \in Nat
      BY <1>2
    <2>4. CASE x \in T
      <3>1. (t \cup {x}) \cap T = (t \cap T) \cup {x}
        BY <2>4
      <3>2. SumFunctionOnSet(f, (t \cap T) \cup {x}) = SumFunctionOnSet(f, t \cap T) + f[x]
        <4>1. x \notin t \cap T /\ \A y \in (t \cap T) \cup {x} : f[y] \in Int
          OBVIOUS
        <4> QED
          BY <2>1, <4>1, SumAdd, Zenon
      <3>3. Good(t \cup {x})
        BY <2>2, <2>3, <3>1, <3>2
      <3> QED
        BY <3>3
    <2>5. CASE x \notin T
      <3>1. (t \cup {x}) \cap T = t \cap T
        BY <2>5
      <3>2. Good(t \cup {x})
        BY <2>2, <2>3, <3>1
      <3> QED
        BY <3>2
    <2> QED
      BY <2>4, <2>5
  <1>3. S \in F
    <2> HIDE DEF F
    <2> QED
      BY <1>1, <1>2, SubsetInduction
  <1>4. S \cap T = T
    OBVIOUS
  <1> QED
    BY <1>3, <1>4
\* Zeros add up to zero.
LEMMA SumZero ==
  ASSUME NEW S, IsFiniteSet(S), NEW f, \A x \in S : f[x] = 0
  PROVE  SumFunctionOnSet(f, S) = 0
  <1> DEFINE F == {t \in SUBSET S : SumFunctionOnSet(f, t) = 0}
  <1>1. {} \in F
    BY SumEmpty
  <1>2. ASSUME NEW t \in SUBSET S, t \in F, NEW x \in S \ t PROVE t \cup {x} \in F
    <2>1. IsFiniteSet(t)
      BY FS_Subset
    <2>2. SumFunctionOnSet(f, t \cup {x}) = SumFunctionOnSet(f, t) + f[x]
      <3>1. x \notin t /\ \A y \in t \cup {x} : f[y] \in Int
        OBVIOUS
      <3> QED
        BY <2>1, <3>1, SumAdd, Zenon
    <2> QED
      BY <1>2, <2>2
  <1>3. S \in F
    <2> HIDE DEF F
    <2> QED
      BY <1>1, <1>2, SubsetInduction
  <1> QED
    BY <1>3

\* A change at one index changes the sum by as much.
LEMMA SumChange ==
  ASSUME NEW S, IsFiniteSet(S), NEW x \in S, NEW f, NEW g,
         \A y \in S : f[y] \in Int /\ g[y] \in Int,
         \A y \in S \ {x} : g[y] = f[y]
  PROVE  /\ SumFunctionOnSet(f, S) \in Int
         /\ SumFunctionOnSet(g, S) = SumFunctionOnSet(f, S) + (g[x] - f[x])
  <1> DEFINE R == S \ {x}
  <1>1. IsFiniteSet(R) /\ x \notin R /\ R \cup {x} = S
    BY FS_Subset
  <1>2. \A y \in R : f[y] = g[y] /\ f[y] \in Int
    OBVIOUS
  <1>3. \A y \in R \cup {x} : f[y] \in Int /\ g[y] \in Int
    BY <1>1
  <1> HIDE DEF R
  <1>4. /\ SumFunctionOnSet(f, R) \in Int
        /\ SumFunctionOnSet(f, R \cup {x}) = SumFunctionOnSet(f, R) + f[x]
        /\ SumFunctionOnSet(g, R \cup {x}) = SumFunctionOnSet(g, R) + g[x]
    BY <1>1, <1>3, SumAdd
  <1>5. SumFunctionOnSet(f, R) = SumFunctionOnSet(g, R)
    BY <1>1, <1>2, SumCongruence
  <1>6. f[x] \in Int /\ g[x] \in Int
    OBVIOUS
  <1>7. /\ SumFunctionOnSet(f, S) = SumFunctionOnSet(f, R) + f[x]
        /\ SumFunctionOnSet(g, S) = SumFunctionOnSet(f, R) + g[x]
    BY <1>1, <1>4, <1>5
  <1> QED
    BY <1>4, <1>6, <1>7
=============================================================================
