------------------------------ MODULE FoldLemmas ------------------------------
(***************************************************************************)
(* Induction over naturals and what it says of functions that are defined  *)
(* by recursion, as the folds of the community modules are.  The induction *)
(* theorems of the library are about a predicate, and the provers cannot   *)
(* give one; here it is the set of the numbers that have it.  Quotients    *)
(* and remainders are at the end.                                          *)
(***************************************************************************)
EXTENDS Integers, FiniteSets, FiniteSetsExt, Functions, FiniteSetTheorems, FunctionTheorems,
        WellFoundedInduction, TLAPS

\* A set of naturals has a least one.
LEMMA LeastNat ==
    ASSUME NEW T \in SUBSET Nat, T # {}
    PROVE  \E n \in T : \A m \in T : n <= m
<1> DEFINE F == {0 .. n : n \in T}
           R == StrictSubsetOrdering(Nat)
<1>1. IsWellFoundedOn(R, FiniteSubsetsOf(Nat)) BY FS_StrictSubsetOrderingWellFounded
<1>2. F \subseteq FiniteSubsetsOf(Nat) /\ F # {}
  <2>1. ASSUME NEW n \in T PROVE 0 .. n \in FiniteSubsetsOf(Nat)
    <3>1. IsFiniteSet(0 .. n) BY FS_Interval
    <3>2. 0 .. n \in SUBSET Nat OBVIOUS
    <3> QED BY <3>1, <3>2 DEF FiniteSubsetsOf
  <2> QED BY <2>1
<1>3. PICK A \in F : \A B \in F : ~(<<B, A>> \in R)
  <2> HIDE DEF F, R
  <2> QED BY <1>1, <1>2, WFMin
<1>4. PICK n \in T : A = 0 .. n OBVIOUS
<1>5. ASSUME NEW m \in T PROVE n <= m
  <2> SUFFICES ASSUME m < n PROVE FALSE OBVIOUS
  <2>1. 0 .. m \in F OBVIOUS
  <2>2. 0 .. m \in SUBSET Nat /\ 0 .. n \in SUBSET Nat OBVIOUS
  <2>3. 0 .. m \subseteq 0 .. n /\ n \in 0 .. n /\ n \notin 0 .. m OBVIOUS
  <2>4. <<0 .. m, 0 .. n>> \in R BY <2>2, <2>3 DEF StrictSubsetOrdering
  <2> QED BY <2>1, <2>4, <1>3, <1>4
<1> QED BY <1>5

\* The first numbers.
LEMMA FirstNumbers ==
    ASSUME NEW N \in Nat
    PROVE  IsFiniteSet(1 .. N) /\ Cardinality(1 .. N) = N
<1>1. Cardinality(1 .. N) = IF 1 > N THEN 0 ELSE N - 1 + 1 BY FS_Interval
<1>2. IsFiniteSet(1 .. N) BY FS_Interval
<1> QED BY <1>1, <1>2

LEMMA NextNumber ==
    ASSUME NEW N \in Nat, NEW n \in 0 .. N - 1
    PROVE  /\ n + 1 \in 1 .. N /\ n + 1 \in 0 .. N /\ n + 1 \in Nat \ {0} /\ n \in Nat /\ (n + 1) - 1 = n
           /\ 1 .. n + 1 \in SUBSET (1 .. N) /\ 1 .. n + 1 # {} /\ n + 1 \in 1 .. n + 1
           /\ \A m \in 1 .. n : m \in 1 .. N /\ m \in 1 .. n + 1 /\ m # n + 1 /\ m < n + 1
           /\ \A m \in 1 .. n + 1 : m \in 1 .. n \/ m = n + 1
<1>1. n + 1 \in 1 .. N /\ n + 1 \in 0 .. N /\ n + 1 \in Nat \ {0} /\ n \in Nat /\ (n + 1) - 1 = n
  OBVIOUS
<1>2. n + 1 \in 1 .. n + 1 /\ 1 .. n + 1 \in SUBSET (1 .. N) OBVIOUS
<1>3. \A m \in 1 .. n : m \in 1 .. N /\ m \in 1 .. n + 1 /\ m # n + 1 /\ m < n + 1 OBVIOUS
<1>4. \A m \in 1 .. n + 1 : m \in 1 .. n \/ m = n + 1 OBVIOUS
<1> QED BY <1>1, <1>2, <1>3, <1>4

\* Induction up to N, by the set of the numbers that have the property.
LEMMA UpTo ==
    ASSUME NEW N \in Nat, NEW T, 0 \in T, \A n \in 0 .. N - 1 : n \in T => n + 1 \in T
    PROVE  0 .. N \subseteq T
<1> SUFFICES ASSUME (0 .. N) \ T # {} PROVE FALSE OBVIOUS
<1>1. PICK n \in (0 .. N) \ T : \A m \in (0 .. N) \ T : n <= m
  <2>1. (0 .. N) \ T \in SUBSET Nat OBVIOUS
  <2> QED BY <2>1, LeastNat
<1>2. n # 0 /\ n - 1 \in 0 .. N - 1 /\ (n - 1) + 1 = n /\ n - 1 \in 0 .. N /\ n - 1 < n BY <1>1
<1>3. n - 1 \in T BY <1>1, <1>2
<1> QED BY <1>1, <1>2, <1>3

\* h is defined by recursion over the subsets of D, taking an element c[s] off a set s.
FoldOf(h, D, b, c, G) ==
    \A s \in SUBSET D : h[s] = IF s = {} THEN b ELSE G[<<c[s], h[s \ {c[s]}]>>]

\* If D is finite there is such an h.
LEMMA FoldExists ==
    ASSUME NEW D, IsFiniteSet(D), NEW B, NEW b \in B,
           NEW c, \A s \in SUBSET D : s # {} => c[s] \in s,
           NEW G, \A d \in D, x \in B : G[<<d, x>>] \in B
    PROVE  \E h \in [SUBSET D -> B] : FoldOf(h, D, b, c, G)
<1> DEFINE Small(n) == {s \in SUBSET D : Cardinality(s) <= n}
           Good(h, n) == /\ h \in [Small(n) -> B]
                         /\ \A s \in Small(n) : h[s] = IF s = {} THEN b ELSE G[<<c[s], h[s \ {c[s]}]>>]
           N == Cardinality(D)
           T == {n \in Nat : \E h : Good(h, n)}
<1>1. N \in Nat /\ \A s \in SUBSET D : IsFiniteSet(s) /\ Cardinality(s) \in Nat /\ Cardinality(s) <= N
  BY FS_Subset, FS_CardinalityType
<1>2. 0 \in T
  <2> DEFINE h == [s \in Small(0) |-> b]
  <2>1. \A s \in Small(0) : s = {} BY <1>1, FS_EmptySet
  <2>2. Good(h, 0) BY <2>1
  <2> QED BY <2>2
<1>3. ASSUME NEW n \in Nat, n \in T PROVE n + 1 \in T
  <2>1. PICK h : Good(h, n) BY <1>3
  <2> DEFINE k == [s \in Small(n + 1) |-> IF s = {} THEN b ELSE G[<<c[s], h[s \ {c[s]}]>>]]
  <2>2. ASSUME NEW s \in Small(n + 1), s # {}
        PROVE  c[s] \in D /\ s \ {c[s]} \in Small(n) /\ s \ {c[s]} \in Small(n + 1)
    <3>1. c[s] \in s /\ c[s] \in D BY <2>2
    <3>2. Cardinality(s \ {c[s]}) = Cardinality(s) - 1
      BY <1>1, <3>1, FS_RemoveElement
    <3>3. Cardinality(s) \in Nat BY <1>1
    <3> QED BY <2>2, <3>1, <3>2, <3>3
  <2>3. k \in [Small(n + 1) -> B]
    <3>1. ASSUME NEW s \in Small(n + 1), s # {} PROVE G[<<c[s], h[s \ {c[s]}]>>] \in B
      <4>1. h[s \ {c[s]}] \in B BY <2>1, <2>2, <3>1
      <4> QED BY <2>2, <3>1, <4>1
    <3> QED BY <3>1
  <2>4. ASSUME NEW s \in Small(n) PROVE s \in Small(n + 1) /\ k[s] = h[s]
    <3>1. s \in Small(n + 1) BY <1>1
    <3>2. k[s] = IF s = {} THEN b ELSE G[<<c[s], h[s \ {c[s]}]>>] BY <3>1
    <3> HIDE DEF k
    <3> QED BY <2>1, <3>1, <3>2
  <2>5. ASSUME NEW s \in Small(n + 1) PROVE k[s] = IF s = {} THEN b ELSE G[<<c[s], k[s \ {c[s]}]>>]
    <3>1. CASE s = {} BY <3>1
    <3>2. CASE s # {}
      <4>1. k[s \ {c[s]}] = h[s \ {c[s]}] BY <2>2, <2>4, <3>2
      <4>2. k[s] = G[<<c[s], h[s \ {c[s]}]>>] BY <3>2
      <4> HIDE DEF k, Small
      <4> QED BY <3>2, <4>1, <4>2
    <3> QED BY <3>1, <3>2
  <2>6. Good(k, n + 1)
    <3> HIDE DEF k, Small
    <3> QED BY <2>3, <2>5
  <2> HIDE DEF Good
  <2> QED BY <2>6
<1>4. N \in T
  <2> HIDE DEF T, N
  <2>1. 0 .. N \subseteq T BY <1>1, <1>2, <1>3, UpTo
  <2> QED BY <1>1, <2>1
<1>5. PICK h : Good(h, N) BY <1>4
<1>6. Small(N) = SUBSET D BY <1>1
<1> QED BY <1>5, <1>6 DEF FoldOf

\* h adds f up over the subsets of S, as MapThenSumSet does.
SumOf(h, f, S) ==
    \A s \in SUBSET S :
        h[s] = IF s = {} THEN 0 ELSE f[CHOOSE x \in s : TRUE] + h[s \ {CHOOSE x \in s : TRUE}]

\* It does not depend on the order of the elements.
AnyOrder(h, f, S) == \A s \in SUBSET S : h[s] \in Nat /\ \A x \in s : h[s] = f[x] + h[s \ {x}]

LEMMA SumOrder ==
    ASSUME NEW S, IsFiniteSet(S), NEW f, \A x \in S : f[x] \in Nat, NEW h, SumOf(h, f, S)
    PROVE  AnyOrder(h, f, S)
<1> DEFINE c == [s \in SUBSET S |-> CHOOSE y \in s : TRUE]
<1>6. \A s \in SUBSET S : c[s] = (CHOOSE y \in s : TRUE) /\ (s # {} => c[s] \in s) OBVIOUS
<1> HIDE DEF c
<1>7. \A s \in SUBSET S : h[s] = IF s = {} THEN 0 ELSE f[c[s]] + h[s \ {c[s]}]
  <2> SUFFICES ASSUME NEW s \in SUBSET S
               PROVE  h[s] = IF s = {} THEN 0 ELSE f[c[s]] + h[s \ {c[s]}]
    OBVIOUS
  <2>1. c[s] = CHOOSE y \in s : TRUE BY <1>6
  <2>2. h[s] = IF s = {} THEN 0 ELSE f[CHOOSE y \in s : TRUE] + h[s \ {CHOOSE y \in s : TRUE}]
    BY DEF SumOf
  <2> QED BY <2>1, <2>2
<1> DEFINE N == Cardinality(S)
           Fine(s) == h[s] \in Nat /\ \A x \in s : h[s] = f[x] + h[s \ {x}]
           T == {n \in Nat : \A s \in SUBSET S : Cardinality(s) <= n => Fine(s)}
<1>1. N \in Nat /\ \A s \in SUBSET S : IsFiniteSet(s) /\ Cardinality(s) \in Nat /\ Cardinality(s) <= N
  BY FS_Subset, FS_CardinalityType
<1>2. Fine({})
  <2>1. {} \in SUBSET S OBVIOUS
  <2>2. h[{}] = 0 BY <1>7, <2>1
  <2> QED BY <2>2
<1>3. 0 \in T
  <2>1. \A s \in SUBSET S : Cardinality(s) <= 0 => s = {} BY <1>1, FS_EmptySet
  <2> HIDE DEF Fine
  <2> QED BY <1>2, <2>1
<1>4. ASSUME NEW n \in Nat, n \in T PROVE n + 1 \in T
  <2> SUFFICES ASSUME NEW s \in SUBSET S, Cardinality(s) <= n + 1, s # {} PROVE Fine(s)
    <3>1. \A s \in SUBSET S : Cardinality(s) <= n + 1 => s = {} \/ Fine(s) OBVIOUS
    <3> HIDE DEF Fine
    <3>2. \A s \in SUBSET S : Cardinality(s) <= n + 1 => Fine(s) BY <1>2, <3>1
    <3> QED BY <3>2
  <2> DEFINE d == c[s]
  <2>1. d \in s /\ h[s] = f[d] + h[s \ {d}] BY <1>6, <1>7
  <2>2. ASSUME NEW x \in s PROVE s \ {x} \in SUBSET S /\ Cardinality(s \ {x}) <= n /\ Fine(s \ {x})
    <3>1. Cardinality(s \ {x}) = Cardinality(s) - 1 /\ Cardinality(s) \in Nat BY <1>1, FS_RemoveElement
    <3>2. s \ {x} \in SUBSET S /\ Cardinality(s \ {x}) <= n BY <3>1
    <3> HIDE DEF Fine
    <3> QED BY <1>4, <3>2
  <2>3. f[d] \in Nat /\ h[s \ {d}] \in Nat BY <2>1, <2>2
  <2>4. ASSUME NEW x \in s PROVE h[s] = f[x] + h[s \ {x}]
    <3>1. CASE x = d BY <2>1, <3>1
    <3>2. CASE x # d
      <4>1. h[s \ {d}] = f[x] + h[(s \ {d}) \ {x}] BY <2>1, <2>2, <3>2
      <4>2. h[s \ {x}] = f[d] + h[(s \ {x}) \ {d}] BY <2>1, <2>2, <3>2
      <4>3. (s \ {d}) \ {x} = (s \ {x}) \ {d} OBVIOUS
      <4>4. (s \ {d}) \ {x} \in SUBSET S /\ Cardinality((s \ {d}) \ {x}) <= n
        <5>1. IsFiniteSet(s \ {d}) /\ x \in s \ {d} BY <1>1, <2>2, <3>2
        <5>2. Cardinality((s \ {d}) \ {x}) = Cardinality(s \ {d}) - 1 BY <5>1, FS_RemoveElement
        <5>3. Cardinality(s \ {d}) <= n /\ Cardinality(s \ {d}) \in Nat BY <1>1, <2>1, <2>2
        <5> QED BY <5>2, <5>3
      <4>5. h[(s \ {d}) \ {x}] \in Nat BY <1>4, <4>4
      <4> DEFINE y == h[(s \ {d}) \ {x}]
                 p == f[x]
                 q == f[d]
      <4>6. p \in Nat /\ q \in Nat BY <2>1
      <4>7. h[s] = q + (p + y) /\ h[s \ {x}] = q + y BY <2>1, <4>1, <4>2, <4>3
      <4> HIDE DEF y, p, q
      <4>8. h[s] = p + h[s \ {x}] BY <4>5, <4>6, <4>7 DEF y
      <4> QED BY <4>8 DEF p
    <3> QED BY <3>1, <3>2
  <2>5. h[s] \in Nat
    <3> DEFINE p == f[d]
               y == h[s \ {d}]
    <3>1. p \in Nat /\ y \in Nat /\ h[s] = p + y BY <2>1, <2>3
    <3> HIDE DEF p, y
    <3> QED BY <3>1
  <2> QED BY <2>4, <2>5
<1>5. N \in T
  <2> HIDE DEF T, N
  <2>1. 0 .. N \subseteq T BY <1>1, <1>3, <1>4, UpTo
  <2> QED BY <1>1, <2>1
<1> QED BY <1>1, <1>5 DEF AnyOrder

LEMMA SumExists ==
    ASSUME NEW S, IsFiniteSet(S), NEW f, \A x \in S : f[x] \in Nat
    PROVE  \E h \in [SUBSET S -> Nat] : SumOf(h, f, S)
<1> DEFINE c == [s \in SUBSET S |-> CHOOSE x \in s : TRUE]
           G == [p \in S \X Nat |-> f[p[1]] + p[2]]
<1>1. \A s \in SUBSET S : c[s] = (CHOOSE x \in s : TRUE) /\ (s # {} => c[s] \in s) OBVIOUS
<1>2. \A d \in S, m \in Nat : G[<<d, m>>] = f[d] + m /\ G[<<d, m>>] \in Nat OBVIOUS
<1> HIDE DEF c, G
<1>3. PICK h \in [SUBSET S -> Nat] : FoldOf(h, S, 0, c, G)
  <2>1. 0 \in Nat /\ \A s \in SUBSET S : s # {} => c[s] \in s BY <1>1
  <2> QED BY <1>2, <2>1, FoldExists
<1>4. ASSUME NEW s \in SUBSET S, s # {}
      PROVE  h[s] = f[CHOOSE x \in s : TRUE] + h[s \ {CHOOSE x \in s : TRUE}]
  <2>1. h[s] = G[<<c[s], h[s \ {c[s]}]>>] BY <1>3, <1>4 DEF FoldOf
  <2>2. c[s] \in S /\ h[s \ {c[s]}] \in Nat BY <1>1, <1>4
  <2>3. h[s] = f[c[s]] + h[s \ {c[s]}] BY <1>2, <2>1, <2>2
  <2> QED BY <1>1, <2>3
<1>5. h[{}] = 0
  <2>1. {} \in SUBSET S OBVIOUS
  <2> QED BY <1>3, <2>1 DEF FoldOf
<1> QED BY <1>4, <1>5 DEF SumOf

\* The same sum taken over the subsets of two sets.
LEMMA SumsAgree ==
    ASSUME NEW S, IsFiniteSet(S), NEW f, NEW g, SumOf(g, f, S), NEW h, SumOf(h, f, S)
    PROVE  \A s \in SUBSET S : g[s] = h[s]
<1> USE DEF SumOf
<1> DEFINE N == Cardinality(S)
           c(s) == CHOOSE x \in s : TRUE
           T == {n \in Nat : \A s \in SUBSET S : Cardinality(s) <= n => g[s] = h[s]}
<1>1. N \in Nat /\ \A s \in SUBSET S : IsFiniteSet(s) /\ Cardinality(s) \in Nat /\ Cardinality(s) <= N
  BY FS_Subset, FS_CardinalityType
<1>2. 0 \in T
  <2>1. \A s \in SUBSET S : Cardinality(s) <= 0 => s = {} BY <1>1, FS_EmptySet
  <2> QED BY <2>1
<1>3. ASSUME NEW n \in Nat, n \in T PROVE n + 1 \in T
  <2> SUFFICES ASSUME NEW s \in SUBSET S, Cardinality(s) <= n + 1, s # {} PROVE g[s] = h[s]
    BY <1>2
  <2>1. c(s) \in s OBVIOUS
  <2>2. g[s] = f[c(s)] + g[s \ {c(s)}] /\ h[s] = f[c(s)] + h[s \ {c(s)}] OBVIOUS
  <2> HIDE DEF c
  <2>3. Cardinality(s \ {c(s)}) = Cardinality(s) - 1 /\ Cardinality(s) \in Nat
    BY <1>1, <2>1, FS_RemoveElement
  <2>4. g[s \ {c(s)}] = h[s \ {c(s)}] BY <1>3, <2>3
  <2> QED BY <2>2, <2>4
<1>4. N \in T
  <2> HIDE DEF T, N
  <2>1. 0 .. N \subseteq T BY <1>1, <1>2, <1>3, UpTo
  <2> QED BY <1>1, <2>1
<1> QED BY <1>1, <1>4

\* A sum is one of its terms and the sum of the others.
LEMMA SumStep ==
    ASSUME NEW S, IsFiniteSet(S), NEW f, \A y \in S : f[y] \in Nat, NEW x \in S,
           NEW g, SumOf(g, f, S), NEW h, SumOf(h, f, S \ {x})
    PROVE  g[S] = f[x] + h[S \ {x}]
<1>1. \A y \in S : g[S] = f[y] + g[S \ {y}]
  <2>1. AnyOrder(g, f, S) BY SumOrder
  <2>2. S \in SUBSET S OBVIOUS
  <2> QED BY <2>1, <2>2 DEF AnyOrder
<1>2. g[S \ {x}] = h[S \ {x}]
  <2>1. IsFiniteSet(S \ {x}) BY FS_Subset
  <2>2. SumOf(g, f, S \ {x}) BY DEF SumOf
  <2>3. S \ {x} \in SUBSET (S \ {x}) OBVIOUS
  <2> QED BY <2>1, <2>2, <2>3, SumsAgree
<1> QED BY <1>1, <1>2

-----------------------------------------------------------------------------
\* The values of a function added up, as models write it.
SumUp(f) == FoldFunction(+, 0, f)

LEMMA SumUpFold ==
    ASSUME NEW D, IsFiniteSet(D), NEW f \in [D -> Nat]
    PROVE  \E h \in [SUBSET D -> Nat] : SumOf(h, f, D) /\ SumUp(f) = h[D]
<1> DEFINE it == CHOOSE iter :
                     iter = [s \in SUBSET D |->
                                IF s = {} THEN 0
                                ELSE f[CHOOSE x \in s : TRUE] + iter[s \ {CHOOSE x \in s : TRUE}]]
<1>1. SumUp(f) = it[D]
  <2>1. DOMAIN f = D OBVIOUS
  <2>2. SumUp(f) = (CHOOSE iter :
                       iter = [s \in SUBSET DOMAIN f |->
                                  IF s = {} THEN 0
                                  ELSE f[CHOOSE x \in s : TRUE] + iter[s \ {CHOOSE x \in s : TRUE}]])[DOMAIN f]
    BY DEF SumUp, FoldFunction, FoldFunctionOnSet, MapThenFoldSet
  <2> QED BY <2>1, <2>2
<1>2. \A x \in D : f[x] \in Nat OBVIOUS
<1>3. PICK h \in [SUBSET D -> Nat] : SumOf(h, f, D) BY <1>2, SumExists
<1>4. h = [s \in SUBSET D |->
              IF s = {} THEN 0
              ELSE f[CHOOSE x \in s : TRUE] + h[s \ {CHOOSE x \in s : TRUE}]]
  BY <1>3 DEF SumOf
<1>5. it = [s \in SUBSET D |->
               IF s = {} THEN 0
               ELSE f[CHOOSE x \in s : TRUE] + it[s \ {CHOOSE x \in s : TRUE}]]
  BY <1>4
<1> HIDE DEF it
<1>6. SumOf(it, f, D) BY <1>5 DEF SumOf
<1>7. D \in SUBSET D OBVIOUS
<1>8. it[D] = h[D] BY <1>2, <1>3, <1>6, <1>7, SumsAgree
<1> QED BY <1>1, <1>3, <1>8

\* The sum of naturals is one, and nought if they are.
LEMMA SumUpNat ==
    ASSUME NEW D, IsFiniteSet(D), NEW f \in [D -> Nat]
    PROVE  SumUp(f) \in Nat /\ ((\A x \in D : f[x] = 0) => SumUp(f) = 0)
<1>1. PICK h \in [SUBSET D -> Nat] : SumOf(h, f, D) /\ SumUp(f) = h[D] BY SumUpFold
<1>2. D \in SUBSET D OBVIOUS
<1>3. ASSUME \A x \in D : f[x] = 0 PROVE h[D] = 0
  <2> DEFINE z == [s \in SUBSET D |-> 0]
  <2>1. SumOf(z, f, D)
    <3> SUFFICES ASSUME NEW s \in SUBSET D
                 PROVE  z[s] = IF s = {} THEN 0 ELSE f[CHOOSE x \in s : TRUE] + z[s \ {CHOOSE x \in s : TRUE}]
      BY DEF SumOf
    <3>1. z[s] = 0 /\ \A t : z[s \ {t}] = 0 OBVIOUS
    <3>2. s # {} => (CHOOSE x \in s : TRUE) \in D OBVIOUS
    <3>3. s # {} => f[CHOOSE x \in s : TRUE] = 0 /\ z[s \ {CHOOSE x \in s : TRUE}] = 0
      BY <1>3, <3>1, <3>2
    <3> HIDE DEF z
    <3> QED BY <3>1, <3>3
  <2>2. z[D] = 0 BY <1>2
  <2> HIDE DEF z
  <2> QED BY <1>1, <1>2, <2>1, <2>2, SumsAgree
<1> QED BY <1>1, <1>2, <1>3

\* Where one value changes, the sum changes by as much.
LEMMA SumUpChange ==
    ASSUME NEW D, IsFiniteSet(D), NEW f \in [D -> Nat], NEW g \in [D -> Nat], NEW x \in D,
           \A y \in D \ {x} : f[y] = g[y]
    PROVE  SumUp(g) + f[x] = SumUp(f) + g[x]
<1>1. PICK h \in [SUBSET D -> Nat] : SumOf(h, f, D) /\ SumUp(f) = h[D] BY SumUpFold
<1>2. PICK k \in [SUBSET D -> Nat] : SumOf(k, g, D) /\ SumUp(g) = k[D] BY SumUpFold
<1> DEFINE R == D \ {x}
<1>3. SumOf(h, f, R) /\ SumOf(k, g, R)
  <2>1. SUBSET R \subseteq SUBSET D OBVIOUS
  <2> QED BY <1>1, <1>2, <2>1 DEF SumOf
<1>4. SumOf(k, f, R)
  <2>1. \A s \in SUBSET R : s # {} => (CHOOSE z \in s : TRUE) \in R OBVIOUS
  <2>2. \A z \in R : f[z] = g[z] OBVIOUS
  <2> HIDE DEF R
  <2>3. \A s \in SUBSET R : s # {} => f[CHOOSE z \in s : TRUE] = g[CHOOSE z \in s : TRUE] BY <2>1, <2>2
  <2> QED BY <1>3, <2>3 DEF SumOf
<1>5. IsFiniteSet(R) /\ R \in SUBSET R /\ \A z \in R : f[z] \in Nat
  <2>1. IsFiniteSet(R) BY FS_Subset
  <2> QED BY <2>1
<1>6. h[R] = k[R]
  <2> HIDE DEF R
  <2> QED BY <1>3, <1>4, <1>5, SumsAgree
<1>7. \A z \in D : f[z] \in Nat /\ g[z] \in Nat OBVIOUS
<1>8. h[D] = f[x] + h[R] BY <1>1, <1>3, <1>7, SumStep
<1>9. k[D] = g[x] + k[R] BY <1>2, <1>3, <1>7, SumStep
<1>10. h[R] \in Nat /\ f[x] \in Nat /\ g[x] \in Nat /\ h[D] \in Nat /\ k[D] \in Nat OBVIOUS
<1> QED BY <1>1, <1>2, <1>6, <1>8, <1>9, <1>10

\* What holds of the empty set and of every set one element larger holds of the whole set.
LEMMA GrowingSets ==
    ASSUME NEW D, IsFiniteSet(D), NEW T, {} \in T,
           \A s \in SUBSET D : \A x \in D \ s : s \in T => s \cup {x} \in T
    PROVE  D \in T
<1> DEFINE N == Cardinality(D)
           P == {n \in Nat : \A s \in SUBSET D : Cardinality(s) <= n => s \in T}
<1>1. N \in Nat /\ \A s \in SUBSET D : IsFiniteSet(s) /\ Cardinality(s) \in Nat /\ Cardinality(s) <= N
  BY FS_Subset, FS_CardinalityType
<1>2. 0 \in P
  <2>1. \A s \in SUBSET D : Cardinality(s) <= 0 => s = {} BY <1>1, FS_EmptySet
  <2> QED BY <2>1
<1>3. ASSUME NEW n \in Nat, n \in P PROVE n + 1 \in P
  <2> SUFFICES ASSUME NEW s \in SUBSET D, Cardinality(s) <= n + 1, s # {} PROVE s \in T
    OBVIOUS
  <2>1. PICK x \in s : TRUE OBVIOUS
  <2>2. Cardinality(s \ {x}) = Cardinality(s) - 1 /\ Cardinality(s) \in Nat
    BY <1>1, <2>1, FS_RemoveElement
  <2>3. s \ {x} \in T BY <1>3, <2>2
  <2>4. (s \ {x}) \cup {x} = s /\ x \in D \ (s \ {x}) /\ s \ {x} \in SUBSET D BY <2>1
  <2> QED BY <2>3, <2>4
<1>4. N \in P
  <2> HIDE DEF P, N
  <2>1. 0 .. N \subseteq P BY <1>1, <1>2, <1>3, UpTo
  <2> QED BY <1>1, <2>1
<1> QED BY <1>1, <1>4

\* The sums over larger and larger sets.
Sums(h, f, D) ==
    /\ h \in [SUBSET D -> Nat] /\ h[{}] = 0
    /\ \A s \in SUBSET D : \A x \in D \ s : h[s \cup {x}] = f[x] + h[s]

LEMMA SumGrows ==
    ASSUME NEW D, IsFiniteSet(D), NEW f \in [D -> Nat]
    PROVE  \E h : Sums(h, f, D) /\ SumUp(f) = h[D]
<1>1. PICK h \in [SUBSET D -> Nat] : SumOf(h, f, D) /\ SumUp(f) = h[D] BY SumUpFold
<1>2. AnyOrder(h, f, D)
  <2>1. \A x \in D : f[x] \in Nat OBVIOUS
  <2> QED BY <1>1, <2>1, SumOrder
<1>3. h[{}] = 0 BY <1>1 DEF SumOf
<1>4. ASSUME NEW s \in SUBSET D, NEW x \in D \ s PROVE h[s \cup {x}] = f[x] + h[s]
  <2>1. s \cup {x} \in SUBSET D /\ x \in s \cup {x} /\ (s \cup {x}) \ {x} = s OBVIOUS
  <2> QED BY <1>2, <2>1 DEF AnyOrder
<1> QED BY <1>1, <1>3, <1>4 DEF Sums

-----------------------------------------------------------------------------
\* R is a strict order of S; what comes before an element, and how many.
Ordered(R, S) ==
    /\ \A s \in S : <<s, s>> \notin R
    /\ \A s, t, u \in S : <<s, t>> \in R /\ <<t, u>> \in R => <<s, u>> \in R
    /\ \A s, t \in S : s # t => <<s, t>> \in R \/ <<t, s>> \in R

Behind(R, S, s) == Cardinality({t \in S : <<t, s>> \in R})

\* How many come before an element is its place in a strict order of a finite set.
LEMMA Places ==
    ASSUME NEW S, IsFiniteSet(S), NEW R, Ordered(R, S)
    PROVE  /\ Cardinality(S) \in Nat
           /\ \A s \in S : Behind(R, S, s) \in 0 .. Cardinality(S) - 1
           /\ \A s, t \in S : <<s, t>> \in R => Behind(R, S, s) < Behind(R, S, t)
           /\ \A s, t \in S : s # t => Behind(R, S, s) # Behind(R, S, t)
           /\ \A n \in 0 .. Cardinality(S) - 1 : \E s \in S : Behind(R, S, s) = n
<1> USE DEF Ordered, Behind
<1> DEFINE below(s) == {t \in S : <<t, s>> \in R}
           n == Cardinality(S)
           f == [s \in S |-> Cardinality(below(s))]
<1>1. n \in Nat BY FS_CardinalityType
<1>2. ASSUME NEW s \in S PROVE /\ below(s) \in SUBSET S /\ s \notin below(s)
                              /\ IsFiniteSet(below(s)) /\ f[s] \in 0 .. n - 1
  <2>1. below(s) \in SUBSET S /\ s \notin below(s) OBVIOUS
  <2>2. IsFiniteSet(below(s)) /\ Cardinality(below(s)) <= n /\ Cardinality(below(s)) \in Nat
    BY <2>1, FS_Subset, FS_CardinalityType
  <2>3. Cardinality(below(s)) # n BY <2>1, FS_Subset
  <2> QED BY <1>1, <2>1, <2>2, <2>3
<1>3. ASSUME NEW s \in S, NEW t \in S, <<s, t>> \in R PROVE f[s] < f[t]
  <2>1. below(s) \in SUBSET below(t) /\ s \notin below(s) /\ s \in below(t) BY <1>3
  <2>2. Cardinality(below(s)) <= Cardinality(below(t)) /\ Cardinality(below(s)) # Cardinality(below(t))
    BY <1>2, <2>1, FS_Subset
  <2>3. f[s] = Cardinality(below(s)) /\ f[t] = Cardinality(below(t)) OBVIOUS
  <2>4. f[s] \in 0 .. n - 1 /\ f[t] \in 0 .. n - 1 BY <1>2
  <2> HIDE DEF f, below, n
  <2> QED BY <1>1, <2>2, <2>3, <2>4
<1>4. \A s, t \in S : s # t => f[s] # f[t]
  <2> SUFFICES ASSUME NEW s \in S, NEW t \in S, s # t PROVE f[s] # f[t] OBVIOUS
  <2>1. f[s] < f[t] \/ f[t] < f[s] BY <1>3
  <2>2. f[s] \in 0 .. n - 1 /\ f[t] \in 0 .. n - 1 BY <1>2
  <2> HIDE DEF f, n
  <2> QED BY <1>1, <2>1, <2>2
<1>5. \A i \in 0 .. n - 1 : \E s \in S : f[s] = i
  <2>1. IsFiniteSet(0 .. n - 1) /\ Cardinality(0 .. n - 1) = n
    <3> HIDE DEF n
    <3>1. IsFiniteSet(0 .. n - 1) /\ Cardinality(0 .. n - 1) = IF 0 > n - 1 THEN 0 ELSE (n - 1) - 0 + 1
      BY <1>1, FS_Interval
    <3> QED BY <1>1, <3>1
  <2>2. f \in [S -> 0 .. n - 1] BY <1>2
  <2>3. f \in Surjection(S, 0 .. n - 1)
    <3> HIDE DEF f
    <3>1. f \in Injection(S, 0 .. n - 1) BY <1>4, <2>2, Fun_IsInj
    <3> QED BY <2>1, <3>1, FS_Injection
  <2> HIDE DEF f, n
  <2> QED BY <2>3 DEF Surjection
<1>6. \A s \in S : Behind(R, S, s) = f[s] OBVIOUS
<1>7. \A s \in S : f[s] \in 0 .. n - 1 BY <1>2
<1>8. \A s, t \in S : <<s, t>> \in R => f[s] < f[t] BY <1>3
<1> HIDE DEF f, Behind
<1> QED BY <1>1, <1>4, <1>5, <1>6, <1>7, <1>8

\* The values of a function over a finite set.
LEMMA Image ==
    ASSUME NEW S, IsFiniteSet(S), NEW f
    PROVE  LET T == {f[x] : x \in S}
           IN  /\ IsFiniteSet(T) /\ Cardinality(T) \in Nat
               /\ (\A x, y \in S : f[x] = f[y] => x = y) => Cardinality(T) = Cardinality(S)
<1> DEFINE T == {f[x] : x \in S}
           g == [x \in S |-> f[x]]
<1>1. g \in Surjection(S, T) BY DEF Surjection
<1>2. IsFiniteSet(T) /\ Cardinality(T) \in Nat BY <1>1, FS_Surjection, FS_CardinalityType
<1>3. ASSUME \A x, y \in S : f[x] = f[y] => x = y PROVE Cardinality(T) = Cardinality(S)
  <2>1. g \in Injection(S, T) BY <1>3 DEF Injection, IsInjective
  <2> HIDE DEF g, T
  <2> QED BY <1>1, <2>1, FS_Surjection
<1> QED BY <1>2, <1>3

\* As many are at the first places as there are places.
LEMMA FirstPlaces ==
    ASSUME NEW S, IsFiniteSet(S), NEW R, Ordered(R, S), NEW k \in 0 .. Cardinality(S)
    PROVE  Cardinality({s \in S : Behind(R, S, s) < k}) = k
<1> DEFINE N == Cardinality(S)
           f == [s \in S |-> Behind(R, S, s)]
           T == {s \in S : f[s] < k}
<1>1. /\ N \in Nat /\ \A s \in S : f[s] \in 0 .. N - 1
      /\ \A s, t \in S : s # t => f[s] # f[t]
      /\ \A n \in 0 .. N - 1 : \E s \in S : f[s] = n
  <2>1. \A s \in S : f[s] = Behind(R, S, s) OBVIOUS
  <2> HIDE DEF f
  <2> QED BY <2>1, Places
<1>2. {s \in S : Behind(R, S, s) < k} = T OBVIOUS
<1>3. k \in Nat /\ k <= N BY <1>1
<1> HIDE DEF f, N
<1>4. {f[s] : s \in T} = 0 .. k - 1
  <2>1. ASSUME NEW n \in 0 .. k - 1 PROVE \E s \in T : f[s] = n
    <3>1. n \in 0 .. N - 1 /\ n < k BY <1>1, <1>3
    <3>2. PICK s \in S : f[s] = n BY <1>1, <3>1
    <3> QED BY <3>1, <3>2
  <2>2. ASSUME NEW s \in T PROVE f[s] \in 0 .. k - 1 BY <1>1, <1>3
  <2> QED BY <2>1, <2>2
<1>5. IsFiniteSet(T) BY FS_Subset
<1>6. \A s, t \in T : f[s] = f[t] => s = t BY <1>1
<1> HIDE DEF T
<1>7. Cardinality({f[s] : s \in T}) = Cardinality(T)
  BY <1>5, <1>6, Image
<1>8. Cardinality(0 .. k - 1) = k
  <2>1. Cardinality(0 .. k - 1) = IF 0 > k - 1 THEN 0 ELSE (k - 1) - 0 + 1 BY <1>3, FS_Interval
  <2> QED BY <1>3, <2>1
<1> QED BY <1>2, <1>4, <1>7, <1>8

\* The one nothing comes before.
LEMMA FirstOne ==
    ASSUME NEW S, IsFiniteSet(S), S # {}, NEW R, Ordered(R, S)
    PROVE  \E s \in S : \A t \in S \ {s} : <<s, t>> \in R
<1>1. Cardinality(S) \in Nat /\ Cardinality(S) # 0 BY FS_CardinalityType, FS_EmptySet
<1>2. 0 \in 0 .. Cardinality(S) - 1 BY <1>1
<1>3. PICK s \in S : Behind(R, S, s) = 0 BY <1>2, Places
<1>4. {t \in S : <<t, s>> \in R} = {}
  <2>1. IsFiniteSet({t \in S : <<t, s>> \in R}) BY FS_Subset
  <2> QED BY <1>3, <2>1, FS_EmptySet DEF Behind
<1> QED BY <1>4 DEF Ordered

\* A sequence that has the elements of S in their order has all of them, each one once.
InPlaces(q, R, S) ==
    \A i \in 1 .. Cardinality(S) : q[i] \in S /\ Behind(R, S, q[i]) = i - 1

IsListOf(q, S) ==
    /\ q \in [1 .. Cardinality(S) -> S]
    /\ \A i, j \in 1 .. Cardinality(S) : i # j => q[i] # q[j]
    /\ \A s \in S : \E i \in 1 .. Cardinality(S) : q[i] = s

LEMMA InOrder ==
    ASSUME NEW S, IsFiniteSet(S), NEW R, Ordered(R, S), NEW q,
           q \in [1 .. Cardinality(S) -> S], InPlaces(q, R, S)
    PROVE  IsListOf(q, S)
<1> DEFINE n == Cardinality(S)
<1>1. /\ n \in Nat
      /\ \A s \in S : Behind(R, S, s) \in 0 .. n - 1
      /\ \A s, t \in S : s # t => Behind(R, S, s) # Behind(R, S, t)
  BY Places
<1>2. \A i \in 1 .. n : q[i] \in S /\ Behind(R, S, q[i]) = i - 1 BY DEF InPlaces
<1>5. q \in [1 .. n -> S] OBVIOUS
<1> HIDE DEF n
<1>3. ASSUME NEW i \in 1 .. n, NEW j \in 1 .. n, q[i] = q[j] PROVE i = j
  <2>1. i - 1 = j - 1 BY <1>2, <1>3
  <2> QED BY <1>1, <2>1
<1>4. ASSUME NEW s \in S PROVE \E i \in 1 .. n : q[i] = s
  <2>1. Behind(R, S, s) + 1 \in 1 .. n /\ (Behind(R, S, s) + 1) - 1 = Behind(R, S, s) BY <1>1
  <2>2. q[Behind(R, S, s) + 1] = s BY <1>1, <1>2, <2>1
  <2> QED BY <2>1, <2>2
<1> QED BY <1>3, <1>4, <1>5 DEF n, IsListOf

\* The largest and the smallest number of a finite set.
LEMMA Largest ==
    ASSUME NEW S \in SUBSET Int, IsFiniteSet(S), S # {}
    PROVE  Max(S) \in S /\ \A i \in S : i <= Max(S)
<1> DEFINE R == {p \in S \X S : p[1] > p[2]}
<1>1. \A i, j \in S : <<i, j>> \in R <=> i > j OBVIOUS
<1> HIDE DEF R
<1>2. \A i \in S : i \in Int OBVIOUS
<1>3. Ordered(R, S) BY <1>1, <1>2 DEF Ordered
<1>4. PICK k \in S : \A i \in S \ {k} : <<k, i>> \in R BY <1>3, FirstOne
<1>5. ASSUME NEW i \in S PROVE k >= i
  <2>1. CASE i = k BY <1>2, <2>1
  <2>2. CASE i # k
    <3>1. <<k, i>> \in R BY <1>4, <2>2
    <3> QED BY <1>1, <1>2, <3>1
  <2> QED BY <2>1, <2>2
<1>6. Max(S) \in S /\ \A i \in S : Max(S) >= i BY <1>5 DEF Max
<1> QED BY <1>2, <1>6

LEMMA Smallest ==
    ASSUME NEW S \in SUBSET Int, IsFiniteSet(S), S # {}
    PROVE  Min(S) \in S /\ \A i \in S : Min(S) <= i
<1> DEFINE R == {p \in S \X S : p[1] < p[2]}
<1>1. \A i, j \in S : <<i, j>> \in R <=> i < j OBVIOUS
<1> HIDE DEF R
<1>2. \A i \in S : i \in Int OBVIOUS
<1>3. Ordered(R, S) BY <1>1, <1>2 DEF Ordered
<1>4. PICK k \in S : \A i \in S \ {k} : <<k, i>> \in R BY <1>3, FirstOne
<1>5. ASSUME NEW i \in S PROVE k <= i
  <2>1. CASE i = k BY <1>2, <2>1
  <2>2. CASE i # k
    <3>1. <<k, i>> \in R BY <1>4, <2>2
    <3> QED BY <1>1, <1>2, <3>1
  <2> QED BY <2>1, <2>2
<1>6. Min(S) \in S /\ \A i \in S : Min(S) <= i BY <1>5 DEF Min
<1> QED BY <1>6

LEMMA LargestOf ==
    ASSUME NEW n \in Nat, NEW s \in SUBSET (1 .. n), s # {}
    PROVE  Max(s) \in s /\ Max(s) \in 1 .. n
<1> DEFINE D == 1 .. n
<1>1. IsFiniteSet(D) BY FS_Interval
<1>2. \A i \in D : i \in Int OBVIOUS
<1> HIDE DEF D
<1>3. s \in SUBSET D BY DEF D
<1>4. s \in SUBSET Int /\ IsFiniteSet(s) BY <1>1, <1>2, <1>3, FS_Subset
<1>5. Max(s) \in s BY <1>4, Largest
<1> QED BY <1>5

LEMMA LastOfPrefix ==
    ASSUME NEW i \in Nat \ {0}
    PROVE  Max(1 .. i) = i /\ (1 .. i) \ {i} = 1 .. i - 1
<1>1. Max(1 .. i) \in 1 .. i /\ \A j \in 1 .. i : j <= Max(1 .. i)
  <2>1. IsFiniteSet(1 .. i) BY FS_Interval
  <2>2. 1 .. i \in SUBSET Int /\ 1 .. i # {}
    <3>1. 1 \in 1 .. i /\ \A j \in 1 .. i : j \in Int OBVIOUS
    <3> QED BY <3>1
  <2> QED BY <2>1, <2>2, Largest
<1>2. Max(1 .. i) = i BY <1>1
<1> QED BY <1>2

\* h folds G over the first n numbers, from b and from the left, as FoldLeft does.
LeftFoldOf(h, n, b, G) ==
    \A s \in SUBSET (1 .. n) : h[s] = IF s = {} THEN b ELSE G[<<Max(s), h[s \ {Max(s)}]>>]

\* There is one within B.
LEMMA LeftFoldExists ==
    ASSUME NEW n \in Nat, NEW B, NEW b \in B, NEW G, \A i \in 1 .. n, x \in B : G[<<i, x>>] \in B
    PROVE  \E h \in [SUBSET (1 .. n) -> B] : LeftFoldOf(h, n, b, G)
<1> DEFINE D == 1 .. n
           c == [s \in SUBSET D |-> Max(s)]
<1>1. \A s \in SUBSET D : c[s] = Max(s) /\ (s # {} => c[s] \in s)
  <2> SUFFICES ASSUME NEW s \in SUBSET D, s # {} PROVE Max(s) \in s OBVIOUS
  <2> QED BY LargestOf
<1>2. IsFiniteSet(D) BY FS_Interval
<1>3. \A d \in D, x \in B : G[<<d, x>>] \in B OBVIOUS
<1> HIDE DEF c, D
<1>4. PICK h \in [SUBSET D -> B] : FoldOf(h, D, b, c, G)
  <2>1. \A s \in SUBSET D : s # {} => c[s] \in s BY <1>1
  <2> QED BY <1>2, <1>3, <2>1, FoldExists
<1>5. LeftFoldOf(h, n, b, G) BY <1>1, <1>4 DEF FoldOf, LeftFoldOf, D
<1> QED BY <1>4, <1>5 DEF D

LEMMA Apart ==
    ASSUME NEW S, IsFiniteSet(S), NEW T, IsFiniteSet(T), S \cap T = {}
    PROVE  /\ IsFiniteSet(S \cup T) /\ Cardinality(S) \in Nat /\ Cardinality(T) \in Nat
           /\ Cardinality(S \cup T) = Cardinality(S) + Cardinality(T)
<1> DEFINE u == Cardinality(S)
           v == Cardinality(T)
           o == Cardinality(S \cap T)
<1>1. u \in Nat /\ v \in Nat /\ o = 0 BY FS_CardinalityType, FS_EmptySet
<1>2. IsFiniteSet(S \cup T) /\ Cardinality(S \cup T) = u + v - o BY FS_Union
<1> HIDE DEF u, v, o
<1>3. Cardinality(S \cup T) = u + v BY <1>1, <1>2
<1> QED BY <1>1, <1>2, <1>3 DEF u, v

\* A union of N disjoint sets of at most k elements has N times k at most, and only if each has k.
LEMMA FullSets ==
    ASSUME NEW N \in Nat, NEW k \in Nat, NEW f,
           \A i \in 1 .. N : IsFiniteSet(f[i]) /\ Cardinality(f[i]) <= k,
           \A i, j \in 1 .. N : i # j => f[i] \cap f[j] = {}
    PROVE  LET all == UNION {f[i] : i \in 1 .. N}
           IN  /\ IsFiniteSet(all) /\ Cardinality(all) <= N * k
               /\ Cardinality(all) = N * k => \A i \in 1 .. N : Cardinality(f[i]) = k
<1> DEFINE U(n) == UNION {f[i] : i \in 1 .. n}
           Short(n) == \E i \in 1 .. n : Cardinality(f[i]) < k
           T == {n \in 0 .. N : /\ IsFiniteSet(U(n)) /\ Cardinality(U(n)) <= n * k
                                /\ Short(n) => Cardinality(U(n)) < n * k}
<1>1. 0 \in T
  <2>1. U(0) = {} /\ ~Short(0) OBVIOUS
  <2>2. IsFiniteSet({}) /\ Cardinality({}) = 0 BY FS_EmptySet
  <2> DEFINE z == 0 * k
  <2>3. z = 0 /\ 0 \in 0 .. N OBVIOUS
  <2> HIDE DEF U, Short, z
  <2>4. IsFiniteSet(U(0)) /\ Cardinality(U(0)) = 0 /\ ~Short(0) BY <2>1, <2>2
  <2> QED BY <2>3, <2>4 DEF z
<1>2. ASSUME NEW n \in 0 .. N - 1, n \in T PROVE n + 1 \in T
  <2>1. n + 1 \in 1 .. N /\ n + 1 \in 0 .. N /\ n \in Nat OBVIOUS
  <2>2. U(n + 1) = U(n) \cup f[n + 1] /\ U(n) \cap f[n + 1] = {}
    <3>1. \A i \in 1 .. n + 1 : i \in 1 .. n \/ i = n + 1 OBVIOUS
    <3>2. \A i \in 1 .. n : i \in 1 .. N /\ i \in 1 .. n + 1 /\ i # n + 1 OBVIOUS
    <3>3. n + 1 \in 1 .. n + 1 OBVIOUS
    <3>4. U(n + 1) = U(n) \cup f[n + 1] BY <3>1, <3>2, <3>3
    <3>5. \A i \in 1 .. n : f[i] \cap f[n + 1] = {} BY <2>1, <3>2
    <3> QED BY <3>4, <3>5
  <2>3. IsFiniteSet(U(n)) /\ Cardinality(U(n)) <= n * k /\ (Short(n) => Cardinality(U(n)) < n * k)
    BY <1>2
  <2>4. IsFiniteSet(f[n + 1]) /\ Cardinality(f[n + 1]) <= k /\ Cardinality(f[n + 1]) \in Nat
    BY <2>1, FS_CardinalityType
  <2>5. /\ IsFiniteSet(U(n + 1)) /\ Cardinality(U(n)) \in Nat
        /\ Cardinality(U(n + 1)) = Cardinality(U(n)) + Cardinality(f[n + 1])
    <3> HIDE DEF U
    <3>1. /\ IsFiniteSet(U(n) \cup f[n + 1]) /\ Cardinality(U(n)) \in Nat
          /\ Cardinality(U(n) \cup f[n + 1]) = Cardinality(U(n)) + Cardinality(f[n + 1])
      BY <2>2, <2>3, <2>4, Apart
    <3> QED BY <2>2, <3>1
  <2>6. Short(n + 1) => Short(n) \/ Cardinality(f[n + 1]) < k
    <3>1. \A i \in 1 .. n + 1 : i \in 1 .. n \/ i = n + 1 OBVIOUS
    <3> QED BY <3>1
  <2>7. (n + 1) * k = n * k + k /\ n * k \in Nat OBVIOUS
  <2> DEFINE x == n * k
             y == (n + 1) * k
             u == Cardinality(U(n))
             v == Cardinality(U(n + 1))
             w == Cardinality(f[n + 1])
  <2>8. v <= y /\ (Short(n + 1) => v < y)
    <3>1. v = u + w /\ u \in Nat /\ w \in Nat /\ w <= k /\ u <= x /\ y = x + k /\ x \in Nat
      BY <2>3, <2>4, <2>5, <2>7
    <3>2. (Short(n) => u < x) /\ (Short(n + 1) => Short(n) \/ w < k) BY <2>3, <2>6
    <3> HIDE DEF x, y, u, v, w, Short
    <3> QED BY <3>1, <3>2
  <2> HIDE DEF U, Short
  <2> QED BY <2>1, <2>5, <2>8
<1>3. N \in T
  <2> HIDE DEF T
  <2>1. 0 .. N \subseteq T BY <1>1, <1>2, UpTo
  <2> QED BY <2>1
<1>4. IsFiniteSet(U(N)) /\ Cardinality(U(N)) <= N * k BY <1>3
<1>5. Cardinality(U(N)) = N * k => ~Short(N)
  <2> DEFINE x == N * k
  <2>1. (Short(N) => Cardinality(U(N)) < x) /\ x \in Nat BY <1>3
  <2> HIDE DEF U, Short, x
  <2>2. Cardinality(U(N)) = x => ~Short(N) BY <2>1
  <2> QED BY <2>2 DEF x
<1>6. \A i \in 1 .. N : Cardinality(f[i]) \in Nat BY FS_CardinalityType
<1>7. ~Short(N) => \A i \in 1 .. N : Cardinality(f[i]) = k BY <1>6
<1> QED BY <1>4, <1>5, <1>7, Zenon

\* f has N disjoint sets of at least k elements: then their union has at least N times k.
LargeSets(f, N, k) ==
    /\ \A i \in 1 .. N : IsFiniteSet(f[i]) /\ Cardinality(f[i]) >= k
    /\ \A i, j \in 1 .. N : i # j => f[i] \cap f[j] = {}

UnionOf(f, N) == UNION {f[i] : i \in 1 .. N}

LEMMA ManySets ==
    ASSUME NEW N \in Nat, NEW k \in Nat, NEW f, LargeSets(f, N, k)
    PROVE  IsFiniteSet(UnionOf(f, N)) /\ Cardinality(UnionOf(f, N)) >= N * k
<1> USE DEF LargeSets, UnionOf
<1> DEFINE U(n) == UNION {f[i] : i \in 1 .. n}
           T == {n \in 0 .. N : IsFiniteSet(U(n)) /\ Cardinality(U(n)) >= n * k}
<1>1. 0 \in T
  <2>1. U(0) = {} OBVIOUS
  <2>2. IsFiniteSet({}) /\ Cardinality({}) = 0 BY FS_EmptySet
  <2> DEFINE z == 0 * k
  <2>3. z = 0 /\ 0 \in 0 .. N OBVIOUS
  <2> HIDE DEF U, z
  <2>4. IsFiniteSet(U(0)) /\ Cardinality(U(0)) = 0 BY <2>1, <2>2
  <2>5. Cardinality(U(0)) >= z BY <2>3, <2>4
  <2> QED BY <2>3, <2>4, <2>5 DEF z
<1>2. ASSUME NEW n \in 0 .. N - 1, n \in T PROVE n + 1 \in T
  <2>1. n + 1 \in 1 .. N /\ n + 1 \in 0 .. N /\ n \in Nat OBVIOUS
  <2>2. U(n + 1) = U(n) \cup f[n + 1] /\ U(n) \cap f[n + 1] = {}
    <3>1. \A i \in 1 .. n + 1 : i \in 1 .. n \/ i = n + 1 OBVIOUS
    <3>2. \A i \in 1 .. n : i \in 1 .. N /\ i \in 1 .. n + 1 /\ i # n + 1 OBVIOUS
    <3>3. n + 1 \in 1 .. n + 1 OBVIOUS
    <3>4. U(n + 1) = U(n) \cup f[n + 1] BY <3>1, <3>2, <3>3
    <3>5. \A i \in 1 .. n : f[i] \cap f[n + 1] = {} BY <2>1, <3>2
    <3> QED BY <3>4, <3>5
  <2>3. IsFiniteSet(U(n)) /\ Cardinality(U(n)) >= n * k BY <1>2
  <2>4. IsFiniteSet(f[n + 1]) /\ Cardinality(f[n + 1]) >= k BY <2>1
  <2> DEFINE u == Cardinality(U(n))
             v == Cardinality(U(n + 1))
             e == Cardinality(f[n + 1])
             x == n * k
             y == (n + 1) * k
  <2>5. IsFiniteSet(U(n + 1)) /\ v = u + e
    <3> HIDE DEF U
    <3>1. /\ IsFiniteSet(U(n) \cup f[n + 1])
          /\ Cardinality(U(n) \cup f[n + 1]) = Cardinality(U(n)) + Cardinality(f[n + 1])
      BY <2>2, <2>3, <2>4, Apart
    <3> QED BY <2>2, <3>1
  <2>6. y = x + k /\ x \in Nat OBVIOUS
  <2>7. u \in Nat /\ e \in Nat BY <2>3, <2>4, FS_CardinalityType
  <2>8. v >= y
    <3>1. u >= x /\ e >= k BY <2>3, <2>4
    <3> HIDE DEF u, v, e, x, y
    <3> QED BY <2>5, <2>6, <2>7, <3>1
  <2> HIDE DEF U
  <2> QED BY <2>1, <2>5, <2>8
<1>3. N \in T
  <2> HIDE DEF T
  <2>1. 0 .. N \subseteq T BY <1>1, <1>2, UpTo
  <2> QED BY <2>1
<1> QED BY <1>3

-----------------------------------------------------------------------------
\* Quotients and remainders.
LEMMA Division ==
    ASSUME NEW m \in Int, NEW n \in Nat \ {0}
    PROVE  m \div n \in Int /\ m % n \in 0 .. n - 1 /\ m = n * (m \div n) + (m % n)
OBVIOUS

LEMMA DivisionUnique ==
    ASSUME NEW n \in Nat \ {0}, NEW q \in Int, NEW r \in 0 .. n - 1
    PROVE  (n * q + r) \div n = q /\ (n * q + r) % n = r
OBVIOUS

LEMMA Distribute ==
    ASSUME NEW n \in Int, NEW p \in Int, NEW q \in Int
    PROVE  n * (p + q) = n * p + n * q /\ n * (p - q) = n * p - n * q
OBVIOUS

LEMMA Regroup ==
    ASSUME NEW l \in Int, NEW m \in Int, NEW n \in Int
    PROVE  (l * m) * n = l * (m * n) /\ (l * m) * n = (l * n) * m /\ l * m = m * l
OBVIOUS

LEMMA SameRemainder ==
    ASSUME NEW n \in Nat \ {0}, NEW m \in Int, NEW k \in Int
    PROVE  (m + n * k) % n = m % n
<1> DEFINE q == m \div n  r == m % n
<1>1. m = n * q + r /\ q \in Int /\ r \in 0 .. n - 1 BY Division
<1> HIDE DEF q, r
<1>2. m + n * k = n * (q + k) + r BY <1>1, Distribute
<1>3. (n * (q + k) + r) % n = r BY <1>1, DivisionUnique
<1>4. (n * q + r) % n = r BY <1>1, DivisionUnique
<1> QED BY <1>1, <1>2, <1>3, <1>4

LEMMA RemainderApart ==
    ASSUME NEW n \in Nat \ {0}, NEW l \in Int, NEW m \in Int, l % n = m % n
    PROVE  \E k \in Int : l = m + n * k
<1> DEFINE p == l \div n  q == m \div n  r == m % n
<1>1. m = n * q + r /\ q \in Int /\ r \in 0 .. n - 1 BY Division
<1>2. l = n * p + r /\ p \in Int BY Division
<1> HIDE DEF p, q, r
<1>3. l = m + n * (p - q) BY <1>1, <1>2, Distribute
<1>4. p - q \in Int BY <1>1, <1>2
<1> QED BY <1>3, <1>4

LEMMA NoMultiple ==
    ASSUME NEW n \in Nat \ {0}, NEW k \in Int, n * k < n, n * k > -n
    PROVE  k = 0
<1>1. CASE k >= 1
  <2>1. n * k = n + n * (k - 1) /\ n * (k - 1) >= 0 BY <1>1
  <2> QED BY <2>1
<1>2. CASE k <= -1
  <2> DEFINE p == -1 - k
  <2>1. p \in Nat /\ k = -1 - p BY <1>2
  <2> HIDE DEF p
  <2>2. n * k = -n - n * p /\ n * p >= 0 BY <2>1
  <2> QED BY <2>2
<1> QED BY <1>1, <1>2

\* The next number has the next remainder, or starts a new quotient.
LEMMA NextRemainder ==
    ASSUME NEW m \in Nat, NEW n \in Nat \ {0}
    PROVE  /\ m \div n \in Nat /\ m % n \in 0 .. n - 1
           /\ m % n < n - 1 => (m + 1) \div n = m \div n /\ (m + 1) % n = (m % n) + 1
           /\ m % n = n - 1 => (m + 1) \div n = m \div n + 1 /\ (m + 1) % n = 0
<1> DEFINE q == m \div n  r == m % n
<1>1. m = n * q + r /\ q \in Int /\ r \in 0 .. n - 1 BY Division
<1>2. q \in Nat OBVIOUS
<1> HIDE DEF q, r
<1>3. ASSUME r < n - 1 PROVE (m + 1) \div n = q /\ (m + 1) % n = r + 1
  <2>1. m + 1 = n * q + (r + 1) /\ r + 1 \in 0 .. n - 1 BY <1>1, <1>3
  <2> QED BY <1>1, <2>1, DivisionUnique
<1>4. ASSUME r = n - 1 PROVE (m + 1) \div n = q + 1 /\ (m + 1) % n = 0
  <2>1. m + 1 = n * (q + 1) + 0 BY <1>1, <1>4, Distribute
  <2> QED BY <1>1, <2>1, DivisionUnique
<1> QED BY <1>1, <1>2, <1>3, <1>4 DEF q, r

LEMMA RemainderSum ==
    ASSUME NEW n \in Nat \ {0}, NEW l \in Int, NEW m \in Int
    PROVE  ((l % n) + m) % n = (l + m) % n
<1> DEFINE q == l \div n  r == l % n
<1>1. l = n * q + r /\ q \in Int /\ r \in Int BY Division
<1> HIDE DEF q, r
<1>2. l + m = (r + m) + n * q /\ r + m \in Int BY <1>1
<1>3. ((r + m) + n * q) % n = (r + m) % n BY <1>1, <1>2, SameRemainder
<1> QED BY <1>2, <1>3 DEF r

LEMMA LargerQuotient ==
    ASSUME NEW n \in Nat \ {0}, NEW l \in Int, NEW m \in Int, l <= m
    PROVE  l \div n <= m \div n
<1> DEFINE p == l \div n  q == m \div n
<1>1. l = n * p + (l % n) /\ l % n \in 0 .. n - 1 /\ p \in Int BY Division
<1>2. m = n * q + (m % n) /\ m % n \in 0 .. n - 1 /\ q \in Int BY Division
<1> HIDE DEF p, q
<1> SUFFICES ASSUME p >= q + 1 PROVE FALSE BY <1>1, <1>2 DEF p, q
<1>3. n * p >= n * (q + 1) BY <1>1, <1>2
<1>4. n * (q + 1) = n * q + n /\ n * p \in Int /\ n * q \in Int BY <1>1, <1>2
<1> QED BY <1>1, <1>2, <1>3, <1>4

\* What was added taken off again.
LEMMA ThereAndBack ==
    ASSUME NEW n \in Nat \ {0}, NEW x \in 0 .. n - 1, NEW m \in Int
    PROVE  (((x + m) % n) - m) % n = x
<1>1. x + m \in Int /\ -m \in Int OBVIOUS
<1>2. (((x + m) % n) + (-m)) % n = ((x + m) + (-m)) % n BY <1>1, RemainderSum
<1>3. (x + m) + (-m) = x OBVIOUS
<1>4. (n * 0 + x) % n = x /\ n * 0 + x = x
  <2>1. (n * 0 + x) % n = x BY DivisionUnique
  <2> QED BY <2>1
<1>5. (x + m) % n \in Int BY <1>1, Division
<1>6. ((x + m) % n) + (-m) = ((x + m) % n) - m
  <2> DEFINE z == (x + m) % n
  <2> HIDE DEF z
  <2>1. z \in Int => z + (-m) = z - m OBVIOUS
  <2> QED BY <1>5, <2>1 DEF z
<1> QED BY <1>2, <1>3, <1>4, <1>6
===============================================================================
