----------------------------- MODULE PlannerProofs -----------------------------
(***************************************************************************)
(* Batch planning, for any ranks, budgets, window and costs, and the       *)
(* stream of draws that it plans, for any sources, weights and blocks.     *)
(***************************************************************************)
EXTENDS BatchPlanner, SampleSchedule, FoldLemmas, SequenceTheorems

-----------------------------------------------------------------------------
(***************************************************************************)
(* Orders by a key, as Python sorts by a tuple.                            *)
(***************************************************************************)
Tuple(a, k) == a \in [1 .. k -> Int] /\ Len(a) = k

Keyed(key, S, k) ==
    /\ \A s \in S : Tuple(key[s], k)
    /\ \A s, t \in S : s # t => key[s] # key[t]

ByKey(key, S) == {p \in S \X S : Before(key[p[1]], key[p[2]])}

LEMMA TuplesIrreflexive ==
    ASSUME NEW k \in Nat, NEW a, Tuple(a, k)
    PROVE  ~Before(a, a)
BY DEF Before, Tuple

LEMMA TuplesTransitive ==
    ASSUME NEW k \in Nat, NEW a, Tuple(a, k), NEW b, Tuple(b, k), NEW c, Tuple(c, k),
           Before(a, b), Before(b, c)
    PROVE  Before(a, c)
<1> USE DEF Tuple
<1>1. PICK i \in 1 .. k : a[i] < b[i] /\ \A j \in 1 .. i - 1 : a[j] = b[j] BY DEF Before
<1>2. PICK m \in 1 .. k : b[m] < c[m] /\ \A j \in 1 .. m - 1 : b[j] = c[j] BY DEF Before
<1>3. CASE i <= m
  <2>1. a[i] < c[i]
    <3>1. CASE i = m BY <1>1, <1>2, <3>1
    <3>2. CASE i # m
      <4>1. i \in 1 .. m - 1 BY <1>3, <3>2
      <4> QED BY <1>1, <1>2, <4>1
    <3> QED BY <3>1, <3>2
  <2>2. \A j \in 1 .. i - 1 : a[j] = c[j]
    <3>1. \A j \in 1 .. i - 1 : j \in 1 .. m - 1 BY <1>3
    <3> QED BY <1>1, <1>2, <3>1
  <2> QED BY <2>1, <2>2 DEF Before
<1>4. CASE m < i
  <2>1. a[m] < c[m]
    <3>1. m \in 1 .. i - 1 BY <1>4
    <3> QED BY <1>1, <1>2, <3>1
  <2>2. \A j \in 1 .. m - 1 : a[j] = c[j]
    <3>1. \A j \in 1 .. m - 1 : j \in 1 .. i - 1 BY <1>4
    <3> QED BY <1>1, <1>2, <3>1
  <2> QED BY <2>1, <2>2 DEF Before
<1> QED BY <1>3, <1>4

LEMMA TuplesTotal ==
    ASSUME NEW k \in Nat, NEW a, Tuple(a, k), NEW b, Tuple(b, k), a # b
    PROVE  Before(a, b) \/ Before(b, a)
<1> DEFINE T == {i \in 1 .. k : a[i] # b[i]}
<1>1. T # {}
  <2>1. a = [i \in 1 .. k |-> a[i]] /\ b = [i \in 1 .. k |-> b[i]] BY DEF Tuple
  <2> SUFFICES ASSUME \A i \in 1 .. k : a[i] = b[i] PROVE FALSE OBVIOUS
  <2>2. [i \in 1 .. k |-> a[i]] = [i \in 1 .. k |-> b[i]] OBVIOUS
  <2> QED BY <2>1, <2>2
<1>2. T \in SUBSET Nat OBVIOUS
<1>3. PICK i \in T : \A m \in T : i <= m
  <2> HIDE DEF T
  <2> QED BY <1>1, <1>2, LeastNat
<1>4. \A j \in 1 .. i - 1 : a[j] = b[j] /\ b[j] = a[j] BY <1>3
<1>5. a[i] < b[i] \/ b[i] < a[i] BY <1>3 DEF Tuple
<1> QED BY <1>3, <1>4, <1>5 DEF Before, Tuple

\* A key that tells the elements apart puts them in a strict order.
LEMMA KeysOrder ==
    ASSUME NEW k \in Nat, NEW S, NEW key, Keyed(key, S, k)
    PROVE  /\ Ordered(ByKey(key, S), S)
           /\ \A s, t \in S : <<s, t>> \in ByKey(key, S) <=> Before(key[s], key[t])
<1>1. \A s, t \in S : <<s, t>> \in ByKey(key, S) <=> Before(key[s], key[t]) BY DEF ByKey
<1>2. \A s \in S : <<s, s>> \notin ByKey(key, S) BY <1>1, TuplesIrreflexive DEF Keyed
<1>3. ASSUME NEW s \in S, NEW t \in S, NEW u \in S, <<s, t>> \in ByKey(key, S), <<t, u>> \in ByKey(key, S)
      PROVE  <<s, u>> \in ByKey(key, S)
  <2>1. Tuple(key[s], k) /\ Tuple(key[t], k) /\ Tuple(key[u], k) BY DEF Keyed
  <2>2. Before(key[s], key[t]) /\ Before(key[t], key[u]) BY <1>1, <1>3
  <2> QED BY <1>1, <2>1, <2>2, TuplesTransitive
<1>4. \A s, t \in S : s # t => <<s, t>> \in ByKey(key, S) \/ <<t, s>> \in ByKey(key, S)
  BY <1>1, TuplesTotal DEF Keyed
<1> QED BY <1>1, <1>2, <1>3, <1>4 DEF Ordered

\* The element with the first key.
LEMMA FirstByKey ==
    ASSUME NEW k \in Nat, NEW S, IsFiniteSet(S), S # {}, NEW key, Keyed(key, S, k)
    PROVE  \E s \in S : \A t \in S \ {s} : Before(key[s], key[t])
<1>1. PICK s \in S : \A t \in S \ {s} : <<s, t>> \in ByKey(key, S) BY KeysOrder, FirstOne
<1> QED BY <1>1, KeysOrder

\* The places a key gives the elements.
Ahead(key, S, s) == Cardinality({t \in S : Before(key[t], key[s])})

LEMMA PlacesByKey ==
    ASSUME NEW k \in Nat, NEW S, IsFiniteSet(S), NEW key, Keyed(key, S, k)
    PROVE  /\ Cardinality(S) \in Nat
           /\ \A s \in S : Behind(ByKey(key, S), S, s) = Ahead(key, S, s)
           /\ \A n \in 1 .. Cardinality(S) : \E s \in S : Ahead(key, S, s) = n - 1
<1>1. ASSUME NEW s \in S PROVE Behind(ByKey(key, S), S, s) = Ahead(key, S, s)
  <2>1. {t \in S : <<t, s>> \in ByKey(key, S)} = {t \in S : Before(key[t], key[s])} BY KeysOrder
  <2> QED BY <2>1 DEF Behind, Ahead
<1>2. Cardinality(S) \in Nat BY FS_CardinalityType
<1>3. ASSUME NEW n \in 1 .. Cardinality(S) PROVE \E s \in S : Ahead(key, S, s) = n - 1
  <2>1. n - 1 \in 0 .. Cardinality(S) - 1 BY <1>2
  <2>2. PICK s \in S : Behind(ByKey(key, S), S, s) = n - 1 BY <2>1, Places, KeysOrder
  <2> QED BY <1>1, <2>2
<1> QED BY <1>1, <1>2, <1>3

\* A set sorted by a key is a sequence that has every element once.
AheadInOrder(q, key, S) == \A n \in 1 .. Cardinality(S) : Ahead(key, S, q[n]) = n - 1

LEMMA SortedByKey ==
    ASSUME NEW k \in Nat, NEW S, IsFiniteSet(S), NEW key, Keyed(key, S, k),
           NEW q \in [1 .. Cardinality(S) -> S], AheadInOrder(q, key, S)
    PROVE  IsListOf(q, S)
<1>1. \A s \in S : Behind(ByKey(key, S), S, s) = Ahead(key, S, s) BY PlacesByKey
<1>2. InPlaces(q, ByKey(key, S), S) BY <1>1 DEF InPlaces, AheadInOrder
<1> QED BY <1>2, InOrder, KeysOrder

-----------------------------------------------------------------------------
(***************************************************************************)
(* Costs.                                                                  *)
(***************************************************************************)
\* A finite set of samples.
Batch(B) == B \in SUBSET Sample /\ IsFiniteSet(B)

PatchesOf == [s \in Sample |-> s.patches]
TokensOf  == [s \in Sample |-> s.tokens]

LEMMA SampleCosts ==
    ASSUME NEW s \in Sample
    PROVE  /\ s.id \in Nat /\ s.tokens \in Nat /\ s.patches \in Nat
           /\ PatchesOf[s] = s.patches /\ TokensOf[s] = s.tokens
BY DEF Sample, PatchesOf, TokensOf

LEMMA PartOfBatch ==
    ASSUME NEW B, Batch(B), NEW C \in SUBSET B
    PROVE  Batch(C)
BY FS_Subset DEF Batch

\* PatchSum and Useful add up over the subsets of the batch.
LEMMA PatchSumFold ==
    ASSUME NEW B, Batch(B)
    PROVE  \E h : SumOf(h, PatchesOf, B) /\ PatchSum(B) = h[B]
<1> DEFINE it == CHOOSE iter :
                     iter = [s \in SUBSET B |->
                                IF s = {} THEN 0
                                ELSE (CHOOSE x \in s : TRUE).patches + iter[s \ {CHOOSE x \in s : TRUE}]]
<1>1. PatchSum(B) = it[B] BY DEF PatchSum, MapThenSumSet, MapThenFoldSet, Patches
<1>2. PICK h \in [SUBSET B -> Nat] : SumOf(h, PatchesOf, B)
  <2>1. \A x \in B : PatchesOf[x] \in Nat BY SampleCosts DEF Batch
  <2> QED BY <2>1, SumExists DEF Batch
<1>3. \A s \in SUBSET B :
          s # {} => PatchesOf[CHOOSE x \in s : TRUE] = (CHOOSE x \in s : TRUE).patches
  <2> SUFFICES ASSUME NEW s \in SUBSET B, s # {}
               PROVE  PatchesOf[CHOOSE x \in s : TRUE] = (CHOOSE x \in s : TRUE).patches
    OBVIOUS
  <2>1. (CHOOSE x \in s : TRUE) \in Sample BY DEF Batch
  <2> QED BY <2>1, SampleCosts
<1>4. h = [s \in SUBSET B |->
              IF s = {} THEN 0
              ELSE (CHOOSE x \in s : TRUE).patches + h[s \ {CHOOSE x \in s : TRUE}]]
  BY <1>2, <1>3 DEF SumOf
<1>5. it = [s \in SUBSET B |->
               IF s = {} THEN 0
               ELSE (CHOOSE x \in s : TRUE).patches + it[s \ {CHOOSE x \in s : TRUE}]]
  BY <1>4
<1> HIDE DEF it
<1>6. SumOf(it, PatchesOf, B) BY <1>3, <1>5 DEF SumOf
<1> QED BY <1>1, <1>6

LEMMA UsefulFold ==
    ASSUME NEW B, Batch(B)
    PROVE  \E h : SumOf(h, TokensOf, B) /\ Useful(B) = h[B]
<1> DEFINE it == CHOOSE iter :
                     iter = [s \in SUBSET B |->
                                IF s = {} THEN 0
                                ELSE (CHOOSE x \in s : TRUE).tokens + iter[s \ {CHOOSE x \in s : TRUE}]]
<1>1. Useful(B) = it[B] BY DEF Useful, MapThenSumSet, MapThenFoldSet, Tokens
<1>2. PICK h \in [SUBSET B -> Nat] : SumOf(h, TokensOf, B)
  <2>1. \A x \in B : TokensOf[x] \in Nat BY SampleCosts DEF Batch
  <2> QED BY <2>1, SumExists DEF Batch
<1>3. \A s \in SUBSET B :
          s # {} => TokensOf[CHOOSE x \in s : TRUE] = (CHOOSE x \in s : TRUE).tokens
  <2> SUFFICES ASSUME NEW s \in SUBSET B, s # {}
               PROVE  TokensOf[CHOOSE x \in s : TRUE] = (CHOOSE x \in s : TRUE).tokens
    OBVIOUS
  <2>1. (CHOOSE x \in s : TRUE) \in Sample BY DEF Batch
  <2> QED BY <2>1, SampleCosts
<1>4. h = [s \in SUBSET B |->
              IF s = {} THEN 0
              ELSE (CHOOSE x \in s : TRUE).tokens + h[s \ {CHOOSE x \in s : TRUE}]]
  BY <1>2, <1>3 DEF SumOf
<1>5. it = [s \in SUBSET B |->
               IF s = {} THEN 0
               ELSE (CHOOSE x \in s : TRUE).tokens + it[s \ {CHOOSE x \in s : TRUE}]]
  BY <1>4
<1> HIDE DEF it
<1>6. SumOf(it, TokensOf, B) BY <1>3, <1>5 DEF SumOf
<1> QED BY <1>1, <1>6

LEMMA PatchesAddUp ==
    ASSUME NEW B, Batch(B)
    PROVE  /\ PatchSum(B) \in Nat /\ (B = {} => PatchSum(B) = 0)
           /\ \A x \in B : PatchSum(B) = x.patches + PatchSum(B \ {x})
<1>1. PICK h : SumOf(h, PatchesOf, B) /\ PatchSum(B) = h[B] BY PatchSumFold
<1>2. \A x \in B : PatchesOf[x] \in Nat BY SampleCosts DEF Batch
<1>3. AnyOrder(h, PatchesOf, B) BY <1>1, <1>2, SumOrder DEF Batch
<1>4. B \in SUBSET B OBVIOUS
<1>5. PatchSum(B) \in Nat BY <1>1, <1>3, <1>4 DEF AnyOrder
<1>6. B = {} => PatchSum(B) = 0 BY <1>1, <1>4 DEF SumOf
<1>7. ASSUME NEW x \in B PROVE PatchSum(B) = x.patches + PatchSum(B \ {x})
  <2>1. PICK g : SumOf(g, PatchesOf, B \ {x}) /\ PatchSum(B \ {x}) = g[B \ {x}]
    BY PatchSumFold, PartOfBatch
  <2>2. h[B] = PatchesOf[x] + g[B \ {x}] BY <1>1, <1>2, <2>1, SumStep DEF Batch
  <2> QED BY <1>1, <2>1, <2>2, SampleCosts DEF Batch
<1> QED BY <1>5, <1>6, <1>7

LEMMA TokensAddUp ==
    ASSUME NEW B, Batch(B)
    PROVE  /\ Useful(B) \in Nat /\ (B = {} => Useful(B) = 0)
           /\ \A x \in B : Useful(B) = x.tokens + Useful(B \ {x})
<1>1. PICK h : SumOf(h, TokensOf, B) /\ Useful(B) = h[B] BY UsefulFold
<1>2. \A x \in B : TokensOf[x] \in Nat BY SampleCosts DEF Batch
<1>3. AnyOrder(h, TokensOf, B) BY <1>1, <1>2, SumOrder DEF Batch
<1>4. B \in SUBSET B OBVIOUS
<1>5. Useful(B) \in Nat BY <1>1, <1>3, <1>4 DEF AnyOrder
<1>6. B = {} => Useful(B) = 0 BY <1>1, <1>4 DEF SumOf
<1>7. ASSUME NEW x \in B PROVE Useful(B) = x.tokens + Useful(B \ {x})
  <2>1. PICK g : SumOf(g, TokensOf, B \ {x}) /\ Useful(B \ {x}) = g[B \ {x}]
    BY UsefulFold, PartOfBatch
  <2>2. h[B] = TokensOf[x] + g[B \ {x}] BY <1>1, <1>2, <2>1, SumStep DEF Batch
  <2> QED BY <1>1, <2>1, <2>2, SampleCosts DEF Batch
<1> QED BY <1>5, <1>6, <1>7

\* A padded batch is as many times its longest sample as it has samples.
LEMMA PaddedBatch ==
    ASSUME NEW B, Batch(B)
    PROVE  /\ Padded(B) \in Nat /\ Cardinality(B) \in Nat
           /\ B # {} => \E s \in B : /\ Padded(B) = Cardinality(B) * s.tokens
                                     /\ \A t \in B : t.tokens <= s.tokens
<1>1. Cardinality(B) \in Nat BY FS_CardinalityType DEF Batch
<1>2. CASE B = {} BY <1>1, <1>2 DEF Padded
<1>3. CASE B # {}
  <2> DEFINE T == {s.tokens : s \in B}
  <2>1. T \in SUBSET Int /\ T # {} BY <1>3, SampleCosts DEF Batch
  <2>2. IsFiniteSet(T)
    <3>1. {TokensOf[s] : s \in B} = T BY SampleCosts DEF Batch
    <3> HIDE DEF T
    <3> QED BY <3>1, Image DEF Batch
  <2> HIDE DEF T
  <2>3. Max(T) \in T /\ \A i \in T : i <= Max(T) BY <2>1, <2>2, Largest
  <2>4. Padded(B) = Cardinality(B) * Max(T) BY <1>3 DEF Padded, T
  <2>5. PICK s \in B : Max(T) = s.tokens BY <2>3 DEF T
  <2>6. \A t \in B : t.tokens <= s.tokens BY <2>3, <2>5 DEF T
  <2>7. s.tokens \in Nat BY SampleCosts DEF Batch
  <2>8. Cardinality(B) * s.tokens \in Nat BY <1>1, <2>7
  <2> QED BY <1>1, <2>4, <2>5, <2>6, <2>8
<1> QED BY <1>2, <1>3

LEMMA OneSample ==
    ASSUME NEW s \in Sample
    PROVE  /\ Batch({s}) /\ Cardinality({s}) = 1
           /\ Padded({s}) = s.tokens /\ PatchSum({s}) = s.patches /\ Useful({s}) = s.tokens
<1>1. Batch({s}) /\ Cardinality({s}) = 1 BY FS_Singleton DEF Batch
<1>2. Batch({}) BY FS_EmptySet DEF Batch
<1>3. {s} \ {s} = {} /\ s \in {s} OBVIOUS
<1>4. PatchSum({s}) = s.patches + PatchSum({}) /\ PatchSum({}) = 0 BY <1>1, <1>2, <1>3, PatchesAddUp
<1>5. Useful({s}) = s.tokens + Useful({}) /\ Useful({}) = 0 BY <1>1, <1>2, <1>3, TokensAddUp
<1>6. Padded({s}) = 1 * s.tokens BY <1>1, PaddedBatch
<1> QED BY <1>1, <1>4, <1>5, <1>6, SampleCosts

LEMMA Joined ==
    ASSUME NEW B, Batch(B), NEW s \in Sample, s \notin B
    PROVE  /\ Batch(B \cup {s}) /\ Cardinality(B \cup {s}) = Cardinality(B) + 1
           /\ PatchSum(B \cup {s}) = PatchSum(B) + s.patches
           /\ Useful(B \cup {s}) = Useful(B) + s.tokens
<1>1. Batch(B \cup {s}) /\ Cardinality(B \cup {s}) = Cardinality(B) + 1
  BY FS_AddElement DEF Batch
<1>2. (B \cup {s}) \ {s} = B /\ s \in B \cup {s} OBVIOUS
<1>3. PatchSum(B \cup {s}) = s.patches + PatchSum(B) /\ PatchSum(B) \in Nat
  BY <1>1, <1>2, PatchesAddUp
<1>4. Useful(B \cup {s}) = s.tokens + Useful(B) /\ Useful(B) \in Nat
  BY <1>1, <1>2, TokensAddUp
<1> QED BY <1>1, <1>3, <1>4, SampleCosts

-----------------------------------------------------------------------------
(***************************************************************************)
(* Windows.                                                                *)
(***************************************************************************)
\* The window of a call that refuses none of its samples.
WindowOK(w) ==
    /\ w \in Seq(Sample) /\ Len(w) = BufferSize
    /\ \A m, n \in 1 .. BufferSize : m < n => w[m].id < w[n].id
    /\ \A n \in 1 .. BufferSize : ~Oversize(w[n])

LEMMA Sizes ==
    /\ World \in Nat \ {0} /\ Local \in Nat \ {0} /\ BufferSize \in Nat \ {0} /\ Global \in Nat \ {0}
    /\ MaxTokens \in Nat \ {0} /\ MaxPatches \in Nat \ {0} /\ MaxSequence \in Nat \ {0}
    /\ World <= Global /\ Local <= Global /\ World <= BufferSize
    /\ LocalMin \in Nat \ {0} /\ LocalMin <= Local /\ World * LocalMin <= Global
    /\ World <= World * LocalMin
<1>1. /\ World \in Nat \ {0} /\ Local \in Nat \ {0} /\ BufferSize \in Nat /\ BufferSize >= World
      /\ MaxTokens \in Nat \ {0} /\ MaxPatches \in Nat \ {0} /\ MaxSequence \in Nat \ {0}
  BY LengthAssumption, SpecAssumption DEF Global
<1>2. /\ World * Local \in Nat \ {0} /\ World <= World * Local /\ Local <= World * Local
      /\ World * 1 = World
  BY <1>1
<1>3. LocalMin = 1 \/ LocalMin = Local BY DEF LocalMin
<1> QED BY <1>1, <1>2, <1>3 DEF Global

\* The buffer holds the samples of a smallest call.
LEMMA Roomy ==
    ASSUME mode \in Modes
    PROVE  /\ World * LocalMin \in Nat /\ World * LocalMin <= BufferSize
           /\ mode # "token_budget" => Global <= BufferSize
<1>1. mode # "token_budget" => Global <= BufferSize BY Sizes, SpecAssumption
<1>2. CASE mode = "token_budget"
  <2>1. LocalMin = 1 /\ World * 1 = World BY <1>2, Sizes DEF LocalMin
  <2> QED BY <1>2, <2>1, Sizes
<1>3. CASE mode # "token_budget"
  <2>1. World * LocalMin \in Nat BY Sizes
  <2> QED BY <1>1, <1>3, <2>1, Sizes
<1> QED BY <1>1, <1>2, <1>3

LEMMA WindowSet ==
    ASSUME NEW w, WindowOK(w)
    PROVE  /\ Batch(ToSet(w)) /\ Cardinality(ToSet(w)) = BufferSize
           /\ ToSet(w) = {w[n] : n \in 1 .. BufferSize}
           /\ w[1] \in ToSet(w) /\ w[1] \in Sample
           /\ \A s, t \in ToSet(w) : s.id = t.id => s = t
           /\ \A s \in ToSet(w) : w[1].id <= s.id /\ ~Oversize(s)
<1>1. DOMAIN w = 1 .. BufferSize /\ \A n \in 1 .. BufferSize : w[n] \in Sample BY DEF WindowOK
<1>2. ToSet(w) = {w[n] : n \in 1 .. BufferSize} BY <1>1 DEF ToSet
<1>3. BufferSize \in Nat \ {0} BY Sizes
<1>4. \A m, n \in 1 .. BufferSize : w[m].id = w[n].id => m = n
  <2> SUFFICES ASSUME NEW m \in 1 .. BufferSize, NEW n \in 1 .. BufferSize, m # n PROVE w[m].id # w[n].id
    OBVIOUS
  <2>1. w[m].id \in Nat /\ w[n].id \in Nat BY <1>1, SampleCosts
  <2>2. m < n \/ n < m BY <1>3
  <2> QED BY <2>1, <2>2 DEF WindowOK
<1>5. IsFiniteSet(ToSet(w)) /\ Cardinality(ToSet(w)) = BufferSize
  <2>1. IsFiniteSet(1 .. BufferSize) /\ Cardinality(1 .. BufferSize) = BufferSize
    BY <1>3, FirstNumbers
  <2>2. \A m, n \in 1 .. BufferSize : w[m] = w[n] => m = n BY <1>4
  <2> DEFINE N == 1 .. BufferSize
  <2>3. IsFiniteSet(N) /\ \A m, n \in N : w[m] = w[n] => m = n BY <2>1, <2>2
  <2> HIDE DEF N
  <2>4. IsFiniteSet({w[n] : n \in N}) /\ Cardinality({w[n] : n \in N}) = Cardinality(N)
    BY <2>3, Image
  <2> QED BY <1>2, <2>1, <2>4 DEF N
<1>6. Batch(ToSet(w)) BY <1>1, <1>2, <1>5 DEF Batch
<1>7. 1 \in 1 .. BufferSize BY <1>3
<1>8. \A s, t \in ToSet(w) : s.id = t.id => s = t BY <1>2, <1>4
<1>9. \A n \in 1 .. BufferSize : w[1].id <= w[n].id
  <2> SUFFICES ASSUME NEW n \in 1 .. BufferSize PROVE w[1].id <= w[n].id OBVIOUS
  <2>1. w[1].id \in Nat /\ w[n].id \in Nat BY <1>1, <1>7, SampleCosts
  <2>2. n = 1 \/ 1 < n OBVIOUS
  <2> QED BY <1>7, <2>1, <2>2 DEF WindowOK
<1>10. \A s \in ToSet(w) : w[1].id <= s.id /\ ~Oversize(s) BY <1>2, <1>9 DEF WindowOK
<1> QED BY <1>1, <1>2, <1>5, <1>6, <1>7, <1>8, <1>10

LEMMA TailSet ==
    ASSUME NEW w, WindowOK(w)
    PROVE  /\ ToSet(Tail(w)) = ToSet(w) \ {w[1]}
           /\ Batch(ToSet(Tail(w))) /\ Cardinality(ToSet(Tail(w))) = BufferSize - 1
<1>1. w \in Seq(Sample) /\ Len(w) = BufferSize /\ BufferSize \in Nat \ {0} BY Sizes DEF WindowOK
<1>2. /\ Tail(w) \in Seq(Sample) /\ Len(Tail(w)) = BufferSize - 1
      /\ \A n \in 1 .. BufferSize - 1 : Tail(w)[n] = w[n + 1]
  BY <1>1
<1>3. ToSet(Tail(w)) = {w[n + 1] : n \in 1 .. BufferSize - 1}
  <2>1. DOMAIN Tail(w) = 1 .. BufferSize - 1 BY <1>1, <1>2
  <2> QED BY <1>2, <2>1 DEF ToSet
<1>4. \A n \in 2 .. BufferSize : w[n] # w[1]
  <2> SUFFICES ASSUME NEW n \in 2 .. BufferSize PROVE w[1].id < w[n].id
    <3>1. \A n \in 2 .. BufferSize : w[n].id \in Nat BY <1>1, SampleCosts
    <3> QED BY <3>1
  <2>1. 1 \in 1 .. BufferSize /\ n \in 1 .. BufferSize /\ 1 < n BY <1>1
  <2> QED BY <2>1 DEF WindowOK
<1>5. ToSet(Tail(w)) = ToSet(w) \ {w[1]}
  <2>1. \A n \in 1 .. BufferSize - 1 : n + 1 \in 2 .. BufferSize /\ n + 1 \in 1 .. BufferSize BY <1>1
  <2>2. \A n \in 1 .. BufferSize : n = 1 \/ (n - 1 \in 1 .. BufferSize - 1 /\ (n - 1) + 1 = n) BY <1>1
  <2>3. ToSet(w) = {w[n] : n \in 1 .. BufferSize} BY WindowSet
  <2>4. ASSUME NEW s \in ToSet(Tail(w)) PROVE s \in ToSet(w) \ {w[1]}
    BY <1>3, <1>4, <2>1, <2>3
  <2>5. ASSUME NEW s \in ToSet(w) \ {w[1]} PROVE s \in ToSet(Tail(w))
    <3>1. PICK n \in 1 .. BufferSize : s = w[n] BY <2>3
    <3>2. n - 1 \in 1 .. BufferSize - 1 /\ (n - 1) + 1 = n BY <2>2, <3>1
    <3> QED BY <1>3, <3>1, <3>2
  <2> QED BY <2>4, <2>5
<1>6. Batch(ToSet(Tail(w))) BY <1>5, WindowSet, PartOfBatch
<1>7. Cardinality(ToSet(w) \ {w[1]}) = BufferSize - 1 BY WindowSet, FS_RemoveElement DEF Batch
<1> QED BY <1>5, <1>6, <1>7

-----------------------------------------------------------------------------
(***************************************************************************)
(* The fast path.                                                          *)
(***************************************************************************)
LEMMA Pair ==
    ASSUME NEW i \in Int, NEW j \in Int
    PROVE  Tuple(<<i, j>>, 2) /\ <<i, j>>[1] = i /\ <<i, j>>[2] = j
BY DEF Tuple

LEMMA Four ==
    ASSUME NEW i \in Int, NEW j \in Int, NEW k \in Int, NEW l \in Int
    PROVE  Tuple(<<i, j, k, l>>, 4) /\ <<i, j, k, l>>[4] = l
BY DEF Tuple

\* The anchors are different samples of the window, the oldest first.
LEMMA AnchorsDiffer ==
    ASSUME NEW w, WindowOK(w)
    PROVE  /\ \A r \in DataRanks : Anchors(w)[r] \in ToSet(w)
           /\ \A r, o \in DataRanks : r # o => Anchors(w)[r] # Anchors(w)[o]
           /\ Anchors(w)[1] = w[1]
<1> DEFINE S == ToSet(Tail(w))
           N == Cardinality(S)
           key == [s \in S |-> <<Distance(w[1], s), s.id>>]
           q == [n \in 1 .. N |-> CHOOSE s \in S : Cardinality({t \in S :
                     Before(<<Distance(w[1], t), t.id>>, <<Distance(w[1], s), s.id>>)}) = n - 1]
<1>1. /\ Batch(S) /\ N = BufferSize - 1 /\ S = ToSet(w) \ {w[1]} BY TailSet
<1>2. /\ w[1] \in ToSet(w) /\ w[1] \in Sample /\ \A s \in S : s \in Sample
      /\ \A s, t \in S : s.id = t.id => s = t
  BY <1>1, WindowSet DEF Batch
<1>3. World - 1 \in 0 .. N /\ World \in Nat \ {0} BY <1>1, Sizes
<1>4. Anchors(w) = <<w[1]>> \o SubSeq(q, 1, World - 1) BY DEF Anchors, Sorted
<1>5. \A s \in S : Distance(w[1], s) \in Int
  <2> SUFFICES ASSUME NEW s \in S PROVE Distance(w[1], s) \in Int OBVIOUS
  <2>1. \A i, j \in Nat : Gap(i, j) \in Nat BY DEF Gap
  <2>2. s.tokens \in Nat /\ s.patches \in Nat /\ w[1].tokens \in Nat /\ w[1].patches \in Nat
    BY <1>2, SampleCosts
  <2>3. Gap(w[1].tokens, s.tokens) \in Nat /\ Gap(w[1].patches, s.patches) \in Nat BY <2>1, <2>2
  <2> QED BY <2>3, Sizes DEF Distance
<1>6. \A s \in S : key[s] = <<Distance(w[1], s), s.id>> /\ s.id \in Nat BY <1>2, SampleCosts
<1>7. Keyed(key, S, 2)
  <2> HIDE DEF key, S
  <2>1. \A s \in S : Tuple(key[s], 2) /\ key[s][2] = s.id BY <1>5, <1>6, Pair
  <2> QED BY <1>2, <2>1 DEF Keyed
<1>8. \A s \in S : Ahead(key, S, s) = Cardinality({t \in S :
          Before(<<Distance(w[1], t), t.id>>, <<Distance(w[1], s), s.id>>)})
  <2> SUFFICES ASSUME NEW s \in S
               PROVE  Ahead(key, S, s) = Cardinality({t \in S :
                          Before(<<Distance(w[1], t), t.id>>, <<Distance(w[1], s), s.id>>)})
    OBVIOUS
  <2> HIDE DEF key, S
  <2> QED BY <1>6 DEF Ahead
<1>9. \A n \in 1 .. N : q[n] \in S /\ Ahead(key, S, q[n]) = n - 1
  <2> SUFFICES ASSUME NEW n \in 1 .. N PROVE q[n] \in S /\ Ahead(key, S, q[n]) = n - 1 OBVIOUS
  <2> HIDE DEF key, S
  <2>1. \E s \in S : Ahead(key, S, s) = n - 1 BY <1>1, <1>7, PlacesByKey DEF Batch, N
  <2>2. \E s \in S : Cardinality({t \in S :
            Before(<<Distance(w[1], t), t.id>>, <<Distance(w[1], s), s.id>>)}) = n - 1
    BY <1>8, <2>1
  <2>3. q[n] = CHOOSE s \in S : Cardinality({t \in S :
            Before(<<Distance(w[1], t), t.id>>, <<Distance(w[1], s), s.id>>)}) = n - 1
    OBVIOUS
  <2> HIDE DEF q
  <2>4. q[n] \in S /\ Cardinality({t \in S :
            Before(<<Distance(w[1], t), t.id>>, <<Distance(w[1], q[n]), q[n].id>>)}) = n - 1
    BY <2>2, <2>3
  <2> QED BY <1>8, <2>4
<1>10. IsListOf(q, S)
  <2> HIDE DEF key, S
  <2>1. q \in [1 .. N -> S] BY <1>9
  <2> HIDE DEF q
  <2>2. AheadInOrder(q, key, S) BY <1>9 DEF AheadInOrder
  <2>3. IsFiniteSet(S) BY <1>1 DEF Batch
  <2> QED BY <1>7, <2>1, <2>2, <2>3, SortedByKey DEF N
<1> HIDE DEF q, key, S
<1>17. N \in Nat BY <1>1, Sizes
<1>11. q \in Seq(S) /\ Len(q) = N /\ \A i, j \in 1 .. N : i # j => q[i] # q[j]
  <2>1. q \in [1 .. N -> S] BY <1>10 DEF IsListOf
  <2>2. \A i, j \in 1 .. N : i # j => q[i] # q[j] BY <1>10 DEF IsListOf
  <2> HIDE DEF N
  <2> QED BY <1>17, <2>1, <2>2
<1> HIDE DEF N
<1> DEFINE p == SubSeq(q, 1, World - 1)
<1>12. p \in Seq(S) /\ Len(p) = World - 1 /\ \A i \in 1 .. World - 1 : p[i] = q[i]
  BY <1>3, <1>11
<1> HIDE DEF p
<1>13. Anchors(w)[1] = w[1] /\ \A i \in 2 .. World : Anchors(w)[i] = p[i - 1]
  <2>1. Anchors(w) = <<w[1]>> \o p BY <1>4 DEF p
  <2> QED BY <1>3, <1>12, <2>1
<1>14. \A i \in 2 .. World : Anchors(w)[i] \in S BY <1>3, <1>12, <1>13
<1>15. ASSUME NEW i \in 2 .. World, NEW j \in 2 .. World, i # j PROVE Anchors(w)[i] # Anchors(w)[j]
  <2>1. i - 1 \in 1 .. World - 1 /\ j - 1 \in 1 .. World - 1 /\ i - 1 # j - 1
        /\ i - 1 \in 1 .. N /\ j - 1 \in 1 .. N
    BY <1>3, <1>15, <1>17
  <2> QED BY <1>11, <1>12, <1>13, <2>1
<1>16. \A r \in DataRanks : r = 1 \/ r \in 2 .. World BY <1>3 DEF DataRanks
<1> QED BY <1>1, <1>2, <1>13, <1>14, <1>15, <1>16

\* Batches that keep the budgets, one of them with the oldest sample.
Binned(bins, w) ==
    /\ bins \in [DataRanks -> SUBSET ToSet(w)]
    /\ \A r \in DataRanks : bins[r] # {} /\ Fits(bins[r])
    /\ \A r, o \in DataRanks : r # o => bins[r] \cap bins[o] = {}
    /\ \E r \in DataRanks : w[1] \in bins[r]

LEMMA OneFits ==
    ASSUME NEW w, WindowOK(w), Bounded, NEW s \in ToSet(w)
    PROVE  Fits({s})
<1>1. s \in Sample /\ ~Oversize(s) BY WindowSet DEF Batch
<1>2. s.tokens * LocalMin <= MaxTokens /\ s.patches <= MaxPatches
  <2>1. s.tokens * LocalMin \in Nat BY <1>1, SampleCosts, Sizes
  <2> QED BY <1>1, <2>1, SampleCosts, Sizes DEF Oversize
<1>3. s.tokens <= s.tokens * LocalMin
  <2>1. s.tokens \in Nat /\ LocalMin \in Nat \ {0} BY <1>1, SampleCosts, Sizes
  <2> QED BY <2>1
<1>4. s.tokens <= MaxTokens
  <2>1. s.tokens * LocalMin \in Nat BY <1>1, SampleCosts, Sizes
  <2> QED BY <1>1, <1>2, <1>3, <2>1, SampleCosts, Sizes
<1>5. Cardinality({s}) = 1 /\ Padded({s}) = s.tokens /\ PatchSum({s}) = s.patches BY <1>1, OneSample
<1>6. 1 <= Local BY Sizes
<1> QED BY <1>2, <1>4, <1>5, <1>6 DEF Fits

LEMMA SeedsBinned ==
    ASSUME NEW w, WindowOK(w), Bounded
    PROVE  Binned([r \in DataRanks |-> {Anchors(w)[r]}], w)
<1>1. \A r \in DataRanks : Anchors(w)[r] \in ToSet(w) /\ Fits({Anchors(w)[r]}) BY AnchorsDiffer, OneFits
<1>2. 1 \in DataRanks BY Sizes DEF DataRanks
<1> DEFINE seeds == [r \in DataRanks |-> {Anchors(w)[r]}]
<1>3. \A r \in DataRanks : seeds[r] = {Anchors(w)[r]} OBVIOUS
<1>4. seeds \in [DataRanks -> SUBSET ToSet(w)] BY <1>1
<1> HIDE DEF seeds
<1>5. \A r \in DataRanks : seeds[r] # {} /\ Fits(seeds[r]) BY <1>1, <1>3
<1>6. \A r, o \in DataRanks : r # o => seeds[r] \cap seeds[o] = {} BY <1>3, AnchorsDiffer
<1>7. w[1] \in seeds[1] BY <1>2, <1>3, AnchorsDiffer
<1>8. Binned(seeds, w) BY <1>2, <1>4, <1>5, <1>6, <1>7 DEF Binned
<1> QED BY <1>8 DEF seeds

\* Ranks are a finite set, and scores a key for them.
LEMMA RanksFinite == IsFiniteSet(DataRanks) /\ Cardinality(DataRanks) = World /\ DataRanks \subseteq Nat \ {0}
<1>1. World \in Nat \ {0} BY Sizes
<1>2. IsFiniteSet(1 .. World) /\ Cardinality(1 .. World) = World BY <1>1, FirstNumbers
<1> QED BY <1>1, <1>2 DEF DataRanks

LEMMA ScoreTyped ==
    ASSUME NEW B, Batch(B), NEW r \in DataRanks
    PROVE  Tuple(Score(B, r), 4) /\ Score(B, r)[4] = r
<1>1. Padded(B) \in Nat /\ PatchSum(B) \in Nat /\ Useful(B) \in Nat /\ Cardinality(B) \in Nat /\ r \in Int
  BY PaddedBatch, PatchesAddUp, TokensAddUp, RanksFinite
<1> DEFINE i == Padded(B) * MaxPatches + PatchSum(B) * MaxTokens
           j == Padded(B) - Useful(B)
<1>2. i \in Int /\ j \in Int
  <2>1. MaxPatches \in Nat /\ MaxTokens \in Nat BY Sizes
  <2> QED BY <1>1, <2>1
<1>3. Score(B, r) = <<i, j, Cardinality(B), r>> BY DEF Score
<1> HIDE DEF i, j
<1> QED BY <1>1, <1>2, <1>3, Four

LEMMA PlaceKeeps ==
    ASSUME NEW w, WindowOK(w), NEW bins, Binned(bins, w), NEW s \in ToSet(w), s \notin Selected(bins)
    PROVE  /\ Binned(Place(bins, s), w)
           /\ Selected(Place(bins, s)) \subseteq Selected(bins) \cup {s}
<1> DEFINE open == {r \in DataRanks : Fits(bins[r] \cup {s})}
           best == CHOOSE r \in open : \A o \in open \ {r} :
                       Before(Score(bins[r] \cup {s}, r), Score(bins[o] \cup {s}, o))
           key == [r \in open |-> Score(bins[r] \cup {s}, r)]
<1>1. CASE open = {} \/ Cardinality(Selected(bins)) = Global
  <2>1. Place(bins, s) = bins BY <1>1 DEF Place
  <2> QED BY <2>1
<1>2. CASE open # {} /\ ~ Cardinality(Selected(bins)) = Global
  <2>1. Place(bins, s) = [bins EXCEPT ![best] = bins[best] \cup {s}] BY <1>2 DEF Place
  <2>2. \A r \in DataRanks : Batch(bins[r] \cup {s})
    <3>1. \A r \in DataRanks : bins[r] \cup {s} \in SUBSET ToSet(w) BY DEF Binned
    <3> QED BY <3>1, WindowSet, PartOfBatch
  <2>3. \A r \in open : Tuple(key[r], 4) /\ key[r][4] = r BY <2>2, ScoreTyped
  <2>4. open \subseteq DataRanks /\ IsFiniteSet(open) BY RanksFinite, FS_Subset
  <2>5. \E r \in open : \A o \in open \ {r} : Before(key[r], key[o])
    <3> HIDE DEF key, open
    <3>1. Keyed(key, open, 4) BY <2>3 DEF Keyed
    <3> QED BY <1>2, <2>4, <3>1, FirstByKey
  <2>6. \E r \in open : \A o \in open \ {r} :
            Before(Score(bins[r] \cup {s}, r), Score(bins[o] \cup {s}, o))
    <3>1. \A r \in open : key[r] = Score(bins[r] \cup {s}, r) OBVIOUS
    <3> HIDE DEF key, open
    <3> QED BY <2>5, <3>1
  <2>7. best \in open
    <3> HIDE DEF open
    <3> QED BY <2>6
  <2>8. best \in DataRanks /\ Fits(bins[best] \cup {s}) BY <2>7
  <2> HIDE DEF best, key, open
  <2> DEFINE new == [bins EXCEPT ![best] = bins[best] \cup {s}]
  <2>9. new \in [DataRanks -> SUBSET ToSet(w)]
        /\ \A r \in DataRanks : new[r] = IF r = best THEN bins[r] \cup {s} ELSE bins[r]
    BY <2>8 DEF Binned
  <2> HIDE DEF new
  <2>10. \A r \in DataRanks : new[r] # {} /\ Fits(new[r]) BY <2>8, <2>9 DEF Binned
  <2>11. \A r \in DataRanks : s \notin bins[r] BY DEF Selected
  <2>12. \A r, o \in DataRanks : r # o => new[r] \cap new[o] = {} BY <2>9, <2>11 DEF Binned
  <2>13. \E r \in DataRanks : w[1] \in new[r] BY <2>9 DEF Binned
  <2>14. Binned(new, w) BY <2>9, <2>10, <2>12, <2>13 DEF Binned
  <2>15. Selected(new) \subseteq Selected(bins) \cup {s} BY <2>9 DEF Selected
  <2> QED BY <2>1, <2>14, <2>15 DEF new
<1> QED BY <1>1, <1>2

LEMMA PlaceTyped ==
    ASSUME NEW A, NEW bins \in [DataRanks -> SUBSET A], NEW s \in A
    PROVE  Place(bins, s) \in [DataRanks -> SUBSET A]
<1> DEFINE best == CHOOSE r \in {r \in DataRanks : Fits(bins[r] \cup {s})} :
                       \A o \in {r_1 \in DataRanks : Fits(bins[r_1] \cup {s})} \ {r} :
                           Before(Score(bins[r] \cup {s}, r), Score(bins[o] \cup {s}, o))
<1>1. Place(bins, s) = bins \/ Place(bins, s) = [bins EXCEPT ![best] = bins[best] \cup {s}]
  BY DEF Place
<1> HIDE DEF best
<1>2. [bins EXCEPT ![best] = bins[best] \cup {s}] \in [DataRanks -> SUBSET A] OBVIOUS
<1> QED BY <1>1, <1>2

\* Every plan of the fast path is what the code's loop leaves after its last sample.
LEMMA GreedyBinned ==
    ASSUME NEW w, WindowOK(w), Bounded, NEW bins \in Greedy(w)
    PROVE  Binned(bins, w)
<1> DEFINE seeds == [r \in DataRanks |-> {Anchors(w)[r]}]
           rest == ToSet(w) \ Selected(seeds)
           N == Cardinality(rest)
           Bins == [DataRanks -> SUBSET ToSet(w)]
<1>1. Binned(seeds, w) /\ seeds \in Bins BY SeedsBinned DEF Binned
<1>2. PICK order \in FallingLoad(rest) : bins = FoldLeft(Place, seeds, order) BY DEF Greedy
<1>3. rest \in SUBSET ToSet(w) /\ rest \cap Selected(seeds) = {} OBVIOUS
<1> HIDE DEF seeds, rest
<1>4. N \in Nat
  <2>1. IsFiniteSet(ToSet(w)) BY WindowSet DEF Batch
  <2> QED BY <1>3, <2>1, FS_Subset, FS_CardinalityType
<1>5. order \in [1 .. N -> rest] /\ \A m, n \in 1 .. N : m # n => order[m] # order[n]
  BY <1>2 DEF FallingLoad, SetToSeqs
<1> HIDE DEF N
<1>6. DOMAIN order = 1 .. N /\ \A i \in 1 .. N : order[i] \in rest /\ order[i] \in ToSet(w)
  BY <1>3, <1>5
<1> DEFINE it == CHOOSE iter :
                     iter = [s \in SUBSET (1 .. N) |->
                                IF s = {} THEN seeds
                                ELSE Place(iter[s \ {Max(s)}], order[Max(s)])]
           G == [p \in (1 .. N) \X Bins |-> Place(p[2], order[p[1]])]
<1>7. bins = it[1 .. N] BY <1>2, <1>6 DEF FoldLeft, MapThenFoldSet
<1>8. it = [s \in SUBSET (1 .. N) |-> IF s = {} THEN seeds
                                      ELSE Place(it[s \ {Max(s)}], order[Max(s)])]
  <2>1. \A i \in 1 .. N, x \in Bins : G[<<i, x>>] = Place(x, order[i]) /\ G[<<i, x>>] \in Bins
    <3> SUFFICES ASSUME NEW i \in 1 .. N, NEW x \in Bins
                 PROVE  G[<<i, x>>] = Place(x, order[i]) /\ G[<<i, x>>] \in Bins
      OBVIOUS
    <3>1. G[<<i, x>>] = Place(x, order[i]) OBVIOUS
    <3> HIDE DEF G
    <3> QED BY <1>6, <3>1, PlaceTyped
  <2> HIDE DEF G, Bins
  <2>2. PICK h \in [SUBSET (1 .. N) -> Bins] : LeftFoldOf(h, N, seeds, G)
    BY <1>1, <1>4, <2>1, LeftFoldExists
  <2>3. \A s \in SUBSET (1 .. N) : s # {} => h[s] = Place(h[s \ {Max(s)}], order[Max(s)])
    <3> SUFFICES ASSUME NEW s \in SUBSET (1 .. N), s # {}
                 PROVE  h[s] = Place(h[s \ {Max(s)}], order[Max(s)])
      OBVIOUS
    <3>1. Max(s) \in 1 .. N BY LargestOf, <1>4
    <3>2. h[s \ {Max(s)}] \in Bins OBVIOUS
    <3>3. h[s] = G[<<Max(s), h[s \ {Max(s)}]>>] BY <2>2 DEF LeftFoldOf
    <3> QED BY <2>1, <3>1, <3>2, <3>3
  <2>4. h[{}] = seeds
    <3>1. {} \in SUBSET (1 .. N) OBVIOUS
    <3> QED BY <2>2, <3>1 DEF LeftFoldOf
  <2>5. h = [s \in SUBSET (1 .. N) |-> IF s = {} THEN seeds
                                       ELSE Place(h[s \ {Max(s)}], order[Max(s)])]
    BY <2>3, <2>4
  <2> QED BY <2>5
<1> HIDE DEF it
<1> DEFINE Good(n) == /\ Binned(it[1 .. n], w)
                      /\ Selected(it[1 .. n]) \subseteq Selected(seeds) \cup {order[m] : m \in 1 .. n}
           T == {n \in 0 .. N : Good(n)}
<1>9. 0 \in T
  <2>1. 1 .. 0 = {} /\ {} \in SUBSET (1 .. N) /\ 0 \in 0 .. N BY <1>4
  <2>2. it[1 .. 0] = seeds BY <1>8, <2>1
  <2> QED BY <1>1, <2>1, <2>2
<1>10. ASSUME NEW n \in 0 .. N - 1, n \in T PROVE n + 1 \in T
  <2>1. /\ n + 1 \in 1 .. N /\ n + 1 \in 0 .. N /\ n + 1 \in Nat \ {0} /\ n \in Nat /\ (n + 1) - 1 = n
        /\ 1 .. n + 1 \in SUBSET (1 .. N) /\ 1 .. n + 1 # {} /\ n + 1 \in 1 .. n + 1
        /\ \A m \in 1 .. n : m \in 1 .. N /\ m \in 1 .. n + 1 /\ m # n + 1 /\ m < n + 1
        /\ \A m \in 1 .. n + 1 : m \in 1 .. n \/ m = n + 1
    BY <1>4, NextNumber
  <2>2. Max(1 .. n + 1) = n + 1 /\ (1 .. n + 1) \ {n + 1} = 1 .. n BY <2>1, LastOfPrefix
  <2>3. it[1 .. n + 1] = Place(it[1 .. n], order[n + 1]) BY <1>8, <2>1, <2>2
  <2>4. Good(n) BY <1>10
  <2>5. order[n + 1] \notin Selected(it[1 .. n])
    <3>1. order[n + 1] \notin Selected(seeds) BY <1>3, <1>6, <2>1
    <3>2. \A m \in 1 .. n : order[m] # order[n + 1] BY <1>5, <2>1
    <3> QED BY <2>4, <3>1, <3>2
  <2>6. order[n + 1] \in ToSet(w) BY <1>6, <2>1
  <2>7. /\ Binned(it[1 .. n + 1], w)
        /\ Selected(it[1 .. n + 1]) \subseteq Selected(it[1 .. n]) \cup {order[n + 1]}
    BY <2>3, <2>4, <2>5, <2>6, PlaceKeeps
  <2>8. Selected(it[1 .. n + 1]) \subseteq Selected(seeds) \cup {order[m] : m \in 1 .. n + 1}
    BY <2>1, <2>4, <2>7
  <2> QED BY <2>1, <2>7, <2>8
<1>11. N \in T
  <2> HIDE DEF T
  <2>1. 0 .. N \subseteq T BY <1>4, <1>9, <1>10, UpTo
  <2> QED BY <1>4, <2>1
<1> QED BY <1>7, <1>11

\* The batches of a full partition keep the budgets, and the first one has the oldest sample.
LEMMA PartitionBinned ==
    ASSUME NEW w, WindowOK(w), NEW bins \in Partitions(w)
    PROVE  Binned(bins, w) /\ Complete(bins)
<1>1. /\ bins \in [DataRanks -> SUBSET ToSet(w)]
      /\ \A r \in DataRanks : Cardinality(bins[r]) = Local /\ Fits(bins[r])
      /\ w[1] \in bins[1]
      /\ \A r, o \in DataRanks : r < o => bins[r] \cap bins[o] = {}
  BY DEF Partitions, kSubset
<1>2. 1 \in DataRanks /\ Local # 0 BY Sizes DEF DataRanks
<1>3. \A r \in DataRanks : bins[r] # {} BY <1>1, <1>2, FS_EmptySet
<1>4. ASSUME NEW r \in DataRanks, NEW o \in DataRanks, r # o PROVE bins[r] \cap bins[o] = {}
  <2>1. r \in Nat /\ o \in Nat BY RanksFinite
  <2>2. r < o \/ o < r BY <1>4, <2>1
  <2>3. bins[r] \cap bins[o] = {} \/ bins[o] \cap bins[r] = {} BY <1>1, <2>2
  <2> QED BY <2>3
<1> QED BY <1>1, <1>2, <1>3, <1>4 DEF Binned, Complete

-----------------------------------------------------------------------------
(***************************************************************************)
(* Grouping length.                                                        *)
(***************************************************************************)
\* Packs that keep the length of a sequence, as many as a call deals, one of them with the
\* oldest sample.
PacksOf(packs, w) ==
    /\ packs \in SUBSET SUBSET ToSet(w) /\ {} \notin packs
    /\ IsFiniteSet(packs) /\ Cardinality(packs) = Global
    /\ \A p, q \in packs : p # q => p \cap q = {}
    /\ \A p \in packs : Useful(p) <= MaxSequence
    /\ \E p \in packs : w[1] \in p

\* The samples sorted by length are all of them, each one once.
LEMMA ByLengthList ==
    ASSUME NEW w, WindowOK(w), NEW S \in SUBSET ToSet(w)
    PROVE  IsListOf(ByLength(S), S) /\ IsFiniteSet(S) /\ Cardinality(S) \in Nat
<1> DEFINE N == Cardinality(S)
           key == [s \in S |-> <<- s.tokens, s.id>>]
           q == [n \in 1 .. N |-> CHOOSE s \in S : Cardinality({t \in S :
                     Before(<<- t.tokens, t.id>>, <<- s.tokens, s.id>>)}) = n - 1]
<1>1. Batch(S) /\ N \in Nat BY WindowSet, PartOfBatch, FS_CardinalityType DEF Batch
<1>2. /\ \A s \in S : s \in Sample
      /\ \A s, t \in S : s.id = t.id => s = t
  BY <1>1, WindowSet DEF Batch
<1>3. ByLength(S) = q BY DEF ByLength, Sorted
<1>4. \A s \in S : - s.tokens \in Int /\ s.id \in Int
  <2> SUFFICES ASSUME NEW s \in S PROVE - s.tokens \in Int /\ s.id \in Int OBVIOUS
  <2>1. s.tokens \in Nat /\ s.id \in Nat BY <1>2, SampleCosts
  <2> QED BY <2>1
<1>5. \A s \in S : key[s] = <<- s.tokens, s.id>> OBVIOUS
<1>6. Keyed(key, S, 2)
  <2> HIDE DEF key
  <2>1. \A s \in S : Tuple(key[s], 2) /\ key[s][2] = s.id BY <1>4, <1>5, Pair
  <2> QED BY <1>2, <2>1 DEF Keyed
<1>7. \A s \in S : Ahead(key, S, s) = Cardinality({t \in S :
          Before(<<- t.tokens, t.id>>, <<- s.tokens, s.id>>)})
  <2> SUFFICES ASSUME NEW s \in S
               PROVE  Ahead(key, S, s) = Cardinality({t \in S :
                          Before(<<- t.tokens, t.id>>, <<- s.tokens, s.id>>)})
    OBVIOUS
  <2> HIDE DEF key
  <2> QED BY <1>5 DEF Ahead
<1>8. \A n \in 1 .. N : q[n] \in S /\ Ahead(key, S, q[n]) = n - 1
  <2> SUFFICES ASSUME NEW n \in 1 .. N PROVE q[n] \in S /\ Ahead(key, S, q[n]) = n - 1 OBVIOUS
  <2> HIDE DEF key
  <2>1. \E s \in S : Ahead(key, S, s) = n - 1 BY <1>1, <1>6, PlacesByKey DEF Batch, N
  <2>2. \E s \in S : Cardinality({t \in S :
            Before(<<- t.tokens, t.id>>, <<- s.tokens, s.id>>)}) = n - 1
    BY <1>7, <2>1
  <2>3. q[n] = CHOOSE s \in S : Cardinality({t \in S :
            Before(<<- t.tokens, t.id>>, <<- s.tokens, s.id>>)}) = n - 1
    OBVIOUS
  <2> HIDE DEF q
  <2>4. q[n] \in S /\ Cardinality({t \in S :
            Before(<<- t.tokens, t.id>>, <<- q[n].tokens, q[n].id>>)}) = n - 1
    BY <2>2, <2>3
  <2> QED BY <1>7, <2>4
<1>9. IsListOf(q, S)
  <2> HIDE DEF key
  <2>1. q \in [1 .. N -> S] BY <1>8
  <2> HIDE DEF q
  <2>2. AheadInOrder(q, key, S) BY <1>8 DEF AheadInOrder
  <2>3. IsFiniteSet(S) BY <1>1 DEF Batch
  <2> QED BY <1>6, <2>1, <2>2, <2>3, SortedByKey DEF N
<1> QED BY <1>1, <1>3, <1>9 DEF Batch

\* The chunk has as many packs of one sample as a call deals, and the oldest sample.
LEMMA ChunkPacks ==
    ASSUME NEW w, WindowOK(w), ~Bounded, mode \in Modes
    PROVE  PacksOf(Chunk(w), w)
<1> DEFINE S == ToSet(w)
           q == ByLength(S)
           oldest == CHOOSE n \in 1 .. Len(q) : q[n] = w[1]
           floor == ((oldest - 1) \div Global) * Global
           start == Min({floor, Len(w) - Global})
<1>1. /\ Cardinality(S) = BufferSize /\ w[1] \in S /\ Len(w) = BufferSize
      /\ BufferSize \in Nat \ {0} /\ Global \in Nat \ {0} /\ Global <= BufferSize
  BY WindowSet, Sizes, Roomy DEF WindowOK, Bounded
<1>2. /\ q \in [1 .. BufferSize -> S] /\ Len(q) = BufferSize /\ q \in Seq(S)
      /\ \A i, j \in 1 .. BufferSize : i # j => q[i] # q[j]
      /\ \A s \in S : \E i \in 1 .. BufferSize : q[i] = s
  <2>1. IsListOf(q, S) BY ByLengthList
  <2> HIDE DEF q, S
  <2>2. q \in [1 .. BufferSize -> S] BY <1>1, <2>1 DEF IsListOf
  <2> QED BY <1>1, <2>1, <2>2 DEF IsListOf
<1>3. oldest \in 1 .. BufferSize /\ q[oldest] = w[1]
  <2> HIDE DEF q, S
  <2> QED BY <1>1, <1>2
<1>4. Chunk(w) = {{s} : s \in ToSet(SubSeq(q, start + 1, start + Global))} BY DEF Chunk
<1> HIDE DEF q, S, oldest
<1>5. floor \in Nat /\ floor <= oldest - 1 /\ oldest - 1 < floor + Global
  <2>1. oldest - 1 \in Nat BY <1>1, <1>3
  <2> DEFINE x == oldest - 1
  <2> HIDE DEF x
  <2>2. /\ (x \div Global) * Global \in Nat /\ (x \div Global) * Global <= x
        /\ x < (x \div Global) * Global + Global
    BY <1>1, <2>1 DEF x
  <2> QED BY <2>2 DEF x
<1> HIDE DEF floor
<1>6. start \in {floor, BufferSize - Global} /\ start <= floor /\ start <= BufferSize - Global
  <2> DEFINE T == {floor, BufferSize - Global}
  <2>1. T \in SUBSET Int /\ T # {} BY <1>1, <1>5
  <2>2. IsFiniteSet(T)
    <3>1. T = {floor} \cup {BufferSize - Global} OBVIOUS
    <3>2. IsFiniteSet({floor}) BY FS_Singleton
    <3> HIDE DEF T
    <3>3. IsFiniteSet({floor} \cup {BufferSize - Global}) BY <3>2, FS_AddElement
    <3> QED BY <3>1, <3>3
  <2>3. floor \in T /\ BufferSize - Global \in T OBVIOUS
  <2> HIDE DEF T
  <2>4. Min(T) \in T /\ \A i \in T : Min(T) <= i BY <2>1, <2>2, Smallest
  <2> QED BY <1>1, <2>3, <2>4 DEF T
<1> HIDE DEF start
<1>7. start \in Nat /\ start + Global <= BufferSize /\ oldest \in start + 1 .. start + Global
  <2>1. CASE start = floor BY <1>1, <1>3, <1>5, <1>6, <2>1
  <2>2. CASE start = BufferSize - Global BY <1>1, <1>3, <1>5, <1>6, <2>2
  <2> QED BY <1>6, <2>1, <2>2
<1> DEFINE p == SubSeq(q, start + 1, start + Global)
           I == 1 .. Global
           f == [i \in I |-> {q[start + i]}]
<1>8. Len(p) = Global /\ p \in Seq(S) /\ \A i \in I : p[i] = q[start + i] /\ start + i \in 1 .. BufferSize
  BY <1>1, <1>2, <1>7
<1>9. Chunk(w) = {f[i] : i \in I}
  <2>1. DOMAIN p = I BY <1>1, <1>8
  <2>2. ToSet(p) = {q[start + i] : i \in I} BY <1>8, <2>1 DEF ToSet
  <2>3. Chunk(w) = {{s} : s \in ToSet(p)} BY <1>4
  <2> HIDE DEF p, I
  <2> QED BY <2>2, <2>3
<1>10. \A i, j \in I : f[i] = f[j] => i = j
  <2> SUFFICES ASSUME NEW i \in I, NEW j \in I, f[i] = f[j], i # j PROVE FALSE OBVIOUS
  <2>1. q[start + i] = q[start + j] OBVIOUS
  <2>2. start + i \in 1 .. BufferSize /\ start + j \in 1 .. BufferSize /\ start + i # start + j
    BY <1>1, <1>7, <1>8
  <2> QED BY <1>2, <2>1, <2>2
<1>11. IsFiniteSet(I) /\ Cardinality(I) = Global
  BY <1>1, FirstNumbers
<1>12. \A i \in I : f[i] = {q[start + i]} /\ q[start + i] \in S BY <1>2, <1>8
<1>13. oldest - start \in I /\ start + (oldest - start) = oldest BY <1>1, <1>3, <1>7
<1> HIDE DEF f, I, p
<1>14. IsFiniteSet(Chunk(w)) /\ Cardinality(Chunk(w)) = Global BY <1>9, <1>10, <1>11, Image
<1>15. Chunk(w) \in SUBSET SUBSET S /\ {} \notin Chunk(w) BY <1>9, <1>12
<1>16. ASSUME NEW x \in Chunk(w), NEW y \in Chunk(w), x # y PROVE x \cap y = {}
  <2>1. PICK i \in I : x = {q[start + i]} BY <1>9, <1>12
  <2>2. PICK j \in I : y = {q[start + j]} BY <1>9, <1>12
  <2> QED BY <1>16, <2>1, <2>2
<1>17. \A x \in Chunk(w) : Useful(x) <= MaxSequence
  <2> SUFFICES ASSUME NEW s \in S PROVE Useful({s}) <= MaxSequence BY <1>9, <1>12
  <2>1. s \in Sample /\ ~Oversize(s) BY WindowSet DEF S, Batch
  <2>2. s.tokens <= MaxSequence BY <2>1, SampleCosts, Sizes DEF Oversize
  <2> QED BY <2>1, <2>2, OneSample
<1>18. w[1] \in f[oldest - start] BY <1>3, <1>12, <1>13
<1>19. \E x \in Chunk(w) : w[1] \in x BY <1>9, <1>13, <1>18
<1> QED BY <1>14, <1>15, <1>16, <1>17, <1>19 DEF PacksOf, S

\* Packs while they are filled.
BinsOf(bins, w) ==
    /\ bins \in Seq(SUBSET ToSet(w)) /\ Len(bins) \in 1 .. Global
    /\ \A i \in 1 .. Len(bins) : bins[i] # {} /\ Useful(bins[i]) <= MaxSequence
    /\ \A i, j \in 1 .. Len(bins) : i # j => bins[i] \cap bins[j] = {}
    /\ \E i \in 1 .. Len(bins) : w[1] \in bins[i]

Held(bins) == UNION ToSet(bins)

LEMMA HeldBins ==
    ASSUME NEW A, NEW bins \in Seq(A), NEW s
    PROVE  s \in Held(bins) <=> \E i \in 1 .. Len(bins) : s \in bins[i]
BY DEF Held, ToSet

LEMMA OnePack ==
    ASSUME NEW w, WindowOK(w), ~Bounded, NEW s \in ToSet(w)
    PROVE  Useful({s}) <= MaxSequence
<1>1. s \in Sample /\ ~Oversize(s) BY WindowSet DEF Batch
<1>2. s.tokens <= MaxSequence BY <1>1, SampleCosts, Sizes DEF Oversize
<1> QED BY <1>1, <1>2, OneSample

LEMMA FirstBins ==
    ASSUME NEW w, WindowOK(w), ~Bounded
    PROVE  BinsOf(<<{w[1]}>>, w) /\ Held(<<{w[1]}>>) = {w[1]}
<1> DEFINE b == <<{w[1]}>>
<1>1. w[1] \in ToSet(w) BY WindowSet
<1>2. b \in Seq(SUBSET ToSet(w)) /\ Len(b) = 1 /\ b[1] = {w[1]} BY <1>1
<1> HIDE DEF b
<1>3. Global \in Nat \ {0} /\ \A i \in 1 .. Len(b) : i = 1 BY <1>2, Sizes
<1>4. Useful({w[1]}) <= MaxSequence BY <1>1, OnePack
<1>7. Len(b) \in 1 .. Global /\ 1 \in 1 .. Len(b) /\ \A i, j \in 1 .. Len(b) : i = j BY <1>2, <1>3
<1>8. \A i \in 1 .. Len(b) : b[i] = {w[1]} BY <1>2, <1>3
<1>5. BinsOf(b, w) BY <1>2, <1>4, <1>7, <1>8 DEF BinsOf
<1>6. Held(b) = {w[1]}
  <2>1. \A s : s \in Held(b) <=> \E i \in 1 .. Len(b) : s \in b[i] BY <1>2, HeldBins
  <2> QED BY <1>2, <1>3, <2>1
<1> QED BY <1>5, <1>6 DEF b

LEMMA SeedTyped ==
    ASSUME NEW A, NEW bins \in Seq(SUBSET A), NEW s \in A
    PROVE  Seed(bins, s) \in Seq(SUBSET A)
BY DEF Seed

LEMMA SeedKeeps ==
    ASSUME NEW w, WindowOK(w), ~Bounded, NEW bins, BinsOf(bins, w),
           NEW s \in ToSet(w), s \notin Held(bins)
    PROVE  BinsOf(Seed(bins, s), w) /\ Held(Seed(bins, s)) \subseteq Held(bins) \cup {s}
<1>1. CASE Seed(bins, s) = bins BY <1>1
<1>2. CASE Seed(bins, s) = Append(bins, {s}) /\ Len(bins) < Global
  <2> DEFINE new == Append(bins, {s})
             n == Len(bins)
  <2>1. bins \in Seq(SUBSET ToSet(w)) /\ n \in 1 .. Global /\ Global \in Nat \ {0}
    BY Sizes DEF BinsOf
  <2>2. /\ new \in Seq(SUBSET ToSet(w)) /\ Len(new) = n + 1 /\ new[n + 1] = {s}
        /\ \A i \in 1 .. n : new[i] = bins[i]
    BY <2>1
  <2>3. Useful({s}) <= MaxSequence BY OnePack
  <2>4. \A i \in 1 .. n : s \notin bins[i] BY <2>1, HeldBins
  <2>5. /\ \A i \in 1 .. n : bins[i] # {} /\ Useful(bins[i]) <= MaxSequence
        /\ \A i, j \in 1 .. n : i # j => bins[i] \cap bins[j] = {}
        /\ \E i \in 1 .. n : w[1] \in bins[i]
    BY DEF BinsOf
  <2>6. \A i \in 1 .. n + 1 : i \in 1 .. n \/ i = n + 1 BY <2>1
  <2>7. n + 1 \in 1 .. Global /\ \A i \in 1 .. n : i \in 1 .. n + 1 BY <1>2, <2>1
  <2> HIDE DEF new, n
  <2>8. \A i \in 1 .. n + 1 : new[i] # {} /\ Useful(new[i]) <= MaxSequence
    BY <2>2, <2>3, <2>5, <2>6
  <2>9. \A i, j \in 1 .. n + 1 : i # j => new[i] \cap new[j] = {}
    BY <2>2, <2>4, <2>5, <2>6
  <2>10. \E i \in 1 .. n + 1 : w[1] \in new[i] BY <2>2, <2>5, <2>7
  <2>11. BinsOf(new, w) BY <2>2, <2>7, <2>8, <2>9, <2>10 DEF BinsOf
  <2>12. ASSUME NEW x \in Held(new) PROVE x \in Held(bins) \cup {s}
    <3>1. PICK i \in 1 .. n + 1 : x \in new[i] BY <2>2, HeldBins
    <3>2. CASE i = n + 1 BY <2>2, <3>1, <3>2
    <3>3. CASE i \in 1 .. n
      <4>1. x \in bins[i] BY <2>2, <3>1, <3>3
      <4> QED BY <2>1, <3>3, <4>1, HeldBins DEF n
    <3> QED BY <2>6, <3>2, <3>3
  <2> QED BY <1>2, <2>11, <2>12 DEF new
<1> QED BY <1>1, <1>2 DEF Seed

\* A pack for the oldest sample, and packs of one sample each.
LEMMA SeedsBins ==
    ASSUME NEW w, WindowOK(w), ~Bounded
    PROVE  BinsOf(Seeds(w), w)
<1> DEFINE start == <<{w[1]}>>
           rest == ToSet(Tail(w))
           order == ByLength(rest)
           N == Cardinality(rest)
           Bins == Seq(SUBSET ToSet(w))
<1>1. BinsOf(start, w) /\ Held(start) = {w[1]} /\ start \in Bins BY FirstBins DEF BinsOf
<1>2. Seeds(w) = FoldLeft(Seed, start, order) BY DEF Seeds
<1>3. rest \in SUBSET ToSet(w) /\ rest \cap Held(start) = {} BY <1>1, TailSet
<1>4. N \in Nat BY <1>3, ByLengthList
<1>5. order \in [1 .. N -> rest] /\ \A m, n \in 1 .. N : m # n => order[m] # order[n]
  <2>1. IsListOf(order, rest) BY <1>3, ByLengthList
  <2> HIDE DEF order, rest
  <2> QED BY <2>1 DEF IsListOf
<1> HIDE DEF start, order, rest, N
<1>6. DOMAIN order = 1 .. N /\ \A i \in 1 .. N : order[i] \in rest /\ order[i] \in ToSet(w)
  BY <1>3, <1>5
<1> DEFINE it == CHOOSE iter :
                     iter = [s \in SUBSET (1 .. N) |->
                                IF s = {} THEN start
                                ELSE Seed(iter[s \ {Max(s)}], order[Max(s)])]
           G == [p \in (1 .. N) \X Bins |-> Seed(p[2], order[p[1]])]
<1>7. FoldLeft(Seed, start, order) = it[1 .. N] BY <1>6 DEF FoldLeft, MapThenFoldSet
<1>8. it = [s \in SUBSET (1 .. N) |-> IF s = {} THEN start
                                      ELSE Seed(it[s \ {Max(s)}], order[Max(s)])]
  <2>1. \A i \in 1 .. N, x \in Bins : G[<<i, x>>] = Seed(x, order[i]) /\ G[<<i, x>>] \in Bins
    <3> SUFFICES ASSUME NEW i \in 1 .. N, NEW x \in Bins
                 PROVE  G[<<i, x>>] = Seed(x, order[i]) /\ G[<<i, x>>] \in Bins
      OBVIOUS
    <3>1. G[<<i, x>>] = Seed(x, order[i]) OBVIOUS
    <3> HIDE DEF G
    <3> QED BY <1>6, <3>1, SeedTyped
  <2> HIDE DEF G, Bins
  <2>2. PICK h \in [SUBSET (1 .. N) -> Bins] : LeftFoldOf(h, N, start, G)
    BY <1>1, <1>4, <2>1, LeftFoldExists
  <2>3. \A s \in SUBSET (1 .. N) : s # {} => h[s] = Seed(h[s \ {Max(s)}], order[Max(s)])
    <3> SUFFICES ASSUME NEW s \in SUBSET (1 .. N), s # {}
                 PROVE  h[s] = Seed(h[s \ {Max(s)}], order[Max(s)])
      OBVIOUS
    <3>1. Max(s) \in 1 .. N BY LargestOf, <1>4
    <3>2. h[s \ {Max(s)}] \in Bins OBVIOUS
    <3>3. h[s] = G[<<Max(s), h[s \ {Max(s)}]>>] BY <2>2 DEF LeftFoldOf
    <3> QED BY <2>1, <3>1, <3>2, <3>3
  <2>4. h[{}] = start
    <3>1. {} \in SUBSET (1 .. N) OBVIOUS
    <3> QED BY <2>2, <3>1 DEF LeftFoldOf
  <2>5. h = [s \in SUBSET (1 .. N) |-> IF s = {} THEN start
                                       ELSE Seed(h[s \ {Max(s)}], order[Max(s)])]
    BY <2>3, <2>4
  <2> QED BY <2>5
<1> HIDE DEF it
<1> DEFINE Good(n) == /\ BinsOf(it[1 .. n], w)
                      /\ Held(it[1 .. n]) \subseteq Held(start) \cup {order[m] : m \in 1 .. n}
           T == {n \in 0 .. N : Good(n)}
<1>9. 0 \in T
  <2>1. 1 .. 0 = {} /\ {} \in SUBSET (1 .. N) /\ 0 \in 0 .. N BY <1>4
  <2>2. it[1 .. 0] = start BY <1>8, <2>1
  <2> QED BY <1>1, <2>1, <2>2
<1>10. ASSUME NEW n \in 0 .. N - 1, n \in T PROVE n + 1 \in T
  <2>1. /\ n + 1 \in 1 .. N /\ n + 1 \in 0 .. N /\ n + 1 \in Nat \ {0} /\ n \in Nat /\ (n + 1) - 1 = n
        /\ 1 .. n + 1 \in SUBSET (1 .. N) /\ 1 .. n + 1 # {} /\ n + 1 \in 1 .. n + 1
        /\ \A m \in 1 .. n : m \in 1 .. N /\ m \in 1 .. n + 1 /\ m # n + 1 /\ m < n + 1
        /\ \A m \in 1 .. n + 1 : m \in 1 .. n \/ m = n + 1
    BY <1>4, NextNumber
  <2>2. Max(1 .. n + 1) = n + 1 /\ (1 .. n + 1) \ {n + 1} = 1 .. n BY <2>1, LastOfPrefix
  <2>3. it[1 .. n + 1] = Seed(it[1 .. n], order[n + 1]) BY <1>8, <2>1, <2>2
  <2>4. Good(n) BY <1>10
  <2>5. order[n + 1] \notin Held(it[1 .. n])
    <3>1. order[n + 1] \notin Held(start) BY <1>3, <1>6, <2>1
    <3>2. \A m \in 1 .. n : order[m] # order[n + 1] BY <1>5, <2>1
    <3> QED BY <2>4, <3>1, <3>2
  <2>6. order[n + 1] \in ToSet(w) BY <1>6, <2>1
  <2>7. /\ BinsOf(it[1 .. n + 1], w)
        /\ Held(it[1 .. n + 1]) \subseteq Held(it[1 .. n]) \cup {order[n + 1]}
    BY <2>3, <2>4, <2>5, <2>6, SeedKeeps
  <2>8. Held(it[1 .. n + 1]) \subseteq Held(start) \cup {order[m] : m \in 1 .. n + 1}
    BY <2>1, <2>4, <2>7
  <2> QED BY <2>1, <2>4, <2>7, <2>8
<1>11. N \in T
  <2> HIDE DEF T
  <2>1. 0 .. N \subseteq T BY <1>4, <1>9, <1>10, UpTo
  <2> QED BY <1>4, <2>1
<1> QED BY <1>2, <1>7, <1>11

LEMMA PutIn ==
    ASSUME NEW A, NEW q \in Seq(A), NEW i, NEW x \in A
    PROVE  LET new == [q EXCEPT ![i] = x]
           IN  /\ new \in Seq(A) /\ Len(new) = Len(q)
               /\ \A j \in 1 .. Len(q) : new[j] = IF j = i THEN x ELSE q[j]
<1> DEFINE n == Len(q)
           new == [q EXCEPT ![i] = x]
<1>1. q \in [1 .. n -> A] /\ n \in Nat OBVIOUS
<1> HIDE DEF n
<1>2. new \in [1 .. n -> A] /\ \A j \in 1 .. n : new[j] = IF j = i THEN x ELSE q[j] BY <1>1
<1> HIDE DEF new
<1>3. new \in Seq(A) /\ Len(new) = n BY <1>1, <1>2
<1> QED BY <1>2, <1>3 DEF n, new

LEMMA BestFitTyped ==
    ASSUME NEW A, NEW bins \in Seq(SUBSET A), NEW s \in A
    PROVE  BestFit(bins, s) \in Seq(SUBSET A)
<1> DEFINE room(i) == MaxSequence - Useful(bins[i]) - s.tokens
           with(i) == [bins EXCEPT ![i] = @ \cup {s}]
           open == {i \in DOMAIN bins : room(i) >= 0 /\ Assignable(ToSet(with(i)))}
           best == CHOOSE i \in open : \A o \in open \ {i} : Before(<<room(i), i>>, <<room(o), o>>)
<1>1. BestFit(bins, s) = bins \/ BestFit(bins, s) = with(best) BY DEF BestFit
<1> HIDE DEF best
<1>2. with(best) \in Seq(SUBSET A)
  <2>1. CASE best \in DOMAIN bins
    <3>1. bins[best] \cup {s} \in SUBSET A BY <2>1
    <3> QED BY <3>1, PutIn
  <2>2. CASE best \notin DOMAIN bins
    <3>1. with(best) = bins BY <2>2
    <3> QED BY <3>1
  <2> QED BY <2>1, <2>2
<1> QED BY <1>1, <1>2

LEMMA BestFitKeeps ==
    ASSUME NEW w, WindowOK(w), NEW bins, BinsOf(bins, w), NEW s \in ToSet(w), s \notin Held(bins)
    PROVE  /\ BinsOf(BestFit(bins, s), w) /\ Len(BestFit(bins, s)) = Len(bins)
           /\ Held(BestFit(bins, s)) \subseteq Held(bins) \cup {s}
<1> DEFINE room(i) == MaxSequence - Useful(bins[i]) - s.tokens
           with(i) == [bins EXCEPT ![i] = @ \cup {s}]
           open == {i \in DOMAIN bins : room(i) >= 0 /\ Assignable(ToSet(with(i)))}
           best == CHOOSE i \in open : \A o \in open \ {i} : Before(<<room(i), i>>, <<room(o), o>>)
           key == [i \in open |-> <<room(i), i>>]
           n == Len(bins)
<1>1. BestFit(bins, s) = IF open = {} THEN bins ELSE with(best) BY DEF BestFit
<1>2. CASE open = {} BY <1>1, <1>2
<1>3. CASE open # {}
  <2>1. bins \in Seq(SUBSET ToSet(w)) /\ n \in 1 .. Global /\ Global \in Nat \ {0} /\ DOMAIN bins = 1 .. n
        /\ n \in Nat /\ bins \in [1 .. n -> SUBSET ToSet(w)]
    BY Sizes DEF BinsOf
  <2>2. \A i \in 1 .. n : Batch(bins[i]) /\ s \notin bins[i]
    <3>1. \A i \in 1 .. n : bins[i] \in SUBSET ToSet(w) BY <2>1
    <3> QED BY <2>1, <3>1, HeldBins, WindowSet, PartOfBatch
  <2>3. s \in Sample /\ s.tokens \in Nat BY WindowSet, SampleCosts DEF Batch
  <2>4. \A i \in 1 .. n : room(i) \in Int /\ Useful(bins[i]) \in Nat
    <3>1. \A i \in 1 .. n : Useful(bins[i]) \in Nat BY <2>2, TokensAddUp
    <3> QED BY <2>3, <3>1, Sizes
  <2>5. open \subseteq 1 .. n /\ \A i \in open : room(i) >= 0 BY <2>1
  <2>6. IsFiniteSet(open)
    <3>1. IsFiniteSet(1 .. n) BY <2>1, FS_Interval
    <3> QED BY <2>5, <3>1, FS_Subset
  <2>7. \E i \in open : \A o \in open \ {i} : Before(<<room(i), i>>, <<room(o), o>>)
    <3>1. \A i \in open : key[i] = <<room(i), i>> /\ room(i) \in Int /\ i \in Int BY <2>1, <2>4, <2>5
    <3> HIDE DEF key, open
    <3>2. \A i \in open : Tuple(<<room(i), i>>, 2) /\ <<room(i), i>>[2] = i
      <4> HIDE DEF room
      <4> QED BY <3>1, Pair
    <3>3. Keyed(key, open, 2)
      <4> HIDE DEF room
      <4>1. \A i \in open : Tuple(key[i], 2) /\ key[i][2] = i BY <3>1, <3>2
      <4> QED BY <4>1 DEF Keyed
    <3>4. \E i \in open : \A o \in open \ {i} : Before(key[i], key[o]) BY <1>3, <2>6, <3>3, FirstByKey
    <3> HIDE DEF room
    <3> QED BY <3>1, <3>4
  <2>8. best \in open
    <3> HIDE DEF open, room
    <3> QED BY <2>7
  <2> HIDE DEF best, open
  <2> DEFINE new == with(best)
  <2>9. best \in 1 .. n /\ MaxSequence - Useful(bins[best]) - s.tokens >= 0 BY <2>5, <2>8
  <2>10. /\ new \in Seq(SUBSET ToSet(w)) /\ Len(new) = n
         /\ \A i \in 1 .. n : new[i] = IF i = best THEN bins[i] \cup {s} ELSE bins[i]
    <3>1. bins[best] \cup {s} \in SUBSET ToSet(w) BY <2>1, <2>9
    <3> QED BY <2>1, <3>1, PutIn, SMTT(30)
  <2> HIDE DEF new
  <2>11. /\ \A i \in 1 .. n : bins[i] # {} /\ Useful(bins[i]) <= MaxSequence
         /\ \A i, j \in 1 .. n : i # j => bins[i] \cap bins[j] = {}
         /\ \E i \in 1 .. n : w[1] \in bins[i]
    BY DEF BinsOf
  <2>12. Useful(bins[best] \cup {s}) <= MaxSequence
    <3>1. Useful(bins[best] \cup {s}) = Useful(bins[best]) + s.tokens BY <2>2, <2>3, <2>9, Joined
    <3>2. Useful(bins[best]) \in Nat /\ MaxSequence \in Nat BY <2>4, <2>9, Sizes
    <3> QED BY <2>3, <2>9, <3>1, <3>2
  <2> HIDE DEF n
  <2>13. \A i \in 1 .. n : new[i] # {} /\ Useful(new[i]) <= MaxSequence BY <2>10, <2>11, <2>12, ZenonT(30)
  <2>14. \A i, j \in 1 .. n : i # j => new[i] \cap new[j] = {} BY <2>2, <2>10, <2>11
  <2>15. \E i \in 1 .. n : w[1] \in new[i] BY <2>10, <2>11
  <2>16. BinsOf(new, w) BY <2>1, <2>10, <2>13, <2>14, <2>15 DEF BinsOf
  <2>17. ASSUME NEW x \in Held(new) PROVE x \in Held(bins) \cup {s}
    <3>1. PICK i \in 1 .. n : x \in new[i] BY <2>10, HeldBins
    <3>2. x = s \/ x \in bins[i] BY <2>10, <3>1
    <3>3. x \in bins[i] => x \in Held(bins) BY <2>1, <3>1, HeldBins DEF n
    <3> QED BY <3>2, <3>3
  <2>18. BestFit(bins, s) = new BY <1>1, <1>3 DEF new, open, best
  <2> QED BY <2>10, <2>16, <2>17, <2>18 DEF n
<1> QED BY <1>2, <1>3

\* Whole samples in packs.
LEMMA PackedPacks ==
    ASSUME NEW w, WindowOK(w), ~Bounded, NEW packs \in Packed(w)
    PROVE  PacksOf(packs, w)
<1> DEFINE seeds == Seeds(w)
           rest == ToSet(w) \ UNION ToSet(seeds)
           order == ByLength(rest)
           N == Cardinality(rest)
           Bins == Seq(SUBSET ToSet(w))
<1>1. BinsOf(seeds, w) /\ seeds \in Bins BY SeedsBins DEF BinsOf
<1>2. ~ Len(seeds) < Global /\ packs = ToSet(FoldLeft(BestFit, seeds, order)) BY DEF Packed
<1>3. rest \in SUBSET ToSet(w) /\ rest \cap Held(seeds) = {} BY DEF Held
<1>4. N \in Nat BY <1>3, ByLengthList
<1>5. order \in [1 .. N -> rest] /\ \A m, n \in 1 .. N : m # n => order[m] # order[n]
  <2>1. IsListOf(order, rest) BY <1>3, ByLengthList
  <2> HIDE DEF order, rest
  <2> QED BY <2>1 DEF IsListOf
<1> HIDE DEF seeds, order, rest, N
<1>6. DOMAIN order = 1 .. N /\ \A i \in 1 .. N : order[i] \in rest /\ order[i] \in ToSet(w)
  BY <1>3, <1>5
<1> DEFINE it == CHOOSE iter :
                     iter = [s \in SUBSET (1 .. N) |->
                                IF s = {} THEN seeds
                                ELSE BestFit(iter[s \ {Max(s)}], order[Max(s)])]
           G == [p \in (1 .. N) \X Bins |-> BestFit(p[2], order[p[1]])]
<1>7. FoldLeft(BestFit, seeds, order) = it[1 .. N] BY <1>6 DEF FoldLeft, MapThenFoldSet
<1>8. it = [s \in SUBSET (1 .. N) |-> IF s = {} THEN seeds
                                      ELSE BestFit(it[s \ {Max(s)}], order[Max(s)])]
  <2>1. \A i \in 1 .. N, x \in Bins : G[<<i, x>>] = BestFit(x, order[i]) /\ G[<<i, x>>] \in Bins
    <3> SUFFICES ASSUME NEW i \in 1 .. N, NEW x \in Bins
                 PROVE  G[<<i, x>>] = BestFit(x, order[i]) /\ G[<<i, x>>] \in Bins
      OBVIOUS
    <3>1. G[<<i, x>>] = BestFit(x, order[i]) OBVIOUS
    <3> HIDE DEF G
    <3> QED BY <1>6, <3>1, BestFitTyped
  <2> HIDE DEF G, Bins
  <2>2. PICK h \in [SUBSET (1 .. N) -> Bins] : LeftFoldOf(h, N, seeds, G)
    BY <1>1, <1>4, <2>1, LeftFoldExists
  <2>3. \A s \in SUBSET (1 .. N) : s # {} => h[s] = BestFit(h[s \ {Max(s)}], order[Max(s)])
    <3> SUFFICES ASSUME NEW s \in SUBSET (1 .. N), s # {}
                 PROVE  h[s] = BestFit(h[s \ {Max(s)}], order[Max(s)])
      OBVIOUS
    <3>1. Max(s) \in 1 .. N BY LargestOf, <1>4
    <3>2. h[s \ {Max(s)}] \in Bins OBVIOUS
    <3>3. h[s] = G[<<Max(s), h[s \ {Max(s)}]>>] BY <2>2 DEF LeftFoldOf
    <3> QED BY <2>1, <3>1, <3>2, <3>3
  <2>4. h[{}] = seeds
    <3>1. {} \in SUBSET (1 .. N) OBVIOUS
    <3> QED BY <2>2, <3>1 DEF LeftFoldOf
  <2>5. h = [s \in SUBSET (1 .. N) |-> IF s = {} THEN seeds
                                       ELSE BestFit(h[s \ {Max(s)}], order[Max(s)])]
    BY <2>3, <2>4
  <2> QED BY <2>5
<1> HIDE DEF it
<1> DEFINE Good(n) == /\ BinsOf(it[1 .. n], w) /\ Len(it[1 .. n]) = Len(seeds)
                      /\ Held(it[1 .. n]) \subseteq Held(seeds) \cup {order[m] : m \in 1 .. n}
           T == {n \in 0 .. N : Good(n)}
<1>9. 0 \in T
  <2>1. 1 .. 0 = {} /\ {} \in SUBSET (1 .. N) /\ 0 \in 0 .. N BY <1>4
  <2>2. it[1 .. 0] = seeds BY <1>8, <2>1
  <2> QED BY <1>1, <2>1, <2>2
<1>10. ASSUME NEW n \in 0 .. N - 1, n \in T PROVE n + 1 \in T
  <2>1. /\ n + 1 \in 1 .. N /\ n + 1 \in 0 .. N /\ n + 1 \in Nat \ {0} /\ n \in Nat /\ (n + 1) - 1 = n
        /\ 1 .. n + 1 \in SUBSET (1 .. N) /\ 1 .. n + 1 # {} /\ n + 1 \in 1 .. n + 1
        /\ \A m \in 1 .. n : m \in 1 .. N /\ m \in 1 .. n + 1 /\ m # n + 1 /\ m < n + 1
        /\ \A m \in 1 .. n + 1 : m \in 1 .. n \/ m = n + 1
    BY <1>4, NextNumber
  <2>2. Max(1 .. n + 1) = n + 1 /\ (1 .. n + 1) \ {n + 1} = 1 .. n BY <2>1, LastOfPrefix
  <2>3. it[1 .. n + 1] = BestFit(it[1 .. n], order[n + 1]) BY <1>8, <2>1, <2>2
  <2>4. Good(n) BY <1>10
  <2>5. order[n + 1] \notin Held(it[1 .. n])
    <3>1. order[n + 1] \notin Held(seeds) BY <1>3, <1>6, <2>1
    <3>2. \A m \in 1 .. n : order[m] # order[n + 1] BY <1>5, <2>1
    <3> QED BY <2>4, <3>1, <3>2
  <2>6. order[n + 1] \in ToSet(w) BY <1>6, <2>1
  <2>7. /\ BinsOf(it[1 .. n + 1], w) /\ Len(it[1 .. n + 1]) = Len(it[1 .. n])
        /\ Held(it[1 .. n + 1]) \subseteq Held(it[1 .. n]) \cup {order[n + 1]}
    BY <2>3, <2>4, <2>5, <2>6, BestFitKeeps
  <2>8. Held(it[1 .. n + 1]) \subseteq Held(seeds) \cup {order[m] : m \in 1 .. n + 1}
    BY <2>1, <2>4, <2>7
  <2> QED BY <2>1, <2>4, <2>7, <2>8
<1>11. N \in T
  <2> HIDE DEF T
  <2>1. 0 .. N \subseteq T BY <1>4, <1>9, <1>10, UpTo
  <2> QED BY <1>4, <2>1
<1> DEFINE bins == it[1 .. N]
<1>12. BinsOf(bins, w) /\ Len(bins) = Len(seeds) /\ packs = ToSet(bins) BY <1>2, <1>7, <1>11
<1> HIDE DEF bins
<1>13. Len(bins) = Global /\ Global \in Nat
  <2>1. Len(seeds) \in 1 .. Global /\ Global \in Nat BY <1>1, Sizes DEF BinsOf
  <2> QED BY <1>2, <1>12, <2>1
<1> DEFINE I == 1 .. Global
<1>14. bins \in [I -> SUBSET ToSet(w)] /\ packs = {bins[i] : i \in I} /\ DOMAIN bins = I
  <2>1. bins \in Seq(SUBSET ToSet(w)) BY <1>12 DEF BinsOf
  <2>2. DOMAIN bins = I BY <1>13, <2>1
  <2> QED BY <1>12, <1>13, <2>1, <2>2 DEF ToSet
<1>15. /\ \A i \in I : bins[i] # {} /\ Useful(bins[i]) <= MaxSequence
       /\ \A i, j \in I : i # j => bins[i] \cap bins[j] = {}
       /\ \E i \in I : w[1] \in bins[i]
  BY <1>12, <1>13 DEF BinsOf
<1>16. IsFiniteSet(I) /\ Cardinality(I) = Global
  BY <1>13, FirstNumbers
<1> HIDE DEF I
<1>17. \A i, j \in I : bins[i] = bins[j] => i = j BY <1>15
<1>18. IsFiniteSet(packs) /\ Cardinality(packs) = Global
  <2>1. IsFiniteSet({bins[i] : i \in I}) /\ Cardinality({bins[i] : i \in I}) = Cardinality(I)
    BY <1>16, <1>17, Image
  <2> QED BY <1>14, <1>16, <2>1
<1>19. packs \in SUBSET SUBSET ToSet(w) /\ {} \notin packs BY <1>14, <1>15
<1>20. ASSUME NEW p \in packs, NEW q \in packs, p # q PROVE p \cap q = {}
  <2>1. PICK i \in I : p = bins[i] BY <1>14
  <2>2. PICK j \in I : q = bins[j] BY <1>14
  <2> QED BY <1>15, <1>20, <2>1, <2>2
<1>21. \A p \in packs : Useful(p) <= MaxSequence BY <1>14, <1>15
<1>22. \E p \in packs : w[1] \in p BY <1>14, <1>15
<1> QED BY <1>18, <1>19, <1>20, <1>21, <1>22 DEF PacksOf

-----------------------------------------------------------------------------
(***************************************************************************)
(* What one call hands out.                                                *)
(***************************************************************************)
\* WithinBudget, of the packs of a plan.
Budgeted(packs) ==
    \A r \in DataRanks :
        LET batch == UNION packs[r]
        IN  /\ Cardinality(packs[r]) \in LocalMin .. Local
            /\ {} \notin packs[r]
            /\ IF Bounded THEN Padded(batch) <= MaxTokens
               ELSE \A pack \in packs[r] : Useful(pack) <= MaxSequence
            /\ PatchSum(batch) <= MaxPatches
            /\ \A o \in DataRanks : \A p \in packs[o], q \in packs[r] :
                   p # q \/ o # r => p \cap q = {}

\* The oldest sample is among those taken, and every rank has enough of them.
HandedOut(packs, taken, w) ==
    /\ packs \in [DataRanks -> SUBSET SUBSET ToSet(w)]
    /\ Budgeted(packs)
    /\ taken \in SUBSET ToSet(w) /\ w[1] \in taken
    /\ Cardinality(taken) >= World * LocalMin

LEMMA Singles ==
    ASSUME NEW B, IsFiniteSet(B)
    PROVE  UNION {{s} : s \in B} = B /\ Cardinality({{s} : s \in B}) = Cardinality(B)
<1> DEFINE f == [s \in B |-> {s}]
<1>1. \A x, y \in B : f[x] = f[y] => x = y OBVIOUS
<1>2. {f[s] : s \in B} = {{s} : s \in B} OBVIOUS
<1> HIDE DEF f
<1>3. Cardinality({f[s] : s \in B}) = Cardinality(B) BY <1>1, Image
<1> QED BY <1>2, <1>3

LEMMA BinnedHandedOut ==
    ASSUME NEW w, WindowOK(w), Bounded, NEW bins, Binned(bins, w), mode = "fixed" => Complete(bins)
    PROVE  HandedOut([r \in DataRanks |-> {{s} : s \in bins[r]}], Selected(bins), w)
<1> DEFINE packs == [r \in DataRanks |-> {{s} : s \in bins[r]}]
<1>1. /\ bins \in [DataRanks -> SUBSET ToSet(w)]
      /\ \A r \in DataRanks : bins[r] # {} /\ Fits(bins[r])
      /\ \A r, o \in DataRanks : r # o => bins[r] \cap bins[o] = {}
      /\ \E r \in DataRanks : w[1] \in bins[r]
  BY DEF Binned
<1>2. \A r \in DataRanks : IsFiniteSet(bins[r]) /\ Cardinality(bins[r]) \in Nat /\ Cardinality(bins[r]) # 0
  <2>1. \A r \in DataRanks : bins[r] \in SUBSET ToSet(w) BY <1>1
  <2>2. \A r \in DataRanks : IsFiniteSet(bins[r]) BY <2>1, WindowSet, PartOfBatch DEF Batch
  <2> QED BY <1>1, <2>2, FS_CardinalityType, FS_EmptySet
<1>3. /\ packs \in [DataRanks -> SUBSET SUBSET ToSet(w)]
      /\ \A r \in DataRanks : packs[r] = {{s} : s \in bins[r]}
  BY <1>1
<1> HIDE DEF packs
<1>4. \A r \in DataRanks : UNION packs[r] = bins[r] /\ Cardinality(packs[r]) = Cardinality(bins[r])
  BY <1>2, <1>3, Singles
<1>5. \A r \in DataRanks : Cardinality(bins[r]) \in LocalMin .. Local
  <2> SUFFICES ASSUME NEW r \in DataRanks PROVE Cardinality(bins[r]) \in LocalMin .. Local OBVIOUS
  <2>1. Cardinality(bins[r]) <= Local /\ Cardinality(bins[r]) \in Nat \ {0} /\ Local \in Nat
    BY <1>1, <1>2, Sizes DEF Fits
  <2>2. CASE mode = "fixed"
    <3>1. Cardinality(bins[r]) = Local BY <2>2 DEF Complete
    <3>2. LocalMin = Local BY <2>2 DEF LocalMin
    <3> QED BY <2>1, <3>1, <3>2
  <2>3. CASE mode = "token_budget"
    <3>1. LocalMin = 1 BY <2>3 DEF LocalMin
    <3> QED BY <2>1, <3>1
  <2> QED BY <2>2, <2>3 DEF Bounded
<1>6. Budgeted(packs)
  <2> SUFFICES ASSUME NEW r \in DataRanks
               PROVE  /\ Cardinality(packs[r]) \in LocalMin .. Local
                      /\ {} \notin packs[r]
                      /\ Padded(UNION packs[r]) <= MaxTokens
                      /\ PatchSum(UNION packs[r]) <= MaxPatches
                      /\ \A o \in DataRanks : \A p \in packs[o], q \in packs[r] :
                             p # q \/ o # r => p \cap q = {}
    BY DEF Budgeted
  <2>1. Cardinality(packs[r]) \in LocalMin .. Local BY <1>4, <1>5
  <2>2. {} \notin packs[r] BY <1>3
  <2>3. Padded(UNION packs[r]) <= MaxTokens /\ PatchSum(UNION packs[r]) <= MaxPatches
    BY <1>1, <1>4 DEF Fits
  <2>4. ASSUME NEW o \in DataRanks, NEW p \in packs[o], NEW q \in packs[r], p # q \/ o # r
        PROVE  p \cap q = {}
    <3>1. PICK s \in bins[o] : p = {s} BY <1>3
    <3>2. PICK t \in bins[r] : q = {t} BY <1>3
    <3>3. s # t BY <1>1, <2>4, <3>1, <3>2
    <3> QED BY <3>1, <3>2, <3>3
  <2> QED BY <2>1, <2>2, <2>3, <2>4
<1>7. Selected(bins) \in SUBSET ToSet(w) /\ w[1] \in Selected(bins) BY <1>1 DEF Selected
<1>8. Cardinality(Selected(bins)) >= World * LocalMin
  <2>1. World \in Nat /\ LocalMin \in Nat /\ Local \in Nat BY Sizes
  <2>2. \A r \in 1 .. World : IsFiniteSet(bins[r]) /\ Cardinality(bins[r]) >= LocalMin
    BY <1>2, <1>5, <2>1 DEF DataRanks
  <2>3. \A r, o \in 1 .. World : r # o => bins[r] \cap bins[o] = {} BY <1>1 DEF DataRanks
  <2>4. LargeSets(bins, World, LocalMin) BY <2>2, <2>3 DEF LargeSets
  <2>5. Cardinality(UnionOf(bins, World)) >= World * LocalMin BY <2>1, <2>4, ManySets
  <2> QED BY <2>5 DEF Selected, DataRanks, UnionOf
<1>9. HandedOut(packs, Selected(bins), w) BY <1>3, <1>6, <1>7, <1>8 DEF HandedOut
<1> QED BY <1>9 DEF packs

LEMMA DealtHandedOut ==
    ASSUME NEW w, WindowOK(w), ~Bounded, NEW packs, PacksOf(packs, w), NEW dealt \in Assignments(packs)
    PROVE  HandedOut(dealt, UNION UNION {dealt[r] : r \in DataRanks}, w)
<1> DEFINE taken == UNION packs
<1>1. /\ dealt \in [DataRanks -> SUBSET packs]
      /\ \A r \in DataRanks : RankFits(dealt[r])
      /\ \A q, r \in DataRanks : q # r => dealt[q] \cap dealt[r] = {}
      /\ UNION {dealt[r] : r \in DataRanks} = packs
  BY DEF Assignments
<1>2. /\ packs \in SUBSET SUBSET ToSet(w) /\ {} \notin packs
      /\ IsFiniteSet(packs) /\ Cardinality(packs) = World * Local
      /\ \A p, q \in packs : p # q => p \cap q = {}
      /\ \A p \in packs : Useful(p) <= MaxSequence
      /\ \E p \in packs : w[1] \in p
  BY DEF PacksOf, Global
<1>3. World \in Nat /\ Local \in Nat BY Sizes
<1>4. LocalMin = Local BY DEF LocalMin, Bounded
<1>5. \A r \in DataRanks : IsFiniteSet(dealt[r]) /\ Cardinality(dealt[r]) <= Local
  <2>1. \A r \in DataRanks : Cardinality(dealt[r]) <= Local BY <1>1 DEF RankFits
  <2>2. \A r \in DataRanks : dealt[r] \in SUBSET packs BY <1>1
  <2>3. IsFiniteSet(packs) BY <1>2
  <2>4. \A r \in DataRanks : IsFiniteSet(dealt[r]) BY <2>2, <2>3, FS_Subset
  <2> QED BY <2>1, <2>4
<1>6. \A r \in DataRanks : Cardinality(dealt[r]) = Local
  <2>1. \A r \in 1 .. World : IsFiniteSet(dealt[r]) /\ Cardinality(dealt[r]) <= Local BY <1>5 DEF DataRanks
  <2>2. \A q, r \in 1 .. World : q # r => dealt[q] \cap dealt[r] = {} BY <1>1 DEF DataRanks
  <2>3. UNION {dealt[r] : r \in 1 .. World} = packs BY <1>1 DEF DataRanks
  <2>4. LET all == UNION {dealt[r] : r \in 1 .. World}
        IN  Cardinality(all) = World * Local => \A r \in 1 .. World : Cardinality(dealt[r]) = Local
    BY <1>3, <2>1, <2>2, FullSets
  <2> QED BY <1>2, <2>3, <2>4 DEF DataRanks
<1>7. Budgeted(dealt)
  <2> SUFFICES ASSUME NEW r \in DataRanks
               PROVE  /\ Cardinality(dealt[r]) \in LocalMin .. Local
                      /\ {} \notin dealt[r]
                      /\ \A pack \in dealt[r] : Useful(pack) <= MaxSequence
                      /\ PatchSum(UNION dealt[r]) <= MaxPatches
                      /\ \A o \in DataRanks : \A p \in dealt[o], q \in dealt[r] :
                             p # q \/ o # r => p \cap q = {}
    BY DEF Budgeted
  <2>1. Cardinality(dealt[r]) \in LocalMin .. Local BY <1>3, <1>4, <1>6
  <2>2. \A o \in DataRanks : \A p \in dealt[o] : p \in packs BY <1>1
  <2>3. PatchSum(UNION dealt[r]) <= MaxPatches BY <1>1 DEF RankFits
  <2>4. ASSUME NEW o \in DataRanks, NEW p \in dealt[o], NEW q \in dealt[r], p # q \/ o # r
        PROVE  p \cap q = {}
    <3>1. p # q BY <1>1, <2>4
    <3> QED BY <1>2, <2>2, <3>1
  <2> QED BY <1>2, <2>1, <2>2, <2>3, <2>4
<1>8. taken \in SUBSET ToSet(w) /\ w[1] \in taken BY <1>2
<1>9. Cardinality(taken) >= World * LocalMin
  <2> DEFINE f == [p \in packs |-> CHOOSE x \in p : TRUE]
  <2>1. ASSUME NEW p \in packs PROVE f[p] \in p
    <3>1. p # {} BY <1>2
    <3>2. (CHOOSE x \in p : TRUE) \in p BY <3>1
    <3> QED BY <3>2
  <2>2. f \in [packs -> taken] BY <2>1
  <2>3. \A p, q \in packs : f[p] = f[q] => p = q BY <1>2, <2>1
  <2>4. IsFiniteSet(taken)
    <3>1. IsFiniteSet(ToSet(w)) BY WindowSet DEF Batch
    <3> QED BY <1>8, <3>1, FS_Subset
  <2> HIDE DEF f, taken
  <2>5. f \in Injection(packs, taken) BY <2>2, <2>3 DEF Injection, IsInjective
  <2>6. Cardinality(packs) <= Cardinality(taken) BY <2>4, <2>5, FS_Injection
  <2>7. Cardinality(taken) \in Nat /\ World * Local \in Nat BY <1>3, <2>4, FS_CardinalityType
  <2> QED BY <1>2, <1>4, <2>6, <2>7
<1>10. dealt \in [DataRanks -> SUBSET SUBSET ToSet(w)]
  <2>1. \A r \in DataRanks : dealt[r] \in SUBSET packs BY <1>1
  <2> QED BY <1>1, <1>2, <2>1
<1> QED BY <1>1, <1>7, <1>8, <1>9, <1>10 DEF HandedOut

-----------------------------------------------------------------------------
(***************************************************************************)
(* The buffer.                                                             *)
(***************************************************************************)
\* The draws in a sequence of samples, and samples in the order of their draws.
IdsOf(q) == {q[n].id : n \in 1 .. Len(q)}

Rising(q) == \A m, n \in 1 .. Len(q) : m < n => q[m].id < q[n].id

LEMMA RisingDiffer ==
    ASSUME NEW q \in Seq(Sample), Rising(q)
    PROVE  /\ \A m, n \in 1 .. Len(q) : q[m].id = q[n].id => m = n
           /\ IsFiniteSet(IdsOf(q)) /\ Cardinality(IdsOf(q)) = Len(q)
           /\ IdsOf(q) \subseteq Nat
<1> DEFINE N == Len(q)
           I == 1 .. N
           f == [n \in I |-> q[n].id]
<1>1. N \in Nat /\ \A n \in I : q[n] \in Sample /\ q[n].id \in Nat BY SampleCosts
<1>2. \A m, n \in I : q[m].id = q[n].id => m = n
  <2> SUFFICES ASSUME NEW m \in I, NEW n \in I, m # n PROVE q[m].id # q[n].id OBVIOUS
  <2>1. q[m].id \in Nat /\ q[n].id \in Nat BY <1>1
  <2>2. m < n \/ n < m BY <1>1
  <2> QED BY <2>1, <2>2 DEF Rising
<1>3. IsFiniteSet(I) /\ Cardinality(I) = N
  <2> HIDE DEF N
  <2> QED BY <1>1, FirstNumbers
<1>4. IdsOf(q) = {f[n] : n \in I} BY DEF IdsOf
<1>8. \A m, n \in I : f[m] = f[n] => m = n BY <1>2
<1>5. IdsOf(q) \subseteq Nat BY <1>1 DEF IdsOf
<1>6. \A m, n \in 1 .. Len(q) : q[m].id = q[n].id => m = n BY <1>2
<1> HIDE DEF f, I
<1>7. IsFiniteSet({f[n] : n \in I}) /\ Cardinality({f[n] : n \in I}) = Cardinality(I) BY <1>3, <1>8, Image
<1> QED BY <1>3, <1>4, <1>5, <1>6, <1>7

\* What is left of a window are the samples that were not taken, in their order.
LEMMA RemainingSamples ==
    ASSUME NEW w, WindowOK(w), NEW taken
    PROVE  /\ Remaining(w, taken) \in Seq(Sample) /\ Rising(Remaining(w, taken))
           /\ \A s : (\E m \in 1 .. Len(Remaining(w, taken)) : Remaining(w, taken)[m] = s)
                         <=> s \in ToSet(w) \ taken
<1> DEFINE N == BufferSize
           Bins == Seq(Sample)
           Keep(q, s) == IF s \in taken THEN q ELSE Append(q, s)
<1>1. <<>> \in Bins OBVIOUS
<1>4. N \in Nat BY Sizes
<1>6. DOMAIN w = 1 .. N /\ \A i \in 1 .. N : w[i] \in Sample BY DEF WindowOK
<1> DEFINE it == CHOOSE iter :
                     iter = [s \in SUBSET (1 .. N) |->
                                IF s = {} THEN <<>>
                                ELSE Keep(iter[s \ {Max(s)}], w[Max(s)])]
           G == [p \in (1 .. N) \X Bins |-> Keep(p[2], w[p[1]])]
<1>7. Remaining(w, taken) = it[1 .. N] BY <1>6 DEF Remaining, FoldLeft, MapThenFoldSet
<1>8. it = [s \in SUBSET (1 .. N) |-> IF s = {} THEN <<>>
                                      ELSE Keep(it[s \ {Max(s)}], w[Max(s)])]
  <2>1. \A i \in 1 .. N, x \in Bins : G[<<i, x>>] = Keep(x, w[i]) /\ G[<<i, x>>] \in Bins
    <3> SUFFICES ASSUME NEW i \in 1 .. N, NEW x \in Bins
                 PROVE  G[<<i, x>>] = Keep(x, w[i]) /\ G[<<i, x>>] \in Bins
      OBVIOUS
    <3>1. G[<<i, x>>] = Keep(x, w[i]) OBVIOUS
    <3> HIDE DEF G
    <3> QED BY <1>6, <3>1
  <2> HIDE DEF G, Bins
  <2>2. PICK h \in [SUBSET (1 .. N) -> Bins] : LeftFoldOf(h, N, <<>>, G)
    BY <1>1, <1>4, <2>1, LeftFoldExists
  <2>3. \A s \in SUBSET (1 .. N) : s # {} => h[s] = Keep(h[s \ {Max(s)}], w[Max(s)])
    <3> SUFFICES ASSUME NEW s \in SUBSET (1 .. N), s # {}
                 PROVE  h[s] = Keep(h[s \ {Max(s)}], w[Max(s)])
      OBVIOUS
    <3>1. Max(s) \in 1 .. N BY LargestOf, <1>4
    <3>2. h[s \ {Max(s)}] \in Bins OBVIOUS
    <3>3. h[s] = G[<<Max(s), h[s \ {Max(s)}]>>] BY <2>2 DEF LeftFoldOf
    <3> QED BY <2>1, <3>1, <3>2, <3>3
  <2>4. h[{}] = <<>>
    <3>1. {} \in SUBSET (1 .. N) OBVIOUS
    <3> QED BY <2>2, <3>1 DEF LeftFoldOf
  <2>5. h = [s \in SUBSET (1 .. N) |-> IF s = {} THEN <<>>
                                       ELSE Keep(h[s \ {Max(s)}], w[Max(s)])]
    BY <2>3, <2>4
  <2> QED BY <2>5
<1> HIDE DEF it
<1> HIDE DEF Keep
<1> DEFINE Good(n) ==
               LET q == it[1 .. n]
               IN  /\ q \in Seq(Sample) /\ Rising(q)
                   /\ \A s : (\E m \in 1 .. Len(q) : q[m] = s)
                                 <=> (\E m \in 1 .. n : w[m] = s) /\ s \notin taken
           T == {n \in 0 .. N : Good(n)}
<1>9. 0 \in T
  <2>1. 1 .. 0 = {} /\ {} \in SUBSET (1 .. N) /\ 0 \in 0 .. N BY <1>4
  <2>2. it[1 .. 0] = <<>> BY <1>8, <2>1
  <2>3. <<>> \in Seq(Sample) /\ 1 .. Len(<<>>) = {} OBVIOUS
  <2>4. Good(0) BY <2>1, <2>2, <2>3 DEF Rising
  <2> QED BY <2>1, <2>4
<1>10. ASSUME NEW n \in 0 .. N - 1, n \in T PROVE n + 1 \in T
  <2>1. /\ n + 1 \in 1 .. N /\ n + 1 \in 0 .. N /\ n + 1 \in Nat \ {0} /\ n \in Nat /\ (n + 1) - 1 = n
        /\ 1 .. n + 1 \in SUBSET (1 .. N) /\ 1 .. n + 1 # {} /\ n + 1 \in 1 .. n + 1
        /\ \A m \in 1 .. n : m \in 1 .. N /\ m \in 1 .. n + 1 /\ m # n + 1 /\ m < n + 1
        /\ \A m \in 1 .. n + 1 : m \in 1 .. n \/ m = n + 1
    BY <1>4, NextNumber
  <2>2. Max(1 .. n + 1) = n + 1 /\ (1 .. n + 1) \ {n + 1} = 1 .. n BY <2>1, LastOfPrefix
  <2> DEFINE q == it[1 .. n]
             x == w[n + 1]
  <2>3. it[1 .. n + 1] = Keep(q, x) BY <1>8, <2>1, <2>2
  <2>4. /\ q \in Seq(Sample) /\ Rising(q)
        /\ \A s : (\E m \in 1 .. Len(q) : q[m] = s) <=> (\E m \in 1 .. n : w[m] = s) /\ s \notin taken
    BY <1>10
  <2>5. x \in Sample BY <1>6, <2>1
  <2> HIDE DEF q
  <2>6. CASE x \in taken
    <3>1. it[1 .. n + 1] = q BY <2>3, <2>6 DEF Keep
    <3>2. \A s : (\E m \in 1 .. n + 1 : w[m] = s) /\ s \notin taken
                     <=> (\E m \in 1 .. n : w[m] = s) /\ s \notin taken
      BY <2>1, <2>6
    <3>3. Good(n + 1) BY <2>4, <3>1, <3>2
    <3> QED BY <2>1, <3>3
  <2>7. CASE x \notin taken
    <3> DEFINE p == Append(q, x)
               k == Len(q)
    <3>1. it[1 .. n + 1] = p BY <2>3, <2>7 DEF Keep
    <3>2. /\ p \in Seq(Sample) /\ Len(p) = k + 1 /\ p[k + 1] = x /\ k \in Nat
          /\ \A m \in 1 .. k : p[m] = q[m]
      BY <2>4, <2>5
    <3>3. \A m \in 1 .. k : q[m].id < x.id
      <4> SUFFICES ASSUME NEW m \in 1 .. k PROVE q[m].id < x.id OBVIOUS
      <4>1. PICK o \in 1 .. n : w[o] = q[m] BY <2>4
      <4>2. o \in 1 .. N /\ o < n + 1 BY <2>1
      <4> QED BY <2>1, <4>1, <4>2 DEF WindowOK
    <3>4. \A m \in 1 .. k + 1 : m \in 1 .. k \/ m = k + 1 BY <3>2
    <3>5. \A m \in 1 .. k : m \in 1 .. k + 1 /\ m < k + 1 /\ ~ k + 1 < m BY <3>2
    <3>6. k + 1 \in 1 .. k + 1 /\ ~ k + 1 < k + 1 BY <3>2
    <3>7. \A m, o \in 1 .. k : m < o => q[m].id < q[o].id BY <2>4 DEF Rising
    <3>8. \A s : (\E m \in 1 .. k : q[m] = s) <=> (\E m \in 1 .. n : w[m] = s) /\ s \notin taken
      BY <2>4
    <3> HIDE DEF p, k
    <3>9. Rising(p)
      <4> SUFFICES ASSUME NEW m \in 1 .. k + 1, NEW o \in 1 .. k + 1, m < o PROVE p[m].id < p[o].id
        BY <3>2 DEF Rising
      <4>1. m \in 1 .. k BY <3>2
      <4>2. CASE o = k + 1 BY <3>2, <3>3, <4>1, <4>2
      <4>3. CASE o \in 1 .. k BY <3>2, <3>7, <4>1, <4>3
      <4> QED BY <3>4, <4>2, <4>3
    <3>10. ASSUME NEW s
           PROVE  (\E m \in 1 .. k + 1 : p[m] = s) <=> (\E m \in 1 .. n + 1 : w[m] = s) /\ s \notin taken
      <4>1. (\E m \in 1 .. k + 1 : p[m] = s) <=> (\E m \in 1 .. k : q[m] = s) \/ s = x
        BY <3>2, <3>4, <3>5, <3>6
      <4>2. (\E m \in 1 .. n + 1 : w[m] = s) <=> (\E m \in 1 .. n : w[m] = s) \/ s = x
        BY <2>1
      <4> QED BY <2>7, <3>8, <4>1, <4>2
    <3>11. Good(n + 1) BY <3>1, <3>2, <3>9, <3>10
    <3> QED BY <2>1, <3>11
  <2> QED BY <2>6, <2>7
<1>11. N \in T
  <2> HIDE DEF T
  <2>1. 0 .. N \subseteq T BY <1>4, <1>9, <1>10, UpTo
  <2> QED BY <1>4, <2>1
<1>12. \A s : s \in ToSet(w) <=> \E m \in 1 .. N : w[m] = s BY <1>6 DEF ToSet
<1> QED BY <1>7, <1>11, <1>12

\* A window: no draw of it was handed out before, and it goes on where the buffer ended.
Continues(w) ==
    /\ WindowOK(w)
    /\ emitted \cup IdsOf(w) = 0 .. next_draw_id + Missing - 1
    /\ emitted \cap IdsOf(w) = {}

\* No sample that waits is above a limit by itself.
EachFits(q) == \A n \in 1 .. Len(q) : ~Oversize(q[n])

Waiting ==
    /\ TypeOK
    /\ emitted \cup IdsOf(buffer) = 0 .. next_draw_id - 1
    /\ emitted \cap IdsOf(buffer) = {}
    /\ Rising(buffer)
    /\ EachFits(buffer)

LEMMA RefilledContinues ==
    ASSUME Waiting, NEW costs \in [1 .. Missing -> Costs], \A n \in 1 .. Missing : ~Oversize(costs[n])
    PROVE  Continues(Refilled(costs))
<1> DEFINE L == Len(buffer)
           M == Missing
           new == [n \in 1 .. M |-> [id      |-> next_draw_id + n - 1,
                                     tokens  |-> costs[n].tokens,
                                     patches |-> costs[n].patches]]
           w == Refilled(costs)
<1>1. /\ buffer \in Seq(Sample) /\ L \in Nat /\ next_draw_id \in Nat /\ BufferSize \in Nat
      /\ L <= BufferSize
  <2>1. buffer \in Seq(Sample) /\ next_draw_id \in Nat /\ Len(buffer) <= BufferSize - World * LocalMin
    BY DEF Waiting, TypeOK
  <2>2. L \in Nat BY <2>1
  <2>3. World * LocalMin \in Nat /\ BufferSize \in Nat BY Sizes
  <2> HIDE DEF L
  <2>4. L <= BufferSize - World * LocalMin BY <2>1 DEF L
  <2> QED BY <2>1, <2>2, <2>3, <2>4
<1>2. M \in Nat /\ L + M = BufferSize BY <1>1 DEF Missing
<1>3. \A n \in 1 .. M : /\ new[n] \in Sample /\ new[n].id = next_draw_id + n - 1 /\ ~Oversize(new[n])
  <2> SUFFICES ASSUME NEW n \in 1 .. M
               PROVE  new[n] \in Sample /\ new[n].id = next_draw_id + n - 1 /\ ~Oversize(new[n])
    OBVIOUS
  <2>1. costs[n] \in [tokens : Nat, patches : Nat] BY CostAssumption
  <2>2. new[n] = [id |-> next_draw_id + n - 1, tokens |-> costs[n].tokens, patches |-> costs[n].patches]
    OBVIOUS
  <2>3. next_draw_id + n - 1 \in Nat BY <1>1, <1>2
  <2>4. costs[n].tokens \in Nat /\ costs[n].patches \in Nat BY <2>1
  <2>5. ~Oversize(costs[n]) OBVIOUS
  <2> HIDE DEF new, M
  <2>6. new[n] \in Sample BY <2>2, <2>3, <2>4 DEF Sample
  <2>7. new[n].tokens = costs[n].tokens /\ new[n].patches = costs[n].patches
        /\ new[n].id = next_draw_id + n - 1
    BY <2>2
  <2>8. ~Oversize(new[n]) BY <2>5, <2>7 DEF Oversize
  <2> QED BY <2>6, <2>7, <2>8
<1>4. new \in Seq(Sample) /\ Len(new) = M
  <2>1. new = [n \in 1 .. M |-> new[n]] OBVIOUS
  <2> HIDE DEF new, M
  <2>2. new \in [1 .. M -> Sample] BY <1>3, <2>1
  <2> QED BY <1>2, <2>2
<1>5. w = buffer \o new BY DEF Refilled
<1> HIDE DEF new, w, M, L
<1>6. /\ w \in Seq(Sample) /\ Len(w) = BufferSize
      /\ \A n \in 1 .. L : w[n] = buffer[n]
      /\ \A n \in 1 .. M : w[L + n] = new[n]
  BY <1>1, <1>2, <1>4, <1>5 DEF L
<1>7. \A n \in 1 .. BufferSize : n \in 1 .. L \/ (n - L \in 1 .. M /\ n = L + (n - L))
  BY <1>1, <1>2
<1>8. \A n \in 1 .. L : n \in 1 .. BufferSize BY <1>1
<1>9. \A n \in 1 .. M : L + n \in 1 .. BufferSize BY <1>1, <1>2
<1>10. \A n \in 1 .. L : /\ buffer[n].id \in 0 .. next_draw_id - 1
                          /\ buffer[n].id \notin emitted
  <2>1. \A n \in 1 .. L : buffer[n].id \in IdsOf(buffer) BY DEF IdsOf, L
  <2> QED BY <2>1 DEF Waiting
<1>11. ASSUME NEW m \in 1 .. BufferSize, NEW n \in 1 .. BufferSize, m < n PROVE w[m].id < w[n].id
  <2>1. CASE n \in 1 .. L
    <3>1. m \in 1 .. L BY <1>1, <1>11, <2>1
    <3>2. buffer[m].id < buffer[n].id BY <1>11, <2>1, <3>1 DEF Waiting, Rising, L
    <3> QED BY <1>6, <2>1, <3>1, <3>2
  <2>2. CASE n - L \in 1 .. M /\ n = L + (n - L)
    <3>1. w[n].id = next_draw_id + (n - L) - 1 BY <1>3, <1>6, <2>2
    <3>2. CASE m \in 1 .. L
      <4>1. w[m].id \in 0 .. next_draw_id - 1 BY <1>6, <1>10, <3>2
      <4> QED BY <1>1, <1>2, <2>2, <3>1, <4>1, SMTT(30)
    <3>3. CASE m - L \in 1 .. M /\ m = L + (m - L)
      <4>1. w[m].id = next_draw_id + (m - L) - 1 BY <1>3, <1>6, <3>3
      <4> QED BY <1>1, <1>2, <1>11, <3>1, <4>1
    <3> QED BY <1>7, <3>2, <3>3
  <2> QED BY <1>7, <2>1, <2>2
<1>12. ASSUME NEW n \in 1 .. BufferSize PROVE ~Oversize(w[n])
  <2>1. CASE n \in 1 .. L BY <1>6, <2>1 DEF Waiting, EachFits, L
  <2>2. CASE n - L \in 1 .. M /\ n = L + (n - L) BY <1>3, <1>6, <2>2
  <2> QED BY <1>7, <2>1, <2>2
<1>13. IdsOf(w) = IdsOf(buffer) \cup (next_draw_id .. next_draw_id + M - 1)
  <2>1. ASSUME NEW n \in 1 .. BufferSize
        PROVE  w[n].id \in IdsOf(buffer) \cup (next_draw_id .. next_draw_id + M - 1)
    <3>1. CASE n \in 1 .. L BY <1>6, <3>1 DEF IdsOf, L
    <3>2. CASE n - L \in 1 .. M /\ n = L + (n - L)
      <4>1. w[n].id = next_draw_id + (n - L) - 1 BY <1>3, <1>6, <3>2
      <4> QED BY <1>1, <1>2, <3>2, <4>1
    <3> QED BY <1>7, <3>1, <3>2
  <2>2. ASSUME NEW d \in IdsOf(buffer) PROVE d \in IdsOf(w)
    <3>1. PICK n \in 1 .. L : d = buffer[n].id BY DEF IdsOf, L
    <3> QED BY <1>6, <1>8, <3>1 DEF IdsOf
  <2>3. ASSUME NEW d \in next_draw_id .. next_draw_id + M - 1 PROVE d \in IdsOf(w)
    <3>1. d - next_draw_id + 1 \in 1 .. M /\ next_draw_id + (d - next_draw_id + 1) - 1 = d BY <1>1, <1>2
    <3>2. d = w[L + (d - next_draw_id + 1)].id BY <1>3, <1>6, <3>1
    <3> QED BY <1>6, <1>9, <3>1, <3>2 DEF IdsOf
  <2>4. \A d : d \in IdsOf(w) <=> \E n \in 1 .. BufferSize : d = w[n].id BY <1>6 DEF IdsOf
  <2> QED BY <2>1, <2>2, <2>3, <2>4
<1>14. 0 .. next_draw_id - 1 \cup (next_draw_id .. next_draw_id + M - 1) = 0 .. next_draw_id + M - 1
  BY <1>1, <1>2
<1>15. (0 .. next_draw_id - 1) \cap (next_draw_id .. next_draw_id + M - 1) = {} BY <1>1
<1>16. emitted \cup IdsOf(buffer) = 0 .. next_draw_id - 1 /\ emitted \cap IdsOf(buffer) = {} BY DEF Waiting
<1>17. emitted \cup IdsOf(w) = 0 .. next_draw_id + M - 1 BY <1>13, <1>14, <1>16
<1>18. emitted \cap IdsOf(w) = {} BY <1>13, <1>15, <1>16
<1>19. WindowOK(w) BY <1>6, <1>11, <1>12 DEF WindowOK
<1> QED BY <1>17, <1>18, <1>19 DEF Continues, M, w

\* After a plan was handed out of a window.
Handed(packs, taken, w) ==
    /\ HandedOut(packs, taken, w)
    /\ Emit(w, packs, taken)
    /\ mode' = mode /\ window' = w /\ search' \in {"none", "found", "failed", "gave_up"}
    /\ microstep < MaxMicrostep

LEMMA TakenDraws ==
    ASSUME NEW w, Continues(w), NEW taken \in SUBSET ToSet(w), Waiting
    PROVE  LET ids == {s.id : s \in taken}
               kept == Remaining(w, taken)
           IN  /\ IsFiniteSet(ids) /\ Cardinality(ids) = Cardinality(taken) /\ Cardinality(taken) \in Nat
               /\ ids \subseteq IdsOf(w)
               /\ kept \in Seq(Sample) /\ Rising(kept) /\ EachFits(kept)
               /\ IdsOf(kept) = IdsOf(w) \ ids
               /\ Len(kept) = BufferSize - Cardinality(taken)
<1> DEFINE ids == {s.id : s \in taken}
           kept == Remaining(w, taken)
           S == ToSet(w)
           f == [s \in taken |-> s.id]
<1>1. /\ WindowOK(w) /\ w \in Seq(Sample) /\ Len(w) = BufferSize /\ Rising(w)
  BY DEF Continues, WindowOK, Rising
<1>2. /\ Batch(S) /\ S = {w[n] : n \in 1 .. BufferSize}
      /\ \A s, t \in S : s.id = t.id => s = t
      /\ \A s \in S : ~Oversize(s)
  BY <1>1, WindowSet
<1>3. IdsOf(w) = {s.id : s \in S} BY <1>1, <1>2 DEF IdsOf
<1>4. IsFiniteSet(taken) /\ Cardinality(taken) \in Nat BY <1>2, FS_Subset, FS_CardinalityType DEF Batch
<1>5. ids = {f[s] : s \in taken} OBVIOUS
<1>6. \A s, t \in taken : f[s] = f[t] => s = t BY <1>2
<1>7. ids \subseteq IdsOf(w) BY <1>3
<1>8. /\ kept \in Seq(Sample) /\ Rising(kept)
      /\ \A s : (\E m \in 1 .. Len(kept) : kept[m] = s) <=> s \in S \ taken
  BY <1>1, RemainingSamples
<1> HIDE DEF f, kept, S
<1>9. IsFiniteSet(ids) /\ Cardinality(ids) = Cardinality(taken)
  <2>1. /\ IsFiniteSet({f[s] : s \in taken})
        /\ Cardinality({f[s] : s \in taken}) = Cardinality(taken)
    BY <1>4, <1>6, Image
  <2> QED BY <1>5, <2>1
<1>10. IdsOf(kept) = {s.id : s \in S \ taken} BY <1>8 DEF IdsOf
<1>11. IdsOf(kept) = IdsOf(w) \ ids
  <2>2. \A d : d \in IdsOf(w) <=> \E s \in S : d = s.id BY <1>3
  <2>3. \A d : d \in IdsOf(kept) <=> \E s \in S \ taken : d = s.id BY <1>10
  <2>4. \A d : d \in ids <=> \E s \in taken : d = s.id OBVIOUS
  <2>5. \A t \in taken : t \in S BY DEF S
  <2> HIDE DEF ids
  <2>6. \A d : d \in IdsOf(kept) <=> d \in IdsOf(w) /\ d \notin ids BY <1>2, <2>2, <2>3, <2>4, <2>5
  <2> QED BY <2>6
<1>12. EachFits(kept) BY <1>2, <1>8 DEF EachFits
<1> HIDE DEF ids
<1>13. Len(kept) = BufferSize - Cardinality(taken)
  <2>1. IsFiniteSet(IdsOf(kept)) /\ Cardinality(IdsOf(kept)) = Len(kept) BY <1>8, RisingDiffer
  <2>2. Cardinality(IdsOf(w)) = BufferSize BY <1>1, RisingDiffer
  <2>3. IdsOf(kept) \cap ids = {} /\ IdsOf(kept) \cup ids = IdsOf(w) BY <1>7, <1>11
  <2>4. /\ Cardinality(IdsOf(kept)) \in Nat /\ Cardinality(ids) \in Nat
        /\ Cardinality(IdsOf(kept) \cup ids) = Cardinality(IdsOf(kept)) + Cardinality(ids)
    BY <1>9, <2>1, <2>3, Apart
  <2>5. BufferSize \in Nat BY Sizes
  <2>6. BufferSize = Len(kept) + Cardinality(taken) BY <1>9, <2>1, <2>2, <2>3, <2>4
  <2> QED BY <1>9, <2>1, <2>4, <2>5, <2>6
<1> QED BY <1>4, <1>7, <1>8, <1>9, <1>11, <1>12, <1>13 DEF ids, kept

PlannerInv == Waiting /\ WithinBudget

LEMMA HandedKeeps ==
    ASSUME PlannerInv, NEW w, Continues(w), NEW packs, NEW taken, Handed(packs, taken, w)
    PROVE  PlannerInv'
<1> DEFINE ids == {s.id : s \in taken}
           kept == Remaining(w, taken)
<1>1. /\ packs \in [DataRanks -> SUBSET SUBSET ToSet(w)] /\ Budgeted(packs)
      /\ taken \in SUBSET ToSet(w) /\ Cardinality(taken) >= World * LocalMin
  BY DEF Handed, HandedOut
<1>2. /\ plan' = packs /\ microstep' = microstep + 1 /\ next_draw_id' = next_draw_id + Missing
      /\ buffer' = kept /\ emitted' = emitted \cup ids /\ raised' = FALSE
      /\ mode' = mode /\ window' = w /\ search' \in {"none", "found", "failed", "gave_up"}
      /\ microstep < MaxMicrostep
  BY DEF Handed, Emit
<1>3. /\ IsFiniteSet(ids) /\ Cardinality(ids) = Cardinality(taken) /\ Cardinality(taken) \in Nat
      /\ ids \subseteq IdsOf(w)
      /\ kept \in Seq(Sample) /\ Rising(kept) /\ EachFits(kept)
      /\ IdsOf(kept) = IdsOf(w) \ ids
      /\ Len(kept) = BufferSize - Cardinality(taken)
  BY <1>1, TakenDraws DEF PlannerInv
<1>4. /\ WindowOK(w) /\ w \in Seq(Sample) /\ emitted \cup IdsOf(w) = 0 .. next_draw_id + Missing - 1
      /\ emitted \cap IdsOf(w) = {} /\ ToSet(w) \in SUBSET Sample
  BY WindowSet DEF Continues, WindowOK, Batch
<1>5. TypeOK BY DEF PlannerInv, Waiting
<1>6. Missing \in Nat
  <2>1. buffer \in Seq(Sample) /\ Len(buffer) <= BufferSize - World * LocalMin BY <1>5 DEF TypeOK
  <2>2. World * LocalMin \in Nat /\ BufferSize \in Nat BY Sizes
  <2>3. Len(buffer) \in Nat BY <2>1
  <2> QED BY <2>1, <2>2, <2>3 DEF Missing
<1> HIDE DEF ids, kept
<1>7. IdsOf(w) \subseteq Nat /\ emitted \subseteq Nat /\ next_draw_id \in Nat
  <2>1. next_draw_id \in Nat BY <1>5 DEF TypeOK
  <2>2. 0 .. next_draw_id + Missing - 1 \subseteq Nat BY <1>6, <2>1
  <2> QED BY <1>4, <2>1, <2>2
<1>8. TypeOK'
  <2>1. mode' \in Modes /\ microstep' \in 0 .. MaxMicrostep
    <3>1. mode \in Modes /\ microstep \in 0 .. MaxMicrostep BY <1>5 DEF TypeOK
    <3> QED BY <1>2, <3>1, BoundAssumption
  <2>2. next_draw_id' \in Nat /\ emitted' \subseteq Nat
    <3>1. emitted \cup ids \subseteq Nat BY <1>3, <1>7
    <3> QED BY <1>2, <1>6, <1>7, <3>1
  <2>3. buffer' \in Seq(Sample) BY <1>2, <1>3
  <2>4. Len(buffer') <= BufferSize - World * LocalMin
    <3>1. World * LocalMin \in Nat /\ BufferSize \in Nat BY Sizes
    <3> QED BY <1>1, <1>2, <1>3, <3>1
  <2>5. LocalMin' = LocalMin BY <1>2 DEF LocalMin
  <2>6. packs \in [DataRanks -> SUBSET SUBSET Sample]
    <3>1. SUBSET SUBSET ToSet(w) \in SUBSET SUBSET SUBSET Sample BY <1>4
    <3> QED BY <1>1, <3>1
  <2>7. window' \in Seq(Sample) /\ plan' \in [DataRanks -> SUBSET SUBSET Sample] BY <1>2, <1>4, <2>6
  <2> QED BY <1>2, <2>1, <2>2, <2>3, <2>4, <2>5, <2>7 DEF TypeOK
<1>9. (emitted \cup IdsOf(buffer) = 0 .. next_draw_id - 1)'
  <2>1. (emitted \cup ids) \cup IdsOf(kept) = emitted \cup IdsOf(w) BY <1>3
  <2>2. next_draw_id + Missing - 1 = next_draw_id' - 1 BY <1>2, <1>6, <1>7
  <2>3. IdsOf(buffer)' = IdsOf(kept) BY <1>2 DEF IdsOf
  <2>4. emitted' \cup IdsOf(kept) = 0 .. next_draw_id' - 1 BY <1>2, <1>4, <2>1, <2>2
  <2> QED BY <2>3, <2>4
<1>10. (emitted \cap IdsOf(buffer) = {})'
  <2>1. (emitted \cup ids) \cap IdsOf(kept) = {} BY <1>3, <1>4
  <2> QED BY <1>2, <2>1 DEF IdsOf
<1>11. Rising(buffer)' BY <1>2, <1>3 DEF Rising
<1>12. EachFits(buffer)'
  <2>1. \A n \in 1 .. Len(kept) : ~Oversize(kept[n]) BY <1>3 DEF EachFits
  <2> QED BY <1>2, <2>1 DEF EachFits, Oversize, Bounded, LocalMin
<1>13. WithinBudget'
  <2>1. Bounded' = Bounded /\ LocalMin' = LocalMin BY <1>2 DEF Bounded, LocalMin
  <2> QED BY <1>1, <1>2, <2>1, ZenonT(30) DEF WithinBudget, Budgeted
<1> QED BY <1>8, <1>9, <1>10, <1>11, <1>12, <1>13 DEF PlannerInv, Waiting

LEMMA StreamCounts ==
    ASSUME NEW S
    PROVE  Stream!Cardinality(S) = Cardinality(S)
BY DEF Stream!Cardinality, Cardinality

\* The same step, seen as one of the stream.
LEMMA HandedEmits ==
    ASSUME PlannerInv, NEW w, Continues(w), NEW packs, NEW taken, Handed(packs, taken, w)
    PROVE  Stream!Emit
<1> DEFINE ids == {s.id : s \in taken}
<1>1. /\ taken \in SUBSET ToSet(w) /\ w[1] \in taken /\ Cardinality(taken) >= World * LocalMin
      /\ microstep' = microstep + 1 /\ emitted' = emitted \cup ids
  BY DEF Handed, HandedOut, Emit
<1>2. Waiting BY DEF PlannerInv
<1>3. /\ IsFiniteSet(ids) /\ Cardinality(ids) = Cardinality(taken) /\ Cardinality(taken) \in Nat
      /\ ids \subseteq IdsOf(w)
  BY <1>1, <1>2, TakenDraws
<1>4. w[1].id \in ids BY <1>1
<1>5. /\ WindowOK(w) /\ w \in Seq(Sample) /\ Len(w) = BufferSize /\ Rising(w)
      /\ emitted \cup IdsOf(w) = 0 .. next_draw_id + Missing - 1
      /\ emitted \cap IdsOf(w) = {}
  BY DEF Continues, WindowOK, Rising
<1> HIDE DEF ids
<1>6. emitted' \ emitted = ids BY <1>1, <1>3, <1>5
<1>7. Cardinality(ids) \in World .. BufferSize
  <2>1. IsFiniteSet(IdsOf(w)) /\ Cardinality(IdsOf(w)) = BufferSize BY <1>5, RisingDiffer
  <2>2. Cardinality(ids) <= BufferSize BY <1>3, <2>1, FS_Subset
  <2>3. World * LocalMin \in Nat /\ World \in Nat /\ BufferSize \in Nat /\ World <= World * LocalMin
    BY Sizes
  <2> QED BY <1>1, <1>3, <2>2, <2>3
<1>13. BufferSize \in Nat /\ next_draw_id \in Nat /\ Missing \in Int
  <2>1. BufferSize \in Nat /\ next_draw_id \in Nat /\ buffer \in Seq(Sample)
    BY <1>2, Sizes DEF Waiting, TypeOK
  <2>2. Len(buffer) \in Nat BY <2>1
  <2> QED BY <2>1, <2>2 DEF Missing
<1>8. Cardinality(emitted) \in Nat /\ Cardinality(emitted) + BufferSize = next_draw_id + Missing
  <2>1. /\ next_draw_id \in Nat /\ buffer \in Seq(Sample) /\ Rising(buffer)
        /\ emitted \cup IdsOf(buffer) = 0 .. next_draw_id - 1 /\ emitted \cap IdsOf(buffer) = {}
    BY <1>2 DEF Waiting, TypeOK
  <2>2. IsFiniteSet(IdsOf(buffer)) /\ Cardinality(IdsOf(buffer)) = Len(buffer) BY <2>1, RisingDiffer
  <2>3. IsFiniteSet(0 .. next_draw_id - 1) /\ Cardinality(0 .. next_draw_id - 1) = next_draw_id
    <3>1. 0 \in Int /\ next_draw_id - 1 \in Int BY <2>1
    <3>2. CASE next_draw_id = 0
      <4>1. 0 .. next_draw_id - 1 = {} BY <3>2
      <4> QED BY <3>2, <4>1, FS_EmptySet
    <3>3. CASE next_draw_id > 0
      <4>1. /\ IsFiniteSet(0 .. next_draw_id - 1)
            /\ Cardinality(0 .. next_draw_id - 1) =
                   IF 0 > next_draw_id - 1 THEN 0 ELSE next_draw_id - 1 - 0 + 1
        BY <3>1, FS_Interval
      <4> QED BY <2>1, <3>3, <4>1
    <3> QED BY <2>1, <3>2, <3>3
  <2>4. emitted \in SUBSET (0 .. next_draw_id - 1) BY <2>1
  <2>5. IsFiniteSet(emitted) BY <2>3, <2>4, FS_Subset
  <2>6. /\ Cardinality(emitted) \in Nat
        /\ Cardinality(emitted \cup IdsOf(buffer)) = Cardinality(emitted) + Cardinality(IdsOf(buffer))
    BY <2>1, <2>2, <2>5, Apart
  <2>7. Len(buffer) \in Nat BY <2>1
  <2>8. Cardinality(emitted) + Len(buffer) = next_draw_id BY <2>1, <2>2, <2>3, <2>6
  <2>9. Missing = BufferSize - Len(buffer) BY DEF Missing
  <2> QED BY <1>13, <2>6, <2>7, <2>8, <2>9
<1>9. ids \subseteq Stream!Visible
  <2>1. next_draw_id + Missing - 1 = Cardinality(emitted) + BufferSize - 1 BY <1>8, <1>13
  <2> QED BY <1>3, <1>5, <2>1, StreamCounts DEF Stream!Visible
<1>10. 0 .. w[1].id - 1 \subseteq emitted
  <2> SUFFICES ASSUME NEW d \in 0 .. w[1].id - 1 PROVE d \in emitted OBVIOUS
  <2>1. w[1].id \in 0 .. next_draw_id + Missing - 1 BY <1>3, <1>4, <1>5
  <2>2. w[1].id \in Int /\ d \in 0 .. next_draw_id + Missing - 1 /\ d < w[1].id BY <1>13, <2>1
  <2>3. d \notin IdsOf(w)
    <3>1. \A n \in 1 .. Len(w) : n = 1 \/ 1 < n BY <1>5
    <3>2. \A n \in 1 .. Len(w) : 1 \in 1 .. Len(w) /\ w[n].id \in Nat BY <1>5, SampleCosts
    <3>3. \A n \in 1 .. Len(w) : n = 1 \/ w[1].id < w[n].id BY <1>5, <3>1, <3>2 DEF Rising
    <3>4. \A n \in 1 .. Len(w) : w[n].id # d BY <2>2, <3>2, <3>3
    <3> QED BY <3>4 DEF IdsOf
  <2> QED BY <1>5, <2>2, <2>3
<1>11. \E oldest \in ids : 0 .. oldest - 1 \subseteq emitted BY <1>4, <1>10
<1>12. emitted \subseteq emitted' BY <1>1
<1> QED BY <1>1, <1>6, <1>7, <1>9, <1>11, <1>12, StreamCounts DEF Stream!Emit


-----------------------------------------------------------------------------
(***************************************************************************)
(* Every call.                                                             *)
(***************************************************************************)
\* A call hands out a plan of a window, or it raises.
HandsOut == \E w, packs, taken : Continues(w) /\ Handed(packs, taken, w)

GivesUp ==
    /\ UNCHANGED <<mode, microstep, next_draw_id, buffer, emitted, plan>>
    /\ window' \in Seq(Sample)
    /\ search' \in {"none", "found", "failed", "gave_up"} /\ raised' \in BOOLEAN

LEMMA CallHandsOut ==
    ASSUME PlannerInv, Next
    PROVE  HandsOut \/ GivesUp
<1>1. mode' = mode /\ microstep < MaxMicrostep BY DEF Next
<1>2. PICK costs \in [1 .. Missing -> Costs] : RefuseSample(costs) \/ PlanWindow(costs) BY DEF Next
<1>3. CASE RefuseSample(costs)
  <2>1. <<>> \in Seq(Sample) OBVIOUS
  <2> QED BY <1>1, <1>3, <2>1 DEF RefuseSample, Raise, GivesUp
<1>4. CASE PlanWindow(costs)
  <2> DEFINE w == Refilled(costs)
  <2>1. window' = w /\ \A n \in 1 .. Missing : ~Oversize(costs[n]) BY <1>4 DEF PlanWindow
  <2>2. Continues(w) BY <2>1, RefilledContinues DEF PlannerInv
  <2>3. WindowOK(w) /\ w \in Seq(Sample) BY <2>2 DEF Continues, WindowOK
  <2>20. mode \in Modes
    <3>1. TypeOK BY DEF PlannerInv, Waiting
    <3> QED BY <3>1 DEF TypeOK
  <2>4. ASSUME NEW bins, Binned(bins, w), mode = "fixed" => Complete(bins), Bounded,
               Advance(w, bins), search' \in {"none", "found", "failed", "gave_up"}
        PROVE  HandsOut
    <3> DEFINE packs == [r \in DataRanks |-> {{s} : s \in bins[r]}]
    <3>1. HandedOut(packs, Selected(bins), w) BY <2>3, <2>4, BinnedHandedOut
    <3>2. Emit(w, packs, Selected(bins)) BY <2>4 DEF Advance
    <3> HIDE DEF packs, w
    <3>3. Handed(packs, Selected(bins), w) BY <1>1, <2>1, <2>4, <3>1, <3>2 DEF Handed
    <3> QED BY <2>2, <3>3 DEF HandsOut
  <2>5. ASSUME Raise, search' \in {"none", "found", "failed", "gave_up"} PROVE GivesUp
    BY <1>1, <2>1, <2>3, <2>5 DEF Raise, GivesUp
  <2>6. ASSUME NEW bins, Binned(bins, w), Bounded, Settle(w, bins),
               search' \in {"none", "found", "failed", "gave_up"}
        PROVE  HandsOut \/ GivesUp
    <3> HIDE DEF w
    <3>1. CASE mode = "fixed" /\ ~ Complete(bins)
      <4>1. Raise BY <2>6, <3>1 DEF Settle
      <4> QED BY <2>5, <2>6, <4>1
    <3>2. CASE ~(mode = "fixed" /\ ~ Complete(bins))
      <4>1. Advance(w, bins) BY <2>6, <3>2 DEF Settle
      <4> QED BY <2>4, <2>6, <3>2, <4>1
    <3> QED BY <3>1, <3>2
  <2>7. CASE Bounded
    <3>1. PICK bins \in Greedy(w) :
                 \/ PlanFast(w, bins)
                 \/ PlanPartition(w, bins)
                 \/ PlanWithoutPartition(w, bins)
                 \/ PlanAfterGivingUp(w, bins)
      BY <1>4, <2>1, <2>7 DEF PlanWindow
    <3>2. Binned(bins, w) BY <2>3, <2>7, GreedyBinned
    <3> HIDE DEF w
    <3>3. CASE PlanPartition(w, bins)
      <4>1. PICK full \in Partitions(w) : Advance(w, full) BY <3>3 DEF PlanPartition
      <4>2. Binned(full, w) /\ Complete(full) BY <2>3, PartitionBinned
      <4>3. search' = "found" BY <3>3 DEF PlanPartition
      <4> QED BY <2>4, <2>7, <4>1, <4>2, <4>3
    <3>4. CASE PlanFast(w, bins) \/ PlanWithoutPartition(w, bins) \/ PlanAfterGivingUp(w, bins)
      <4>1. Settle(w, bins) /\ search' \in {"none", "found", "failed", "gave_up"}
        BY <3>4 DEF PlanFast, PlanWithoutPartition, PlanAfterGivingUp
      <4> QED BY <2>6, <2>7, <3>2, <4>1
    <3> QED BY <3>1, <3>3, <3>4
  <2>8. CASE ~Bounded
    <3>1. PlanLength(w) \/ PlanLengthGivingUp BY <1>4, <2>1, <2>8 DEF PlanWindow
    <3>2. CASE PlanLengthGivingUp BY <2>5, <3>2 DEF PlanLengthGivingUp
    <3>3. CASE PlanLength(w)
      <4>1. search' = "none" BY <3>3 DEF PlanLength
      <4>2. CASE LengthPlans(w, mode = "packed") = {}
        <5>1. Raise BY <3>3, <4>2 DEF PlanLength
        <5> QED BY <2>5, <4>1, <5>1
      <4>3. CASE LengthPlans(w, mode = "packed") # {}
        <5>1. PICK dealt \in LengthPlans(w, mode = "packed") :
                     Emit(w, dealt, UNION UNION {dealt[r] : r \in DataRanks})
          BY <3>3, <4>3 DEF PlanLength
        <5>2. PICK packs \in IF mode = "packed" THEN Packed(w) ELSE {Chunk(w)} :
                     dealt \in Assignments(packs)
          BY <5>1 DEF LengthPlans
        <5>3. PacksOf(packs, w) BY <2>3, <2>8, <2>20, <5>2, PackedPacks, ChunkPacks
        <5>4. HandedOut(dealt, UNION UNION {dealt[r] : r \in DataRanks}, w)
          BY <2>3, <2>8, <5>2, <5>3, DealtHandedOut
        <5>5. Handed(dealt, UNION UNION {dealt[r] : r \in DataRanks}, w)
          BY <1>1, <2>1, <4>1, <5>1, <5>4 DEF Handed
        <5> QED BY <2>2, <5>5 DEF HandsOut
      <4> QED BY <4>2, <4>3
    <3> QED BY <3>1, <3>2, <3>3
  <2> QED BY <2>7, <2>8
<1> QED BY <1>2, <1>3, <1>4

LEMMA PlannerStarts ==
    ASSUME Init
    PROVE  PlannerInv
<1>1. /\ mode \in Modes /\ microstep = 0 /\ next_draw_id = 0 /\ buffer = <<>> /\ emitted = {}
      /\ window = <<>> /\ plan = <<>> /\ search = "none" /\ raised = FALSE
  BY DEF Init
<1>2. TypeOK
  <2>1. microstep \in 0 .. MaxMicrostep BY <1>1, BoundAssumption
  <2>2. Len(buffer) <= BufferSize - World * LocalMin
    <3>1. Len(<<>>) = 0 OBVIOUS
    <3>2. BufferSize \in Nat BY Sizes
    <3>3. World * LocalMin \in Nat /\ World * LocalMin <= BufferSize BY <1>1, Roomy
    <3> QED BY <1>1, <3>1, <3>2, <3>3
  <2>3. buffer \in Seq(Sample) /\ window \in Seq(Sample) BY <1>1
  <2> QED BY <1>1, <2>1, <2>2, <2>3 DEF TypeOK
<1>3. Len(buffer) = 0 /\ 1 .. Len(buffer) = {} BY <1>1
<1>4. IdsOf(buffer) = {} BY <1>3 DEF IdsOf
<1>5. 0 .. next_draw_id - 1 = {} BY <1>1
<1>6. Rising(buffer) /\ EachFits(buffer) BY <1>3 DEF Rising, EachFits
<1>7. WithinBudget BY <1>1 DEF WithinBudget
<1> QED BY <1>1, <1>2, <1>4, <1>5, <1>6, <1>7 DEF PlannerInv, Waiting

\* A call that raises, and a step that is none, leave the planner's state as it was.
LEMMA RaisedKeeps ==
    ASSUME PlannerInv, GivesUp
    PROVE  PlannerInv'
<1> USE DEF GivesUp
<1>1. TypeOK' BY DEF PlannerInv, Waiting, TypeOK, LocalMin
<1>2. (emitted \cup IdsOf(buffer) = 0 .. next_draw_id - 1)' /\ (emitted \cap IdsOf(buffer) = {})'
  BY DEF PlannerInv, Waiting, IdsOf
<1>3. Rising(buffer)' /\ EachFits(buffer)'
  BY DEF PlannerInv, Waiting, Rising, EachFits, Oversize, Bounded, LocalMin
<1>4. WithinBudget' BY ZenonT(30) DEF PlannerInv, WithinBudget, Bounded, LocalMin
<1> QED BY <1>1, <1>2, <1>3, <1>4 DEF PlannerInv, Waiting

LEMMA PlannerKeeps ==
    ASSUME PlannerInv, [Next]_vars
    PROVE  PlannerInv' /\ [Stream!Next]_Stream!vars
<1>1. CASE UNCHANGED vars
  <2>1. TypeOK BY DEF PlannerInv, Waiting
  <2>2. GivesUp BY <1>1, <2>1 DEF vars, TypeOK, GivesUp
  <2> QED BY <1>1, <2>2, RaisedKeeps DEF vars, Stream!vars
<1>2. CASE Next
  <2>1. CASE HandsOut
    <3>1. PICK w, packs, taken : Continues(w) /\ Handed(packs, taken, w) BY <2>1 DEF HandsOut
    <3> QED BY <3>1, HandedKeeps, HandedEmits DEF Stream!Next
  <2>2. CASE GivesUp BY <2>2, RaisedKeeps DEF GivesUp, Stream!vars
  <2> QED BY <1>2, <2>1, <2>2, CallHandsOut
<1> QED BY <1>1, <1>2

\* What is known between two calls: the shape of the state, which draws were handed out and which
\* wait, in their order, that none that waits is above a limit alone, and what the last plan is.
THEOREM PlannerInvariant == Spec => []PlannerInv
<1>1. Init => PlannerInv BY PlannerStarts
<1>2. PlannerInv /\ [Next]_vars => PlannerInv' BY PlannerKeeps
<1> QED BY <1>1, <1>2, PTL DEF Spec

\* The state keeps its shape, and the buffer has room for the samples of a call.
THEOREM PlannerTyped == Spec => []TypeOK
<1>1. PlannerInv => TypeOK BY DEF PlannerInv, Waiting
<1> QED BY <1>1, PlannerInvariant, PTL

\* No draw is lost or repeated, whatever the greedy placement, the search for a full plan and the
\* packing choose, and whenever a call raises.
THEOREM EveryDrawOnce == Spec => []DrawsConserved
<1>1. PlannerInv => DrawsConserved BY DEF PlannerInv, Waiting, IdsOf, Rising, DrawsConserved
<1> QED BY <1>1, PlannerInvariant, PTL

\* Budgets are hard limits, of every plan of every grouping.
THEOREM BudgetsAreHard == Spec => []WithinBudget
<1>1. PlannerInv => WithinBudget BY DEF PlannerInv
<1> QED BY <1>1, PlannerInvariant, PTL

\* The planner implements the stream that batch planning promises: a call takes the oldest sample,
\* as many as there are ranks or more, and none from beyond the window.
THEOREM PlannerIsStream == Spec => ImplementsStream
<1>1. Init => Stream!Init BY DEF Init, Stream!Init
<1>2. PlannerInv /\ [Next]_vars => [Stream!Next]_Stream!vars BY PlannerKeeps
<1> QED BY <1>1, <1>2, PlannerInvariant, PTL DEF Spec, ImplementsStream, Stream!Spec


-----------------------------------------------------------------------------
(***************************************************************************)
(* The search for a full plan, and the shortcut before it.                 *)
(***************************************************************************)
\* Full batches, one of them with the oldest sample.
FullBins(bins, w) ==
    /\ bins \in [DataRanks -> SUBSET ToSet(w)]
    /\ \A r \in DataRanks : /\ Cardinality(bins[r]) = Local /\ bins[r] # {}
                            /\ Batch(bins[r]) /\ Fits(bins[r])
    /\ \E r \in DataRanks : w[1] \in bins[r]
    /\ \A r, o \in DataRanks : r # o => bins[r] \cap bins[o] = {}

LEMMA FullPlanBins ==
    ASSUME NEW w, WindowOK(w), FullPlanExists(w)
    PROVE  \E bins : FullBins(bins, w)
<1>1. PICK bins \in [DataRanks -> kSubset(Local, ToSet(w))] :
        /\ \E r \in DataRanks : w[1] \in bins[r]
        /\ \A r, o \in DataRanks : r # o => bins[r] \cap bins[o] = {}
        /\ \A r \in DataRanks : Padded(bins[r]) <= MaxTokens /\ PatchSum(bins[r]) <= MaxPatches
  BY DEF FullPlanExists
<1>2. \A r \in DataRanks : bins[r] \in SUBSET ToSet(w) /\ Cardinality(bins[r]) = Local BY DEF kSubset
<1>3. Local \in Nat \ {0} BY Sizes
<1>4. \A r \in DataRanks : bins[r] # {} BY <1>2, <1>3, FS_EmptySet
<1>5. \A r \in DataRanks : Batch(bins[r]) BY <1>2, WindowSet, PartOfBatch
<1>6. \A r \in DataRanks : Fits(bins[r]) BY <1>1, <1>2, <1>3 DEF Fits
<1>7. bins \in [DataRanks -> SUBSET ToSet(w)] BY <1>2
<1> QED BY <1>1, <1>2, <1>4, <1>5, <1>6, <1>7 DEF FullBins

\* What is checked before the search does not rule out a full plan.
LEMMA FullMayFill ==
    ASSUME NEW w, WindowOK(w), NEW bins, FullBins(bins, w)
    PROVE  MayFill(w)
<1>1. PICK r \in DataRanks : w[1] \in bins[r] BY DEF FullBins
<1> DEFINE B == bins[r]
           o == w[1]
           S == ToSet(Tail(w))
           C == kSubset(Local - 1, S)
           f == [T \in C |-> PatchSum(T)]
<1>2. /\ Batch(B) /\ Cardinality(B) = Local /\ B \in SUBSET ToSet(w) /\ o \in B
      /\ Padded(B) <= MaxTokens /\ PatchSum(B) <= MaxPatches
  BY <1>1 DEF FullBins, Fits
<1>3. Local \in Nat \ {0} /\ MaxTokens \in Nat /\ MaxPatches \in Nat BY Sizes
<1>4. Batch(S) /\ S = ToSet(w) \ {o} BY TailSet
<1>5. \A s \in B : s \in Sample /\ s.tokens \in Nat /\ s.patches \in Nat BY <1>2, SampleCosts DEF Batch
<1>6. B \ {o} \in C
  <2>1. B \ {o} \in SUBSET S BY <1>2, <1>4
  <2>2. Cardinality(B \ {o}) = Local - 1
    <3>1. IsFiniteSet(B) BY <1>2 DEF Batch
    <3> HIDE DEF B, o
    <3> QED BY <1>2, <3>1, FS_RemoveElement
  <2> QED BY <2>1, <2>2 DEF kSubset
<1>7. \A T \in C : Batch(T) /\ PatchSum(T) \in Nat
  <2>1. \A T \in C : T \in SUBSET S BY DEF kSubset
  <2> QED BY <1>4, <2>1, PartOfBatch, PatchesAddUp
<1>8. IsFiniteSet(C)
  <2>1. IsFiniteSet(SUBSET S) BY <1>4, FS_SUBSET DEF Batch
  <2>2. C \in SUBSET SUBSET S BY DEF kSubset
  <2> QED BY <2>1, <2>2, FS_Subset
<1>9. PatchSum(B) = o.patches + PatchSum(B \ {o}) BY <1>2, PatchesAddUp
<1>10. SmallestSum(S, Local - 1) = Min({f[T] : T \in C}) BY DEF SmallestSum
<1>11. \A T \in C : f[T] = PatchSum(T) OBVIOUS
<1>12. w[1].tokens * Local <= MaxTokens
  <2>1. PICK s \in B : Padded(B) = Cardinality(B) * s.tokens /\ \A t \in B : t.tokens <= s.tokens
    BY <1>2, PaddedBatch
  <2>2. o.tokens <= s.tokens /\ o.tokens \in Nat /\ s.tokens \in Nat BY <1>2, <1>5, <2>1
  <2> DEFINE m == o.tokens
             n == s.tokens
  <2>3. Local * n <= MaxTokens BY <1>2, <2>1
  <2>4. m <= n /\ m \in Nat /\ n \in Nat BY <2>2
  <2> HIDE DEF m, n
  <2>5. m * Local <= n * Local BY <1>3, <2>4
  <2>6. n * Local = Local * n /\ m * Local \in Nat /\ n * Local \in Nat BY <1>3, <2>4
  <2>7. m * Local <= MaxTokens BY <1>3, <2>3, <2>5, <2>6
  <2> QED BY <2>7 DEF m
<1> HIDE DEF B, S, C, f
<1>13. SmallestSum(S, Local - 1) <= PatchSum(B \ {o}) /\ SmallestSum(S, Local - 1) \in Int
  <2>1. IsFiniteSet({f[T] : T \in C}) BY <1>8, Image
  <2>2. {f[T] : T \in C} \in SUBSET Int BY <1>7, <1>11
  <2>3. f[B \ {o}] \in {f[T] : T \in C} BY <1>6
  <2>4. Min({f[T] : T \in C}) \in {f[T] : T \in C} /\ \A i \in {f[T] : T \in C} : Min({f[T] : T \in C}) <= i
    BY <2>1, <2>2, <2>3, Smallest
  <2> QED BY <1>6, <1>10, <1>11, <2>2, <2>3, <2>4
<1>14. o.patches \in Nat /\ PatchSum(B \ {o}) \in Nat BY <1>2, <1>5, <1>6, <1>7
<1>15. o.patches + SmallestSum(S, Local - 1) <= MaxPatches BY <1>2, <1>3, <1>9, <1>13, <1>14
<1>16. Len(w) >= Global
  <2>1. World \in Nat /\ Local \in Nat /\ BufferSize \in Nat BY Sizes
  <2>2. \A p \in 1 .. World : IsFiniteSet(bins[p]) /\ Cardinality(bins[p]) >= Local
    BY <2>1 DEF FullBins, DataRanks, Batch
  <2>3. \A p, q \in 1 .. World : p # q => bins[p] \cap bins[q] = {} BY DEF FullBins, DataRanks
  <2>4. LargeSets(bins, World, Local) BY <2>2, <2>3 DEF LargeSets
  <2>5. Cardinality(UnionOf(bins, World)) >= World * Local BY <2>1, <2>4, ManySets
  <2>6. UnionOf(bins, World) \in SUBSET ToSet(w) BY DEF FullBins, UnionOf, DataRanks
  <2>7. IsFiniteSet(ToSet(w)) /\ Cardinality(ToSet(w)) = Len(w) BY WindowSet DEF Batch, WindowOK
  <2>8. /\ IsFiniteSet(UnionOf(bins, World))
        /\ Cardinality(UnionOf(bins, World)) <= Cardinality(ToSet(w))
    BY <2>6, <2>7, FS_Subset
  <2>9. /\ Cardinality(UnionOf(bins, World)) \in Nat /\ Cardinality(ToSet(w)) \in Nat
        /\ World * Local \in Nat
    BY <2>1, <2>7, <2>8, FS_CardinalityType
  <2> QED BY <2>5, <2>7, <2>8, <2>9 DEF Global
<1> QED BY <1>12, <1>15, <1>16 DEF MayFill, S

\* The first draw of a batch.
LEMMA FirstDraw ==
    ASSUME NEW w, WindowOK(w), NEW B \in SUBSET ToSet(w), B # {}
    PROVE  /\ First(B) \in Nat /\ \E s \in B : First(B) = s.id
           /\ w[1] \in B => First(B) = w[1].id
           /\ w[1] \notin B => w[1].id < First(B)
<1> DEFINE f == [s \in B |-> s.id]
           T == {f[s] : s \in B}
<1>1. Batch(B) /\ \A s \in B : s \in Sample /\ s.id \in Nat BY WindowSet, PartOfBatch, SampleCosts DEF Batch
<1>2. w[1] \in Sample /\ w[1].id \in Nat /\ \A s \in ToSet(w) : w[1].id <= s.id BY WindowSet, SampleCosts
<1>3. \A s, t \in ToSet(w) : s.id = t.id => s = t BY WindowSet
<1>4. First(B) = Min(T)
  <2>1. {s.id : s \in B} = T OBVIOUS
  <2> QED BY <2>1 DEF First
<1>5. IsFiniteSet(T)
  <2>1. IsFiniteSet(B) BY <1>1 DEF Batch
  <2> HIDE DEF f
  <2> QED BY <2>1, Image
<1>6. T \in SUBSET Int /\ T # {} BY <1>1
<1>7. \A s \in B : s.id \in T OBVIOUS
<1>8. \A d \in T : \E s \in B : d = s.id OBVIOUS
<1> HIDE DEF T
<1>9. Min(T) \in T /\ \A d \in T : Min(T) <= d BY <1>5, <1>6, Smallest
<1>10. PICK s \in B : Min(T) = s.id BY <1>8, <1>9
<1>11. Min(T) \in Nat /\ s \in ToSet(w) /\ w[1].id <= s.id BY <1>1, <1>2, <1>10
<1>12. w[1] \in B => Min(T) = w[1].id
  <2> SUFFICES ASSUME w[1] \in B PROVE Min(T) = w[1].id OBVIOUS
  <2>1. Min(T) <= w[1].id BY <1>7, <1>9
  <2> QED BY <1>2, <1>10, <1>11, <2>1
<1>13. w[1] \notin B => w[1].id < Min(T)
  <2> SUFFICES ASSUME w[1] \notin B PROVE w[1].id < Min(T) OBVIOUS
  <2>1. w[1] \in ToSet(w) BY WindowSet
  <2>2. w[1].id # s.id BY <1>3, <1>11, <2>1
  <2> QED BY <1>2, <1>10, <1>11, <2>2
<1> QED BY <1>4, <1>10, <1>11, <1>12, <1>13

\* Ranks in the order of their first draws.
FirstOrder(bins) == {p \in DataRanks \X DataRanks : First(bins[p[1]]) < First(bins[p[2]])}

LEMMA FirstsOrder ==
    ASSUME NEW w, WindowOK(w), NEW bins, FullBins(bins, w)
    PROVE  /\ Ordered(FirstOrder(bins), DataRanks)
           /\ \A r, o \in DataRanks : <<r, o>> \in FirstOrder(bins) <=> First(bins[r]) < First(bins[o])
<1>1. \A r, o \in DataRanks : <<r, o>> \in FirstOrder(bins) <=> First(bins[r]) < First(bins[o])
  BY DEF FirstOrder
<1>2. \A r \in DataRanks : bins[r] \in SUBSET ToSet(w) /\ bins[r] # {} BY DEF FullBins
<1>3. \A r \in DataRanks : First(bins[r]) \in Nat /\ \E s \in bins[r] : First(bins[r]) = s.id
  BY <1>2, FirstDraw
<1>4. ASSUME NEW r \in DataRanks, NEW o \in DataRanks, r # o PROVE First(bins[r]) # First(bins[o])
  <2> SUFFICES ASSUME First(bins[r]) = First(bins[o]) PROVE FALSE OBVIOUS
  <2>1. PICK s \in bins[r] : First(bins[r]) = s.id BY <1>3
  <2>2. PICK t \in bins[o] : First(bins[o]) = t.id BY <1>3
  <2>3. s \in ToSet(w) /\ t \in ToSet(w) BY <1>2
  <2>4. s = t BY <2>1, <2>2, <2>3, WindowSet
  <2>5. bins[r] \cap bins[o] = {} BY <1>4 DEF FullBins
  <2> QED BY <2>4, <2>5
<1>5. \A r \in DataRanks : <<r, r>> \notin FirstOrder(bins) BY <1>1, <1>3
<1>6. \A r, o, q \in DataRanks : <<r, o>> \in FirstOrder(bins) /\ <<o, q>> \in FirstOrder(bins)
                                 => <<r, q>> \in FirstOrder(bins)
  BY <1>1, <1>3
<1>7. \A r, o \in DataRanks : r # o => <<r, o>> \in FirstOrder(bins) \/ <<o, r>> \in FirstOrder(bins)
  BY <1>1, <1>3, <1>4
<1> QED BY <1>1, <1>5, <1>6, <1>7 DEF Ordered

\* A full plan, its ranks numbered in that order, is one the search goes through.
LEMMA FullPartition ==
    ASSUME NEW w, WindowOK(w), NEW bins, FullBins(bins, w)
    PROVE  Partitions(w) # {}
<1> DEFINE R == FirstOrder(bins)
           place(r) == Behind(R, DataRanks, r)
           c == [n \in DataRanks |-> CHOOSE r \in DataRanks : place(r) = n - 1]
           full == [n \in DataRanks |-> bins[c[n]]]
<1>1. Ordered(R, DataRanks) /\ \A r, o \in DataRanks : <<r, o>> \in R <=> First(bins[r]) < First(bins[o])
  BY FirstsOrder
<1>2. IsFiniteSet(DataRanks) /\ Cardinality(DataRanks) = World /\ World \in Nat \ {0} BY RanksFinite, Sizes
<1>3. /\ \A r \in DataRanks : place(r) \in 0 .. World - 1
      /\ \A r, o \in DataRanks : <<r, o>> \in R => place(r) < place(o)
      /\ \A n \in 0 .. World - 1 : \E r \in DataRanks : place(r) = n
  BY <1>1, <1>2, Places
<1>4. \A n \in DataRanks : n \in Nat /\ n - 1 \in 0 .. World - 1 BY <1>2 DEF DataRanks
<1>5. 1 \in DataRanks BY <1>2 DEF DataRanks
<1> HIDE DEF R
<1>6. ASSUME NEW n \in DataRanks PROVE c[n] \in DataRanks /\ place(c[n]) = n - 1
  <2>1. \E r \in DataRanks : place(r) = n - 1 BY <1>3, <1>4
  <2>2. c[n] = CHOOSE r \in DataRanks : place(r) = n - 1 OBVIOUS
  <2> HIDE DEF c
  <2> QED BY <2>1, <2>2
<1>7. \A n \in DataRanks : full[n] = bins[c[n]] OBVIOUS
<1> HIDE DEF c, place
<1>8. /\ \A r \in DataRanks : /\ bins[r] \in SUBSET ToSet(w) /\ bins[r] # {}
                              /\ Cardinality(bins[r]) = Local /\ Fits(bins[r])
      /\ \A r, o \in DataRanks : r # o => bins[r] \cap bins[o] = {}
  BY DEF FullBins
<1>9. \A r \in DataRanks : bins[r] \in {B \in kSubset(Local, ToSet(w)) : Fits(B)} BY <1>8 DEF kSubset
<1>10. full \in [DataRanks -> {B \in kSubset(Local, ToSet(w)) : Fits(B)}] BY <1>6, <1>9
<1> HIDE DEF full
<1>11. \A r, o \in DataRanks : place(r) < place(o) => First(bins[r]) < First(bins[o])
  <2> SUFFICES ASSUME NEW r \in DataRanks, NEW o \in DataRanks, place(r) < place(o)
               PROVE  First(bins[r]) < First(bins[o])
    OBVIOUS
  <2>1. place(r) \in 0 .. World - 1 /\ place(o) \in 0 .. World - 1 BY <1>3
  <2>2. r # o /\ ~ place(o) < place(r) BY <1>2, <2>1
  <2>3. <<r, o>> \in R \/ <<o, r>> \in R BY <1>1, <2>2 DEF Ordered
  <2> QED BY <1>1, <1>3, <2>2, <2>3
<1>12. ASSUME NEW m \in DataRanks, NEW n \in DataRanks, m < n
       PROVE  full[m] \cap full[n] = {} /\ First(full[m]) < First(full[n])
  <2>1. place(c[m]) < place(c[n]) /\ c[m] # c[n] BY <1>4, <1>6, <1>12
  <2> QED BY <1>6, <1>7, <1>8, <1>11, <2>1
<1>13. w[1] \in full[1]
  <2>1. PICK r \in DataRanks : w[1] \in bins[r] BY DEF FullBins
  <2>2. place(c[1]) = 0 /\ c[1] \in DataRanks BY <1>5, <1>6
  <2>3. CASE r = c[1] BY <1>5, <1>7, <2>1, <2>3
  <2>4. CASE r # c[1]
    <3>1. w[1] \notin bins[c[1]] BY <1>8, <2>1, <2>2, <2>4
    <3>2. First(bins[r]) = w[1].id BY <1>8, <2>1, FirstDraw
    <3>3. w[1].id < First(bins[c[1]]) BY <1>8, <2>2, <3>1, FirstDraw
    <3>4. <<r, c[1]>> \in R BY <1>1, <2>2, <3>2, <3>3
    <3>5. place(r) < 0 BY <1>3, <2>2, <3>4
    <3>6. place(r) \in 0 .. World - 1 BY <1>3
    <3> QED BY <1>2, <3>5, <3>6
  <2> QED BY <2>3, <2>4
<1>14. full \in Partitions(w) BY <1>10, <1>12, <1>13 DEF Partitions
<1> QED BY <1>14

\* Every rank has all its samples, each one a pack.
LEMMA CompletePlan ==
    ASSUME NEW w, WindowOK(w), NEW bins, Binned(bins, w), Complete(bins), Advance(w, bins)
    PROVE  ~raised' /\ Complete(plan)'
<1>1. plan' = [r \in DataRanks |-> {{s} : s \in bins[r]}] /\ raised' = FALSE BY DEF Advance, Emit
<1>2. \A r \in DataRanks : bins[r] \in SUBSET ToSet(w) /\ Cardinality(bins[r]) = Local
  BY DEF Binned, Complete
<1>3. \A r \in DataRanks : IsFiniteSet(bins[r]) BY <1>2, WindowSet, PartOfBatch DEF Batch
<1>4. \A r \in DataRanks : Cardinality({{s} : s \in bins[r]}) = Local BY <1>2, <1>3, Singles
<1>5. \A r \in DataRanks : plan'[r] = {{s} : s \in bins[r]} BY <1>1
<1>6. \A r \in DataRanks : Cardinality(plan'[r]) = Local BY <1>4, <1>5
<1> QED BY <1>1, <1>6 DEF Complete

\* Whenever the window has a full plan the fast path finds one, or the search is made and finds one
\* unless it gives up.
THEOREM FullPlansAreFound == Spec => []FullWhenPossible
<1>1. Init => FullWhenPossible BY DEF Init, FullWhenPossible
<1>2. ASSUME PlannerInv, FullWhenPossible, [Next]_vars PROVE FullWhenPossible'
  <2>1. CASE UNCHANGED vars
    BY <1>2, <2>1 DEF vars, FullWhenPossible, Bounded, FullPlanExists, Complete, Padded
  <2>2. CASE Next
    <3>1. mode' = mode BY <2>2 DEF Next
    <3>2. PICK costs \in [1 .. Missing -> Costs] : RefuseSample(costs) \/ PlanWindow(costs)
      BY <2>2 DEF Next
    <3>3. CASE RefuseSample(costs) BY <3>3 DEF RefuseSample, FullWhenPossible
    <3>4. CASE PlanWindow(costs)
      <4> DEFINE w == Refilled(costs)
      <4>1. window' = w /\ \A n \in 1 .. Missing : ~Oversize(costs[n]) BY <3>4 DEF PlanWindow
      <4>2. WindowOK(w) BY <1>2, <4>1, RefilledContinues DEF PlannerInv, Continues
      <4>3. SUFFICES ASSUME Bounded, search' # "gave_up", FullPlanExists(w)
                     PROVE  ~raised' /\ Complete(plan)'
        BY <3>1, <4>1 DEF FullWhenPossible, Bounded, FullPlanExists
      <4>4. MayFill(w) /\ Partitions(w) # {} BY <4>2, <4>3, FullPlanBins, FullMayFill, FullPartition
      <4>5. PICK bins \in Greedy(w) :
                   \/ PlanFast(w, bins)
                   \/ PlanPartition(w, bins)
                   \/ PlanWithoutPartition(w, bins)
                   \/ PlanAfterGivingUp(w, bins)
        BY <3>4, <4>1, <4>3 DEF PlanWindow
      <4>6. Binned(bins, w) BY <4>2, <4>3, GreedyBinned
      <4> HIDE DEF w
      <4>7. CASE PlanFast(w, bins)
        <5>1. Complete(bins) /\ Settle(w, bins) BY <4>4, <4>7 DEF PlanFast, Searching
        <5>2. Advance(w, bins) BY <5>1 DEF Settle
        <5> QED BY <4>2, <4>6, <5>1, <5>2, CompletePlan
      <4>8. CASE PlanPartition(w, bins)
        <5>1. PICK full \in Partitions(w) : Advance(w, full) BY <4>8 DEF PlanPartition
        <5>2. Binned(full, w) /\ Complete(full) BY <4>2, PartitionBinned
        <5> QED BY <4>2, <5>1, <5>2, CompletePlan
      <4>9. CASE PlanWithoutPartition(w, bins) BY <4>4, <4>9 DEF PlanWithoutPartition
      <4>10. CASE PlanAfterGivingUp(w, bins) BY <4>3, <4>10 DEF PlanAfterGivingUp
      <4> QED BY <4>5, <4>7, <4>8, <4>9, <4>10
    <3> QED BY <3>2, <3>3, <3>4
  <2> QED BY <1>2, <2>1, <2>2
<1>3. PlannerInv /\ FullWhenPossible /\ [Next]_vars => FullWhenPossible' BY <1>2
<1> QED BY <1>1, <1>3, PlannerInvariant, PTL DEF Spec


-----------------------------------------------------------------------------
(***************************************************************************)
(* How long a draw waits.                                                  *)
(***************************************************************************)
\* What is emitted is a finite set of draws, and holds the first ones.
StreamInv ==
    /\ microstep \in Nat
    /\ emitted \subseteq Nat /\ IsFiniteSet(emitted)
    /\ Stream!NoStarvation

\* A finite set of naturals has its size's window of visible draws.
LEMMA VisibleType ==
    ASSUME IsFiniteSet(emitted)
    PROVE  Stream!Visible \subseteq Nat /\ IsFiniteSet(Stream!Visible)
  <1>1. Cardinality(emitted) \in Nat /\ BufferSize \in Nat
    BY FS_CardinalityType, Sizes
  <1>2. Cardinality(emitted) + BufferSize - 1 \in Int
    BY <1>1
  <1>3. Stream!Visible \subseteq Nat
    BY <1>2 DEF Stream!Visible
  <1>4. IsFiniteSet(Stream!Visible)
    <2>1. IsFiniteSet(0 .. Cardinality(emitted) + BufferSize - 1)
      BY <1>2, FS_Interval
    <2> QED
      BY <2>1, StreamCounts DEF Stream!Visible
  <1> QED
    BY <1>3, <1>4

\* Emitting keeps the invariant: the oldest waiting draw goes, and it is the first
\* one that was missing.
LEMMA EmitKeepsInv ==
    ASSUME StreamInv, [Stream!Next]_Stream!vars
    PROVE  StreamInv'
  <1>1. CASE UNCHANGED Stream!vars
    BY <1>1 DEF StreamInv, Stream!NoStarvation, Stream!vars
  <1>2. CASE Stream!Emit
    <2> DEFINE taken == emitted' \ emitted
    <2>1. Stream!Visible \subseteq Nat /\ IsFiniteSet(Stream!Visible)
      BY VisibleType DEF StreamInv
    <2>2. taken \subseteq Nat /\ emitted' = emitted \cup taken
      BY <1>2, <2>1 DEF Stream!Emit
    <2>3. IsFiniteSet(emitted')
      <3>1. IsFiniteSet(taken)
        BY <1>2, <2>1, FS_Subset DEF Stream!Emit
      <3> QED
        BY <2>2, <3>1, FS_Union DEF StreamInv
    <2>4. PICK oldest \in taken : 0 .. oldest - 1 \subseteq emitted
      BY <1>2 DEF Stream!Emit
    <2>5. Stream!NoStarvation'
      <3>1. SUFFICES ASSUME NEW d \in 0 .. microstep, d \notin emitted
                     PROVE  d \in emitted'
        BY <1>2, <2>2 DEF Stream!Emit, Stream!NoStarvation, StreamInv
      <3>2. d \in Nat /\ oldest \in Nat /\ microstep \in Nat
        BY <2>2, <2>4 DEF StreamInv
      <3>3. d = microstep
        BY <3>1, <3>2 DEF StreamInv, Stream!NoStarvation
      <3>4. ~ (d < oldest)
        BY <2>4, <3>1, <3>2
      <3>5. ~ (oldest < d)
        BY <2>4, <3>2, <3>3 DEF StreamInv, Stream!NoStarvation
      <3> QED
        BY <2>2, <2>4, <3>2, <3>4, <3>5
    <2> QED
      BY <1>2, <2>2, <2>3, <2>5 DEF Stream!Emit, StreamInv
  <1> QED
    BY <1>1, <1>2 DEF Stream!Next

\* The stream starves no draw, whatever the costs are.
THEOREM StreamStarvesNobody == Stream!Spec => []Stream!NoStarvation
  <1>1. Stream!Init => StreamInv
    BY FS_EmptySet DEF Stream!Init, StreamInv, Stream!NoStarvation
  <1>2. StreamInv /\ [Stream!Next]_Stream!vars => StreamInv'
    BY EmitKeepsInv
  <1>3. StreamInv => Stream!NoStarvation
    BY DEF StreamInv
  <1> QED
    BY <1>1, <1>2, <1>3, PTL DEF Stream!Spec

\* Nor does the planner: by microstep n the first n draws of the schedule were handed out.
THEOREM NoDrawStarves == Spec => []Stream!NoStarvation
BY PlannerIsStream, StreamStarvesNobody, PTL DEF ImplementsStream

-----------------------------------------------------------------------------
(***************************************************************************)
(* Multiples and remainders.                                               *)
(***************************************************************************)
\* Gauss's lemma: a multiple of m that n divides is a multiple of n, if they have no factor
\* in common.
LEMMA CoprimeCancels ==
    ASSUME NEW m \in Nat \ {0}, NEW n \in Nat \ {0}, Coprime(m, n),
           NEW k \in 1 .. n, (m * k) % n = 0
    PROVE  k = n
<1> DEFINE T == {j \in 1 .. n : (m * j) % n = 0}
<1>1. PICK j \in T : \A i \in T : j <= i
  <2>1. T \in SUBSET Nat /\ k \in T OBVIOUS
  <2> HIDE DEF T
  <2> QED BY <2>1, LeastNat
<1>2. j \in 1 .. n /\ (m * j) % n = 0 OBVIOUS
<1>3. PICK c \in Int : m * j = n * c
  <2>1. m * j \in Int BY <1>2
  <2>2. m * j = n * ((m * j) \div n) + 0 /\ (m * j) \div n \in Int BY <1>2, <2>1, Division
  <2> QED BY <2>2
\* Everything in T is a multiple of its least element.
<1>4. \A i \in T : i % j = 0
  <2> SUFFICES ASSUME NEW i \in T PROVE i % j = 0 OBVIOUS
  <2>1. i \in 1 .. n /\ (m * i) % n = 0 OBVIOUS
  <2> DEFINE q == i \div j  r == i % j
  <2>2. i = j * q + r /\ q \in Int /\ r \in 0 .. j - 1
    <3>1. i \in Int /\ j \in Nat \ {0} BY <1>2, <2>1
    <3> QED BY <3>1, Division
  <2> HIDE DEF q, r
  <2>3. m * i = m * r + n * (c * q)
    <3>1. m * i = m * (j * q) + m * r BY <1>2, <2>2, Distribute
    <3>2. m * (j * q) = (m * j) * q BY <1>2, <2>2, Regroup
    <3>3. (n * c) * q = n * (c * q) BY <1>3, <2>2, Regroup
    <3>4. (m * j) * q = (n * c) * q BY <1>3
    <3>5. m * r \in Int /\ n * (c * q) \in Int BY <2>2, <1>3
    <3> QED BY <3>1, <3>2, <3>3, <3>4, <3>5
  <2>4. (m * r) % n = 0
    <3>1. m * r \in Int /\ c * q \in Int BY <2>2, <1>3
    <3> QED BY <2>1, <2>3, <3>1, SameRemainder
  <2>5. r \in T \/ r = 0 BY <1>2, <2>2, <2>4
  <2>6. ~(r \in T)
    <3>1. r < j BY <1>2, <2>2
    <3> QED BY <1>1, <1>2, <2>2, <3>1
  <2> QED BY <2>5, <2>6 DEF r
<1>5. PICK d \in Int : n = j * d
  <2>1. n \in T
    <3>1. (0 + n * m) % n = 0 % n
      <4>1. 0 \in Int /\ m \in Int OBVIOUS
      <4> QED BY <4>1, SameRemainder
    <3>2. 0 % n = 0 OBVIOUS
    <3>3. 0 + n * m = m * n OBVIOUS
    <3> QED BY <3>1, <3>2, <3>3
  <2>2. n = j * (n \div j) + (n % j) /\ n \div j \in Int BY <1>2, Division
  <2>3. n % j = 0 BY <1>4, <2>1
  <2> QED BY <2>2, <2>3
<1>6. d >= 1 /\ d <= n BY <1>2, <1>5
<1>7. m = d * c
  <2>1. m * j = (d * c) * j
    <3>1. (j * d) * c = (d * c) * j BY <1>2, <1>3, <1>5
    <3> QED BY <1>3, <1>5, <3>1
  <2>2. \A x, y \in Int : x * j = y * j => x = y BY <1>2
  <2>3. d * c \in Int BY <1>3, <1>5
  <2> QED BY <2>1, <2>2, <2>3
<1>8. d <= m
  <2>1. c >= 1 BY <1>2, <1>3
  <2> QED BY <1>3, <1>5, <1>6, <1>7, <2>1
<1>9. d = 1
  <2> SUFFICES ASSUME d # 1 PROVE FALSE OBVIOUS
  <2>1. d \in 2 .. m /\ d \in Nat \ {0} BY <1>5, <1>6, <1>8
  <2>2. (d * c + 0) % d = 0 BY <1>3, <2>1, DivisionUnique
  <2>3. (d * j + 0) % d = 0 BY <1>2, <2>1, DivisionUnique
  <2>4. d * c + 0 = m /\ d * j + 0 = n BY <1>2, <1>3, <1>5, <1>7
  <2>5. m % d # 0 \/ n % d # 0 BY <2>1 DEF Coprime
  <2> QED BY <2>2, <2>3, <2>4, <2>5
<1>10. j = n BY <1>2, <1>5, <1>9
<1> QED
  <2>1. k \in T OBVIOUS
  <2>2. j <= k BY <1>1, <2>1
  <2> QED BY <1>10, <2>2

-----------------------------------------------------------------------------
(***************************************************************************)
(* The tickets of a block.                                                 *)
(***************************************************************************)
LEMMA Steps ==
    /\ BlockSize \in Nat \ {0} /\ PhaseBlocks \in Nat \ {0} /\ RotationStep \in Nat
    /\ BlockSize > 1 => Reaching(RotationStep)
<1>1. CASE BlockSize <= 1 BY <1>1, ScheduleAssumption DEF RotationStep
<1>2. CASE BlockSize > 1
  <2> DEFINE T == {n \in 1 .. 100 * BlockSize : Reaching(n)}
  <2>1. T # {} BY <1>2, StepAssumption
  <2>2. T \in SUBSET Int /\ T \in SUBSET (1 .. 100 * BlockSize) OBVIOUS
  <2>3. IsFiniteSet(T)
    <3>1. 1 \in Int /\ 100 * BlockSize \in Int BY ScheduleAssumption
    <3>2. IsFiniteSet(1 .. 100 * BlockSize) BY <3>1, FS_Interval
    <3> QED BY <2>2, <3>2, FS_Subset
  <2>4. RotationStep = Min(T) BY <1>2, ScheduleAssumption DEF RotationStep
  <2>5. \A n \in T : n \in Nat /\ Reaching(n) OBVIOUS
  <2> HIDE DEF T
  <2>6. RotationStep \in T BY <2>1, <2>2, <2>3, <2>4, Smallest
  <2> QED BY <2>5, <2>6, ScheduleAssumption
<1> QED BY <1>1, <1>2, ScheduleAssumption

LEMMA RankStep ==
    ASSUME NEW s, NEW p \in Nat
    PROVE  /\ Rank(s, 0) = 0 /\ Rank(s, p) \in Nat
           /\ Rank(s, p + 1) = Rank(s, p) + IF block[p] = s THEN 1 ELSE 0
<1> DEFINE T == {q \in 0 .. p - 1 : block[q] = s}
<1>1. IsFiniteSet(T) /\ Cardinality(T) \in Nat
  <2>1. IsFiniteSet(0 .. p - 1)
    <3>1. 0 \in Int /\ p - 1 \in Int OBVIOUS
    <3> QED BY <3>1, FS_Interval
  <2>2. T \in SUBSET (0 .. p - 1) OBVIOUS
  <2>3. IsFiniteSet(T) BY <2>1, <2>2, FS_Subset
  <2> QED BY <2>3, FS_CardinalityType
<1>2. {q \in 0 .. p + 1 - 1 : block[q] = s} = IF block[p] = s THEN T \cup {p} ELSE T
  <2>1. \A q : q \in 0 .. p + 1 - 1 <=> q \in 0 .. p - 1 \/ q = p OBVIOUS
  <2> QED BY <2>1
<1>3. p \notin T OBVIOUS
<1>4. Rank(s, 0) = 0
  <2>1. {q \in 0 .. 0 - 1 : block[q] = s} = {} OBVIOUS
  <2> QED BY <2>1, FS_EmptySet DEF Rank
<1>5. Rank(s, p) = Cardinality(T) BY DEF Rank
<1>6. Rank(s, p + 1) = Cardinality(IF block[p] = s THEN T \cup {p} ELSE T) BY <1>2 DEF Rank
<1> HIDE DEF T
<1>7. Cardinality(T \cup {p}) = Cardinality(T) + 1 BY <1>1, <1>3, FS_AddElement
<1> QED BY <1>1, <1>4, <1>5, <1>6, <1>7

\* A block has the tickets of the quotas.
BlockFull ==
    /\ block \in [Ticket -> Source] /\ quota \in [Source -> Nat]
    /\ \A s \in Source : Rank(s, BlockSize) = quota[s]

\* The source's tickets among the first of a rotated block.
Served(s, offset, rotation) ==
    IF offset + rotation <= BlockSize THEN Rank(s, offset + rotation) - Rank(s, rotation)
    ELSE quota[s] - Rank(s, rotation) + Rank(s, (offset + rotation) - BlockSize)

LEMMA RotatedTicket ==
    ASSUME NEW offset \in Ticket, NEW rotation \in Ticket
    PROVE  /\ (offset + rotation) % BlockSize =
                  IF offset + rotation < BlockSize THEN offset + rotation
                  ELSE (offset + rotation) - BlockSize
           /\ (offset + rotation) % BlockSize \in Ticket
<1>1. BlockSize \in Nat \ {0} BY Steps
<1>2. CASE offset + rotation < BlockSize
  <2>1. offset + rotation = BlockSize * 0 + (offset + rotation) BY <1>1 DEF Ticket
  <2>2. offset + rotation \in 0 .. BlockSize - 1 BY <1>1, <1>2 DEF Ticket
  <2>3. (BlockSize * 0 + (offset + rotation)) % BlockSize = offset + rotation
    BY <1>1, <2>2, DivisionUnique
  <2> QED BY <1>2, <2>1, <2>2, <2>3 DEF Ticket
<1>3. CASE offset + rotation >= BlockSize
  <2>1. offset + rotation = BlockSize * 1 + ((offset + rotation) - BlockSize) BY <1>1 DEF Ticket
  <2>2. (offset + rotation) - BlockSize \in 0 .. BlockSize - 1 BY <1>1, <1>3 DEF Ticket
  <2>3. (BlockSize * 1 + ((offset + rotation) - BlockSize)) % BlockSize
            = (offset + rotation) - BlockSize
    <3>1. 1 \in Int OBVIOUS
    <3> QED BY <1>1, <2>2, <3>1, DivisionUnique
  <2> QED BY <1>1, <1>3, <2>1, <2>2, <2>3 DEF Ticket
<1> QED BY <1>1, <1>2, <1>3 DEF Ticket

LEMMA ServedStep ==
    ASSUME BlockFull, NEW s \in Source, NEW offset \in Ticket, NEW rotation \in Ticket,
           NEW ticket, ticket = (offset + rotation) % BlockSize
    PROVE  /\ LocalOccurrence(s, ticket, rotation) = Served(s, offset, rotation)
           /\ Served(s, offset, rotation) \in Int
           /\ Served(s, offset + 1, rotation) =
                  Served(s, offset, rotation) + IF block[ticket] = s THEN 1 ELSE 0
           /\ Served(s, 0, rotation) = 0 /\ Served(s, BlockSize, rotation) = quota[s]
<1> DEFINE sum == offset + rotation
<1>1. BlockSize \in Nat \ {0} /\ offset \in Nat /\ rotation \in Nat /\ offset < BlockSize
      /\ rotation < BlockSize /\ sum \in Nat
  BY Steps DEF Ticket
<1>2. quota[s] \in Nat /\ Rank(s, BlockSize) = quota[s] BY DEF BlockFull
<1>3. \A p \in Nat : /\ Rank(s, 0) = 0 /\ Rank(s, p) \in Nat
                     /\ Rank(s, p + 1) = Rank(s, p) + IF block[p] = s THEN 1 ELSE 0
  BY RankStep
<1>4. /\ LocalOccurrence(s, ticket, rotation) = Served(s, offset, rotation)
      /\ Served(s, offset, rotation) \in Int
      /\ Served(s, offset + 1, rotation) =
             Served(s, offset, rotation) + IF block[ticket] = s THEN 1 ELSE 0
  <2>1. CASE sum < BlockSize
    <3>1. ticket = sum BY <2>1, RotatedTicket
    <3>2. sum + 1 = offset + 1 + rotation /\ sum + 1 <= BlockSize /\ sum >= rotation BY <1>1, <2>1
    <3>3. Rank(s, sum + 1) = Rank(s, sum) + IF block[ticket] = s THEN 1 ELSE 0 BY <1>1, <1>3, <3>1
    <3>4. Rank(s, sum) \in Nat /\ Rank(s, rotation) \in Nat BY <1>1, <1>3
    <3>5. Served(s, offset, rotation) = Rank(s, sum) - Rank(s, rotation) BY <1>1, <2>1 DEF Served
    <3>6. Served(s, offset + 1, rotation) = Rank(s, sum + 1) - Rank(s, rotation)
      BY <1>1, <3>2 DEF Served
    <3>7. LocalOccurrence(s, ticket, rotation) = Rank(s, sum) - Rank(s, rotation)
      BY <3>1, <3>2 DEF LocalOccurrence
    <3> DEFINE here == IF block[ticket] = s THEN 1 ELSE 0
    <3>8. here \in {0, 1} /\ Rank(s, sum + 1) = Rank(s, sum) + here BY <3>3
    <3> HIDE DEF here
    <3>9. Served(s, offset + 1, rotation) = Served(s, offset, rotation) + here
      BY <3>4, <3>5, <3>6, <3>8
    <3> QED BY <3>4, <3>5, <3>7, <3>9 DEF here
  <2>2. CASE sum >= BlockSize
    <3> DEFINE past == sum - BlockSize
    <3>1. ticket = past /\ past \in Nat /\ past < rotation BY <1>1, <2>2, RotatedTicket
    <3>2. Rank(s, past + 1) = Rank(s, past) + IF block[ticket] = s THEN 1 ELSE 0 BY <1>3, <3>1
    <3>3. Rank(s, past) \in Nat /\ Rank(s, rotation) \in Nat BY <1>1, <1>3, <3>1
    <3>4. Served(s, offset, rotation) = quota[s] - Rank(s, rotation) + Rank(s, past)
      <4>1. CASE sum = BlockSize
        <5>1. past = 0 /\ Rank(s, past) = 0 BY <1>1, <1>3, <4>1
        <5>2. Served(s, offset, rotation) = Rank(s, BlockSize) - Rank(s, rotation)
          BY <1>1, <4>1 DEF Served
        <5> QED BY <1>2, <3>3, <5>1, <5>2
      <4>2. CASE sum # BlockSize
        <5>1. ~(offset + rotation <= BlockSize) BY <1>1, <2>2, <4>2
        <5> QED BY <5>1 DEF Served
      <4> QED BY <4>1, <4>2
    <3>5. Served(s, offset + 1, rotation) = quota[s] - Rank(s, rotation) + Rank(s, past + 1)
      <4>1. ~(offset + 1 + rotation <= BlockSize) BY <1>1, <2>2
      <4>2. (offset + 1 + rotation) - BlockSize = past + 1 BY <1>1
      <4> QED BY <4>1, <4>2 DEF Served
    <3>6. LocalOccurrence(s, ticket, rotation) = quota[s] - Rank(s, rotation) + Rank(s, past)
      <4>1. ~(ticket >= rotation) BY <1>1, <3>1
      <4> QED BY <3>1, <4>1 DEF LocalOccurrence
    <3> DEFINE here == IF block[ticket] = s THEN 1 ELSE 0
    <3>7. here \in {0, 1} /\ Rank(s, past + 1) = Rank(s, past) + here BY <3>2
    <3> HIDE DEF past, here
    <3>8. Served(s, offset + 1, rotation) = Served(s, offset, rotation) + here
      BY <1>2, <3>3, <3>4, <3>5, <3>7
    <3> QED BY <1>2, <3>3, <3>4, <3>6, <3>8 DEF here
  <2> QED BY <1>1, <2>1, <2>2
<1>5. Served(s, 0, rotation) = 0
  <2>1. 0 + rotation = rotation /\ rotation <= BlockSize /\ Rank(s, rotation) \in Nat BY <1>1, <1>3
  <2> QED BY <2>1 DEF Served
<1>6. Served(s, BlockSize, rotation) = quota[s]
  <2>1. CASE rotation = 0
    <3>1. BlockSize + rotation = BlockSize /\ Rank(s, rotation) = 0 BY <1>1, <1>3, <2>1
    <3> QED BY <1>1, <1>2, <3>1 DEF Served
  <2>2. CASE rotation # 0
    <3>1. ~(BlockSize + rotation <= BlockSize) /\ (BlockSize + rotation) - BlockSize = rotation
      BY <1>1, <2>2
    <3>2. Rank(s, rotation) \in Nat BY <1>1, <1>3
    <3> QED BY <1>2, <3>1, <3>2 DEF Served
  <2> QED BY <2>1, <2>2
<1> QED BY <1>4, <1>5, <1>6

-----------------------------------------------------------------------------
(***************************************************************************)
(* Draws.                                                                  *)
(***************************************************************************)
\* The rotation of a block.
Turn(p, number) ==
    IF kind = "weighted" THEN (p - RotationStep * (number % PhaseBlocks)) % BlockSize ELSE 0

\* How often a source was drawn is what the blocks so far hold of it.
InTurn ==
    /\ BlockFull
    /\ drawn = [s \in Source |-> (draw \div BlockSize) * quota[s]
                    + Served(s, draw % BlockSize, Turn(phase, draw \div BlockSize))]
    /\ draw > 0 => last[1] \in Source /\ last[2] = drawn[last[1]] - 1

\* The row of a position in the cycle.
RowAt(map, position) == (map[1] * position + map[2]) % BlockSize

InCycle == draw > 0 => rows = {RowAt(affine, i) : i \in 0 .. (draw - 1) % BlockSize}

ScheduleInv ==
    /\ draw \in Nat /\ phase \in Ticket /\ affine \in Multipliers \X Ticket
    /\ kind # "concat" => InTurn
    /\ kind = "concat" => InCycle

LEMMA TurnTicket ==
    ASSUME NEW p \in Ticket, NEW n \in Nat
    PROVE  Turn(p, n) \in Ticket
<1>1. BlockSize \in Nat \ {0} /\ PhaseBlocks \in Nat \ {0} /\ RotationStep \in Nat BY Steps
<1>2. n % PhaseBlocks \in Nat BY <1>1
<1>3. RotationStep * (n % PhaseBlocks) \in Int BY <1>1, <1>2
<1>4. p - RotationStep * (n % PhaseBlocks) \in Int BY <1>1, <1>3 DEF Ticket
<1>5. (p - RotationStep * (n % PhaseBlocks)) % BlockSize \in 0 .. BlockSize - 1
  BY <1>1, <1>4, Division
<1> QED BY <1>1, <1>5 DEF Turn, Ticket

LEMMA TicketDrawn ==
    ASSUME draw \in Nat, phase \in Ticket, InTurn, kind # "concat", DrawTicket, draw' = draw + 1,
           UNCHANGED <<kind, world, quota, block>>
    PROVE  InTurn' /\ phase' \in Ticket
<1> DEFINE number == draw \div BlockSize
           offset == draw % BlockSize
           rotation == Turn(phase', number)
           ticket == (offset + rotation) % BlockSize
           s == block[ticket]
<1>1. /\ phase' \in IF kind = "weighted" /\ offset = 0 /\ number % PhaseBlocks = 0
                    THEN Ticket ELSE {phase}
      /\ last' = <<s, number * quota[s] + LocalOccurrence(s, ticket, rotation)>>
      /\ drawn' = [drawn EXCEPT ![s] = @ + 1]
  BY DEF DrawTicket, Turn
<1>2. BlockSize \in Nat \ {0} /\ draw \in Nat BY Steps
<1>3. number \in Nat /\ offset \in Ticket /\ offset \in 0 .. BlockSize - 1
  BY <1>2, NextRemainder DEF Ticket
<1>4. phase' \in Ticket /\ (offset # 0 => phase' = phase) BY <1>1
<1>5. rotation \in Ticket /\ Turn(phase, number) \in Ticket
  <2> HIDE DEF number, offset
  <2> QED BY <1>3, <1>4, TurnTicket
<1>6. BlockFull BY DEF InTurn
<1>7. ticket \in Ticket /\ s \in Source
  <2>1. ticket \in Ticket BY <1>3, <1>5, RotatedTicket
  <2> HIDE DEF ticket
  <2> QED BY <1>6, <2>1 DEF BlockFull
<1>8. \A x \in Source : quota[x] \in Nat /\ number * quota[x] \in Int BY <1>3, <1>6 DEF BlockFull
<1>9. \A x \in Source :
          /\ LocalOccurrence(x, ticket, rotation) = Served(x, offset, rotation)
          /\ Served(x, offset, rotation) \in Int
          /\ Served(x, offset + 1, rotation) =
                 Served(x, offset, rotation) + IF block[ticket] = x THEN 1 ELSE 0
          /\ Served(x, 0, rotation) = 0 /\ Served(x, BlockSize, rotation) = quota[x]
  <2> SUFFICES ASSUME NEW x \in Source
               PROVE  /\ LocalOccurrence(x, ticket, rotation) = Served(x, offset, rotation)
                      /\ Served(x, offset, rotation) \in Int
                      /\ Served(x, offset + 1, rotation) =
                             Served(x, offset, rotation) + IF block[ticket] = x THEN 1 ELSE 0
                      /\ Served(x, 0, rotation) = 0 /\ Served(x, BlockSize, rotation) = quota[x]
    OBVIOUS
  <2>1. ticket = (offset + rotation) % BlockSize OBVIOUS
  <2> HIDE DEF offset, rotation, ticket
  <2> QED BY <1>3, <1>5, <1>6, <2>1, ServedStep
\* What was drawn, counted with the rotation of this block.
<1>10. drawn = [x \in Source |-> number * quota[x] + Served(x, offset, rotation)]
  <2>1. \A x \in Source : Served(x, offset, Turn(phase, number)) = Served(x, offset, rotation)
    <3>1. CASE offset = 0
      <4>1. \A x \in Source : Served(x, 0, Turn(phase, number)) = 0
        <5> SUFFICES ASSUME NEW x \in Source PROVE Served(x, 0, Turn(phase, number)) = 0 OBVIOUS
        <5> DEFINE turn == Turn(phase, number)
        <5> HIDE DEF turn, offset
        <5> QED BY <1>3, <1>5, <1>6, ServedStep DEF turn
      <4> QED BY <1>9, <3>1, <4>1
    <3>2. CASE offset # 0 BY <1>4, <3>2
    <3> QED BY <3>1, <3>2
  <2>2. drawn = [x \in Source |-> number * quota[x] + Served(x, offset, Turn(phase, number))]
    BY DEF InTurn
  <2> QED BY <2>1, <2>2
<1> DEFINE after == [x \in Source |-> number * quota[x] + Served(x, offset + 1, rotation)]
<1>11. drawn' = after /\ last'[1] = s /\ last'[2] = drawn'[s] - 1
  <2> HIDE DEF number, offset, rotation, ticket
  <2>1. drawn' = [x \in Source |-> drawn[x] + IF x = s THEN 1 ELSE 0] BY <1>1, <1>8, <1>9, <1>10
  <2>2. \A x \in Source : drawn[x] = number * quota[x] + Served(x, offset, rotation) BY <1>10
  <2>3. \A x \in Source : drawn[x] \in Int BY <1>8, <1>9, <2>2
  <2>4. \A x \in Source : drawn'[x] = number * quota[x] + Served(x, offset + 1, rotation)
    <3> SUFFICES ASSUME NEW x \in Source
                 PROVE  drawn'[x] = number * quota[x] + Served(x, offset + 1, rotation)
      OBVIOUS
    <3>1. CASE x = s
      <4>1. drawn'[x] = drawn[x] + 1 BY <2>1, <3>1
      <4>2. Served(x, offset + 1, rotation) = Served(x, offset, rotation) + 1 BY <1>9, <3>1
      <4> QED BY <1>8, <1>9, <2>2, <4>1, <4>2
    <3>2. CASE x # s
      <4>1. drawn'[x] = drawn[x] BY <2>1, <2>3, <3>2
      <4>2. Served(x, offset + 1, rotation) = Served(x, offset, rotation) BY <1>9, <3>2
      <4> QED BY <2>2, <4>1, <4>2
    <3> QED BY <3>1, <3>2
  <2>5. drawn' = after BY <2>1, <2>4
  <2>6. last'[2] = number * quota[s] + Served(s, offset, rotation) BY <1>1, <1>7, <1>9
  <2>7. drawn'[s] = drawn[s] + 1 BY <1>7, <2>1
  <2>8. last'[2] = drawn'[s] - 1 BY <1>7, <2>2, <2>3, <2>6, <2>7
  <2> QED BY <1>1, <2>5, <2>8
<1>12. drawn' = [x \in Source |-> (draw' \div BlockSize) * quota[x]
                    + Served(x, draw' % BlockSize, Turn(phase', draw' \div BlockSize))]
  <2>1. CASE offset < BlockSize - 1
    <3>1. draw' \div BlockSize = number /\ draw' % BlockSize = offset + 1
      BY <1>2, <2>1, NextRemainder
    <3> QED BY <1>11, <3>1
  <2>2. CASE offset = BlockSize - 1
    <3>1. draw' \div BlockSize = number + 1 /\ draw' % BlockSize = 0
      BY <1>2, <2>2, NextRemainder
    <3> HIDE DEF number, offset, rotation
    <3>2. Turn(phase', number + 1) \in Ticket
      <4>1. number + 1 \in Nat BY <1>3
      <4> QED BY <1>4, <4>1, TurnTicket
    <3>3. \A x \in Source : Served(x, 0, Turn(phase', number + 1)) = 0
      BY <1>3, <1>6, <3>2, ServedStep
    <3>4. offset + 1 = BlockSize BY <1>2, <2>2
    <3>5. \A x \in Source : number * quota[x] + Served(x, offset + 1, rotation)
                            = (number + 1) * quota[x] + Served(x, 0, Turn(phase', number + 1))
      <4> SUFFICES ASSUME NEW x \in Source
                   PROVE  number * quota[x] + Served(x, offset + 1, rotation)
                          = (number + 1) * quota[x] + Served(x, 0, Turn(phase', number + 1))
        OBVIOUS
      <4>1. (number + 1) * quota[x] = number * quota[x] + quota[x] BY <1>3, <1>8
      <4>2. (number + 1) * quota[x] \in Int BY <1>3, <1>8
      <4> QED BY <1>9, <3>3, <3>4, <4>1, <4>2
    <3> QED BY <1>11, <3>1, <3>5
  <2> QED BY <1>2, <1>3, <2>1, <2>2
<1>13. BlockFull' BY <1>6 DEF BlockFull, Rank
<1>14. \A x, o, r : Served(x, o, r)' = Served(x, o, r) BY DEF Served, Rank
<1>15. last'[1] \in Source /\ last'[2] = drawn'[last'[1]] - 1 BY <1>7, <1>11
<1> QED BY <1>4, <1>12, <1>13, <1>15 DEF InTurn, Served, Rank, Turn

LEMMA Maps ==
    ASSUME NEW map \in Multipliers \X Ticket
    PROVE  /\ map[1] \in 1 .. BlockSize /\ Coprime(map[1], BlockSize) /\ map[2] \in Ticket
           /\ \A i \in Ticket : RowAt(map, i) \in Ticket
<1>1. map[1] \in Multipliers /\ map[2] \in Ticket OBVIOUS
<1>2. map[1] \in 1 .. BlockSize /\ Coprime(map[1], BlockSize) BY <1>1 DEF Multipliers
<1>3. ASSUME NEW i \in Ticket PROVE RowAt(map, i) \in Ticket
  <2>1. map[1] * i + map[2] \in Int BY <1>1, <1>2 DEF Ticket
  <2> QED BY <2>1, Steps, Division DEF RowAt, Ticket
<1> QED BY <1>1, <1>2, <1>3

\* An affine map with such a multiplier takes no two positions to one row.
LEMMA RowsDiffer ==
    ASSUME NEW map \in Multipliers \X Ticket, NEW i \in Ticket, NEW j \in Ticket, i < j
    PROVE  RowAt(map, i) # RowAt(map, j)
<1> DEFINE m == map[1]  b == map[2]  n == BlockSize  k == j - i
<1>1. n \in Nat \ {0} /\ m \in Nat \ {0} /\ Coprime(m, n) /\ b \in Int BY Steps, Maps DEF Ticket
<1>2. k \in 1 .. n /\ k # n /\ j = k + i /\ i \in Int BY Steps DEF Ticket
<1> SUFFICES ASSUME (m * i + b) % n = (m * j + b) % n PROVE FALSE BY DEF RowAt
<1> HIDE DEF m, b, n, k
<1>3. PICK q \in Int : m * j + b = m * i + b + n * q
  <2>1. m * i + b \in Int /\ m * j + b \in Int BY <1>1, <1>2
  <2> QED BY <1>1, <2>1, RemainderApart
<1>4. m * k = 0 + n * q
  <2>1. m * j = m * k + m * i BY <1>1, <1>2, Distribute
  <2>2. m * i \in Int /\ m * j \in Int /\ m * k \in Int /\ n * q \in Int BY <1>1, <1>2, <1>3
  <2> DEFINE u == m * i  v == m * j  x == m * k  y == n * q
  <2>3. u \in Int /\ v \in Int /\ x \in Int /\ y \in Int BY <2>2
  <2>4. v + b = u + b + y /\ v = x + u BY <1>3, <2>1
  <2> HIDE DEF u, v, x, y
  <2>5. x = 0 + y BY <1>1, <2>3, <2>4
  <2> QED BY <2>5 DEF x, y
<1>5. (m * k) % n = 0
  <2>1. (n * q + 0) % n = 0 BY <1>1, <1>3, DivisionUnique
  <2>2. n * q + 0 = m * k BY <1>1, <1>3, <1>4
  <2> QED BY <2>1, <2>2
<1> QED BY <1>1, <1>2, <1>5, CoprimeCancels

LEMMA CycleRows ==
    ASSUME NEW map \in Multipliers \X Ticket, NEW p \in Ticket
    PROVE  Cardinality({RowAt(map, i) : i \in 0 .. p}) = p + 1
<1> DEFINE f == [i \in 0 .. p |-> RowAt(map, i)]
<1>1. 0 .. p \subseteq Ticket /\ p \in Nat BY Steps DEF Ticket
<1>2. IsFiniteSet(0 .. p) /\ Cardinality(0 .. p) = p + 1
  <2>1. 0 \in Int /\ p \in Int /\ ~(0 > p) BY <1>1
  <2>2. Cardinality(0 .. p) = p - 0 + 1 BY <2>1, FS_Interval
  <2> QED BY <1>1, <2>1, <2>2, FS_Interval
<1>3. \A x, y \in 0 .. p : f[x] = f[y] => x = y
  <2> SUFFICES ASSUME NEW x \in 0 .. p, NEW y \in 0 .. p, RowAt(map, x) = RowAt(map, y), x # y
               PROVE  FALSE
    OBVIOUS
  <2>1. x < y \/ y < x OBVIOUS
  <2> QED BY <1>1, <2>1, RowsDiffer
<1>4. {RowAt(map, i) : i \in 0 .. p} = {f[x] : x \in 0 .. p} OBVIOUS
<1> DEFINE S == 0 .. p
<1> HIDE DEF f, S
<1>5. Cardinality({f[x] : x \in S}) = Cardinality(S) BY <1>2, <1>3, Image DEF S
<1> QED BY <1>2, <1>4, <1>5 DEF S

LEMMA RowDrawn ==
    ASSUME draw \in Nat, affine \in Multipliers \X Ticket, InCycle, DrawRow, draw' = draw + 1
    PROVE  InCycle' /\ affine' \in Multipliers \X Ticket
<1> DEFINE position == draw % BlockSize
<1>1. BlockSize \in Nat \ {0} BY Steps
<1>2. position \in 0 .. BlockSize - 1 BY <1>1, NextRemainder
<1>3. /\ affine' \in IF position = 0 THEN Multipliers \X Ticket ELSE {affine}
      /\ rows' = IF position = 0 THEN {RowAt(affine', position)}
                 ELSE rows \cup {RowAt(affine', position)}
  BY DEF DrawRow, RowAt
<1>4. affine' \in Multipliers \X Ticket BY <1>3
<1>5. draw' - 1 = draw OBVIOUS
<1>6. rows' = {RowAt(affine', i) : i \in 0 .. position}
  <2>1. CASE position = 0
    <3>1. 0 .. position = {0} BY <2>1
    <3> QED BY <1>3, <2>1, <3>1
  <2>2. CASE position # 0
    <3>1. draw > 0 /\ draw - 1 \in Nat /\ (draw - 1) + 1 = draw
      <4>1. draw # 0 BY <1>1, <2>2, NextRemainder
      <4> QED BY <4>1
    <3>2. (draw - 1) % BlockSize = position - 1
      <4> DEFINE m == draw - 1
      <4>1. m \in Nat /\ m + 1 = draw BY <3>1
      <4> HIDE DEF m
      <4>2. m % BlockSize \in 0 .. BlockSize - 1 BY <1>1, <4>1, NextRemainder
      <4>3. m % BlockSize < BlockSize - 1
        <5>1. m % BlockSize # BlockSize - 1 BY <1>1, <2>2, <4>1, NextRemainder
        <5> QED BY <1>1, <4>2, <5>1
      <4>4. position = (m % BlockSize) + 1 BY <1>1, <4>1, <4>3, NextRemainder
      <4> QED BY <4>2, <4>4 DEF m
    <3>3. rows = {RowAt(affine, i) : i \in 0 .. position - 1} BY <3>1, <3>2 DEF InCycle
    <3>4. affine' = affine /\ rows' = rows \cup {RowAt(affine', position)} BY <1>3, <2>2
    <3> HIDE DEF position
    <3>5. \A i : i \in 0 .. position <=> i \in 0 .. position - 1 \/ i = position BY <1>2
    <3> QED BY <3>3, <3>4, <3>5
  <2> QED BY <2>1, <2>2
<1>7. InCycle'
  <2>1. (draw > 0 => rows = {RowAt(affine, i) : i \in 0 .. (draw - 1) % BlockSize})'
    BY <1>5, <1>6 DEF RowAt
  <2> QED BY <2>1 DEF InCycle, RowAt
<1> QED BY <1>4, <1>7

-----------------------------------------------------------------------------
(***************************************************************************)
(* Quotas.                                                                 *)
(***************************************************************************)
LEMMA SourcesFinite == IsFiniteSet(Source) /\ Cardinality(Source) = NumSources /\ NumSources \in Nat \ {0}
<1>1. NumSources \in Nat \ {0} BY ScheduleAssumption
<1> QED BY <1>1, FirstNumbers DEF Source

LEMMA Summed ==
    ASSUME NEW f
    PROVE  SumFunction(f) = SumUp(f)
BY DEF SumFunction, SumFunctionOnSet, SumUp, FoldFunction

\* The quotas of a block are its tickets.
LEMMA HamiltonFills ==
    ASSUME NEW weight \in [Source -> 1 .. MaxWeight]
    PROVE  Hamilton(weight) \in [Source -> Nat] /\ SumUp(Hamilton(weight)) = BlockSize
<1> DEFINE total == SumUp(weight)
           floor == [s \in Source |-> (weight[s] * BlockSize) \div total]
           rest == [s \in Source |-> (weight[s] * BlockSize) % total]
           R == {p \in Source \X Source : \/ rest[p[1]] > rest[p[2]]
                                          \/ rest[p[1]] = rest[p[2]] /\ p[1] < p[2]}
           left == BlockSize - SumUp(floor)
           Lucky == {s \in Source : Behind(R, Source, s) < left}
           q == Hamilton(weight)
           n == Cardinality(Source)
<1>1. /\ BlockSize \in Nat \ {0} /\ IsFiniteSet(Source) /\ n \in Nat \ {0}
      /\ \A s \in Source : weight[s] \in Nat \ {0} /\ weight[s] * BlockSize \in Nat
      /\ weight \in [Source -> Nat]
  <2>1. MaxWeight \in Nat /\ BlockSize \in Nat \ {0} BY ScheduleAssumption
  <2>2. \A s \in Source : weight[s] \in Nat \ {0} BY <2>1
  <2>3. \A s \in Source : weight[s] * BlockSize \in Nat BY <2>1, <2>2
  <2> QED BY <2>1, <2>2, <2>3, SourcesFinite
<1>2. PICK w : Sums(w, weight, Source) /\ total = w[Source] BY <1>1, SumGrows
<1>3. total \in Nat \ {0}
  <2> DEFINE T == {s \in SUBSET Source : w[s] >= Cardinality(s)}
  <2>1. {} \in T BY <1>2, FS_EmptySet DEF Sums
  <2>2. ASSUME NEW s \in SUBSET Source, NEW x \in Source \ s, s \in T PROVE s \cup {x} \in T
    <3>1. IsFiniteSet(s) BY <1>1, FS_Subset
    <3>2. Cardinality(s \cup {x}) = Cardinality(s) + 1 /\ Cardinality(s) \in Nat
      BY <3>1, FS_AddElement, FS_CardinalityType
    <3>3. w[s \cup {x}] = weight[x] + w[s] /\ w[s] \in Nat BY <1>2 DEF Sums
    <3>4. weight[x] \in Nat \ {0} /\ w[s] >= Cardinality(s) BY <1>1, <2>2
    <3>5. w[s \cup {x}] >= Cardinality(s \cup {x}) BY <3>2, <3>3, <3>4
    <3> QED BY <3>5
  <2> HIDE DEF T
  <2>3. Source \in T BY <1>1, <2>1, <2>2, GrowingSets
  <2>4. w[Source] >= n BY <2>3 DEF T
  <2>5. w[Source] \in Nat
    <3>1. Source \in SUBSET Source OBVIOUS
    <3> QED BY <1>2, <3>1 DEF Sums
  <2> HIDE DEF total, n
  <2> QED BY <1>1, <1>2, <2>4, <2>5
<1> HIDE DEF total
<1>4. \A s \in Source : /\ floor[s] \in Nat /\ rest[s] \in 0 .. total - 1
                        /\ weight[s] * BlockSize = total * floor[s] + rest[s]
  <2> SUFFICES ASSUME NEW s \in Source
               PROVE  /\ floor[s] \in Nat /\ rest[s] \in 0 .. total - 1
                      /\ weight[s] * BlockSize = total * floor[s] + rest[s]
    OBVIOUS
  <2> DEFINE m == weight[s] * BlockSize
  <2>1. floor[s] = m \div total /\ rest[s] = m % total OBVIOUS
  <2>2. m \in Nat BY <1>1
  <2> HIDE DEF m, floor, rest
  <2>3. m \div total \in Nat BY <1>3, <2>2, NextRemainder
  <2>4. m % total \in 0 .. total - 1 /\ m = total * (m \div total) + (m % total)
    BY <1>3, <2>2, Division
  <2>5. m = total * floor[s] + rest[s] BY <2>1, <2>4
  <2>6. weight[s] * BlockSize = m BY DEF m
  <2> QED BY <2>1, <2>3, <2>4, <2>5, <2>6
<1>5. floor \in [Source -> Nat] /\ rest \in [Source -> Nat]
  <2>1. \A s \in Source : floor[s] \in Nat /\ rest[s] \in Nat BY <1>3, <1>4
  <2> QED BY <2>1
<1>6. q = [s \in Source |-> floor[s] + IF s \in Lucky THEN 1 ELSE 0]
  <2>1. \A s \in Source : {t \in Source : rest[t] > rest[s] \/ (rest[t] = rest[s] /\ t < s)}
                          = {t \in Source : <<t, s>> \in R}
    OBVIOUS
  <2>2. q = [s \in Source |->
                floor[s] + IF Cardinality({t \in Source : rest[t] > rest[s]
                                                          \/ (rest[t] = rest[s] /\ t < s)})
                              < left
                           THEN 1 ELSE 0]
    BY Summed DEF Hamilton, total
  <2>3. \A s \in Source : Cardinality({t \in Source : rest[t] > rest[s] \/ (rest[t] = rest[s] /\ t < s)})
                          = Behind(R, Source, s)
    BY <2>1 DEF Behind
  <2>4. \A s \in Source : Behind(R, Source, s) < left <=> s \in Lucky OBVIOUS
  <2> HIDE DEF floor, rest, R, left, Lucky, q
  <2> QED BY <2>2, <2>3, <2>4
<1>7. Ordered(R, Source)
  <2>1. \A s \in Source : rest[s] \in Int /\ s \in Int BY <1>5 DEF Source
  <2> HIDE DEF rest
  <2> QED BY <2>1 DEF Ordered
<1>8. PICK f : Sums(f, floor, Source) /\ SumUp(floor) = f[Source]
  <2> HIDE DEF floor
  <2> QED BY <1>1, <1>5, SumGrows
<1>9. PICK r : Sums(r, rest, Source) /\ SumUp(rest) = r[Source]
  <2> HIDE DEF rest
  <2> QED BY <1>1, <1>5, SumGrows
<1> HIDE DEF floor, rest, R, Lucky, q
\* What is left over is less than a ticket for each source.
<1>10. left \in 0 .. n
  <2> DEFINE T == {s \in SUBSET Source : /\ w[s] * BlockSize = total * f[s] + r[s]
                                         /\ r[s] <= (total - 1) * Cardinality(s)}
  <2>1. {} \in T
    <3>1. w[{}] = 0 /\ f[{}] = 0 /\ r[{}] = 0 BY <1>2, <1>8, <1>9 DEF Sums
    <3> QED BY <1>1, <1>3, <3>1, FS_EmptySet
  <2>2. ASSUME NEW s \in SUBSET Source, NEW x \in Source \ s, s \in T PROVE s \cup {x} \in T
    <3> DEFINE c == Cardinality(s)  m == total - 1
    <3>1. Cardinality(s \cup {x}) = c + 1 /\ c \in Nat
      <4>1. IsFiniteSet(s) BY <1>1, FS_Subset
      <4> QED BY <4>1, FS_AddElement, FS_CardinalityType
    <3>2. /\ w[s \cup {x}] = weight[x] + w[s] /\ w[s] \in Nat
          /\ f[s \cup {x}] = floor[x] + f[s] /\ f[s] \in Nat
          /\ r[s \cup {x}] = rest[x] + r[s] /\ r[s] \in Nat
      BY <1>2, <1>8, <1>9 DEF Sums
    <3>3. weight[x] \in Nat /\ floor[x] \in Nat /\ rest[x] \in Nat /\ rest[x] <= m /\ m \in Nat
      BY <1>1, <1>3, <1>4
    <3>4. w[s \cup {x}] * BlockSize = total * f[s \cup {x}] + r[s \cup {x}]
      <4>1. (weight[x] + w[s]) * BlockSize = weight[x] * BlockSize + w[s] * BlockSize
        BY <1>1, <3>2, <3>3
      <4>2. total * (floor[x] + f[s]) = total * floor[x] + total * f[s] BY <1>3, <3>2, <3>3
      <4>3. weight[x] * BlockSize = total * floor[x] + rest[x] BY <1>4
      <4>4. w[s] * BlockSize = total * f[s] + r[s] BY <2>2
      <4> DEFINE a == total * floor[x]  b == total * f[s]
      <4>5. a \in Int /\ b \in Int BY <1>3, <3>2, <3>3
      <4> HIDE DEF a, b
      <4>6. (a + rest[x]) + (b + r[s]) = (a + b) + (rest[x] + r[s]) BY <3>2, <3>3, <4>5
      <4> QED BY <3>2, <4>1, <4>2, <4>3, <4>4, <4>6 DEF a, b
    <3>5. r[s \cup {x}] <= m * Cardinality(s \cup {x})
      <4>1. m * (c + 1) = m * c + m BY <3>1, <3>3
      <4>2. r[s] <= m * c BY <2>2
      <4>3. m * c \in Int BY <3>1, <3>3
      <4> HIDE DEF m, c
      <4>4. rest[x] + r[s] <= m * c + m BY <3>2, <3>3, <4>2, <4>3
      <4> QED BY <3>1, <3>2, <4>1, <4>4
    <3> QED BY <3>4, <3>5
  <2> HIDE DEF T
  <2>3. Source \in T BY <1>1, <2>1, <2>2, GrowingSets
  <2>4. total * BlockSize = total * f[Source] + r[Source] /\ r[Source] <= (total - 1) * n
    BY <1>2, <2>3 DEF T
  <2>5. f[Source] \in Nat /\ r[Source] \in Nat
    <3>1. Source \in SUBSET Source OBVIOUS
    <3> QED BY <1>8, <1>9, <3>1 DEF Sums
  <2> DEFINE y == BlockSize - f[Source]
  <2>6. y \in Int /\ left = y BY <1>1, <1>8, <2>5
  <2>7. total * y = r[Source]
    <3>1. total * y = total * BlockSize - total * f[Source] BY <1>1, <1>3, <2>5, Distribute
    <3>2. total * f[Source] \in Int BY <1>3, <2>5
    <3> QED BY <2>4, <2>5, <3>1, <3>2
  <2>8. y >= 0 /\ y <= n
    <3> HIDE DEF y, n
    <3>1. y >= 0
      <4> SUFFICES ASSUME y <= -1 PROVE FALSE BY <2>6
      <4>1. total * y <= -1 BY <1>3, <2>6
      <4> QED BY <2>5, <2>7, <4>1
    <3>2. y <= n
      <4> SUFFICES ASSUME y >= n + 1 PROVE FALSE BY <1>1, <2>6
      <4>1. total * y >= total * n BY <1>1, <1>3, <2>6
      <4>2. (total - 1) * n = total * n - n /\ total * n \in Int BY <1>1, <1>3
      <4> QED BY <1>1, <2>4, <2>5, <2>7, <4>1, <4>2
    <3> QED BY <3>1, <3>2
  <2> HIDE DEF y, n, left
  <2> QED BY <1>1, <2>6, <2>8
<1>11. Cardinality(Lucky) = left
  <2> HIDE DEF left
  <2> QED BY <1>1, <1>7, <1>10, FirstPlaces DEF Lucky
<1>12. q \in [Source -> Nat] BY <1>5, <1>6
<1>13. PICK h : Sums(h, q, Source) /\ SumUp(q) = h[Source] BY <1>1, <1>12, SumGrows
<1>14. h[Source] = f[Source] + Cardinality(Lucky)
  <2> DEFINE T == {s \in SUBSET Source : h[s] = f[s] + Cardinality(s \cap Lucky)}
  <2>1. {} \in T
    <3>1. h[{}] = 0 /\ f[{}] = 0 BY <1>8, <1>13 DEF Sums
    <3>2. {} \cap Lucky = {} OBVIOUS
    <3> QED BY <3>1, <3>2, FS_EmptySet
  <2>2. ASSUME NEW s \in SUBSET Source, NEW x \in Source \ s, s \in T PROVE s \cup {x} \in T
    <3>1. /\ h[s \cup {x}] = q[x] + h[s] /\ h[s] \in Nat
          /\ f[s \cup {x}] = floor[x] + f[s] /\ f[s] \in Nat
      BY <1>8, <1>13 DEF Sums
    <3>2. floor[x] \in Nat BY <1>5
    <3>3. IsFiniteSet(s \cap Lucky) /\ Cardinality(s \cap Lucky) \in Nat
      <4>1. s \cap Lucky \in SUBSET Source OBVIOUS
      <4> QED BY <1>1, <4>1, FS_Subset, FS_CardinalityType
    <3>4. CASE x \in Lucky
      <4>1. (s \cup {x}) \cap Lucky = (s \cap Lucky) \cup {x} /\ x \notin s \cap Lucky BY <3>4
      <4>2. Cardinality((s \cup {x}) \cap Lucky) = Cardinality(s \cap Lucky) + 1
        BY <3>3, <4>1, FS_AddElement
      <4>3. q[x] = floor[x] + 1 BY <1>6, <3>4
      <4>4. h[s] = f[s] + Cardinality(s \cap Lucky) BY <2>2
      <4>5. h[s \cup {x}] = f[s \cup {x}] + Cardinality((s \cup {x}) \cap Lucky)
        BY <3>1, <3>2, <3>3, <4>2, <4>3, <4>4
      <4> QED BY <4>5
    <3>5. CASE x \notin Lucky
      <4>1. (s \cup {x}) \cap Lucky = s \cap Lucky BY <3>5
      <4>2. q[x] = floor[x] BY <1>6, <3>2, <3>5
      <4>3. h[s] = f[s] + Cardinality(s \cap Lucky) BY <2>2
      <4>4. Cardinality((s \cup {x}) \cap Lucky) = Cardinality(s \cap Lucky) BY <4>1
      <4>5. h[s \cup {x}] = f[s \cup {x}] + Cardinality((s \cup {x}) \cap Lucky)
        BY <3>1, <3>2, <3>3, <4>2, <4>3, <4>4
      <4> QED BY <4>5
    <3> QED BY <3>4, <3>5
  <2> HIDE DEF T
  <2>3. Source \in T BY <1>1, <2>1, <2>2, GrowingSets
  <2>4. Source \cap Lucky = Lucky BY DEF Lucky
  <2> QED BY <2>3, <2>4 DEF T
<1>15. SumUp(q) = BlockSize
  <2>1. f[Source] \in Nat
    <3>1. Source \in SUBSET Source OBVIOUS
    <3> QED BY <1>8, <3>1 DEF Sums
  <2> QED BY <1>1, <1>8, <1>11, <1>13, <1>14, <2>1
<1> QED BY <1>12, <1>15 DEF q

\* The tickets of a block without shuffle, and their order.
Tickets == UNION {{s} \X (0 .. quota[s] - 1) : s \in Source}

Midpoints ==
    {p \in Tickets \X Tickets :
        LET left == (2 * p[1][2] + 1) * quota[p[2][1]]
            right == (2 * p[2][2] + 1) * quota[p[1][1]]
        IN  left < right \/ (left = right /\ p[1][1] < p[2][1])}

LEMMA TicketPairs ==
    ASSUME quota \in [Source -> Nat]
    PROVE  \A x \in Tickets : /\ x[1] \in Source /\ x[1] \in Int /\ x[2] \in 0 .. quota[x[1]] - 1
                              /\ x[2] \in Nat /\ quota[x[1]] \in Nat \ {0} /\ x = <<x[1], x[2]>>
<1> SUFFICES ASSUME NEW s \in Source, NEW x \in {s} \X (0 .. quota[s] - 1)
             PROVE  /\ x[1] \in Source /\ x[1] \in Int /\ x[2] \in 0 .. quota[x[1]] - 1
                    /\ x[2] \in Nat /\ quota[x[1]] \in Nat \ {0} /\ x = <<x[1], x[2]>>
  BY DEF Tickets
<1>1. x[1] = s /\ x[2] \in 0 .. quota[s] - 1 /\ x = <<x[1], x[2]>> OBVIOUS
<1>2. quota[s] \in Nat /\ s \in Int BY DEF Source
<1> QED BY <1>1, <1>2

\* Fractions with a positive denominator are ordered as the crossed products are.
LEMMA Fractions ==
    ASSUME NEW a \in Nat, NEW b \in Nat, NEW c \in Nat,
           NEW p \in Nat \ {0}, NEW q \in Nat \ {0}, NEW r \in Nat \ {0},
           a * q <= b * p, b * r <= c * q
    PROVE  /\ a * r <= c * p
           /\ a * q < b * p \/ b * r < c * q => a * r < c * p
<1> DEFINE x == a * q  y == b * p  z == b * r  w == c * q  u == a * r  v == c * p
<1>1. x \in Nat /\ y \in Nat /\ z \in Nat /\ w \in Nat /\ u \in Nat /\ v \in Nat OBVIOUS
<1>2. x * r = u * q /\ y * r = z * p /\ w * p = v * q BY Regroup
<1>3. x <= y /\ z <= w OBVIOUS
<1> HIDE DEF x, y, z, w, u, v
<1>4. \A l, m \in Nat : \A n \in Nat \ {0} : l <= m => l * n <= m * n OBVIOUS
<1>5. \A l, m \in Nat : \A n \in Nat \ {0} : l < m => l * n < m * n OBVIOUS
<1>6. x * r <= y * r /\ z * p <= w * p BY <1>1, <1>3, <1>4
<1>7. u * q <= v * q BY <1>1, <1>2, <1>6
<1>8. u <= v
  <2> SUFFICES ASSUME v < u PROVE FALSE BY <1>1
  <2>1. v * q < u * q BY <1>1, <1>5
  <2>2. u * q \in Nat /\ v * q \in Nat BY <1>1
  <2> QED BY <1>7, <2>1, <2>2
<1>9. ASSUME x < y \/ z < w PROVE u < v
  <2> SUFFICES ASSUME u = v PROVE FALSE BY <1>1, <1>8
  <2>1. x * r < y * r \/ z * p < w * p BY <1>1, <1>5, <1>9
  <2>2. x * r \in Nat /\ y * r \in Nat /\ z * p \in Nat /\ w * p \in Nat BY <1>1
  <2>3. x * r = w * p BY <1>2
  <2> QED BY <1>2, <1>6, <2>1, <2>2, <2>3
<1> QED BY <1>8, <1>9 DEF x, y, z, w, u, v

LEMMA MidpointsOrder ==
    ASSUME quota \in [Source -> Nat]
    PROVE  Ordered(Midpoints, Tickets)
<1> DEFINE N(x) == 2 * x[2] + 1
           Q(x) == quota[x[1]]
<1>1. \A x \in Tickets : /\ N(x) \in Nat /\ Q(x) \in Nat \ {0} /\ x[1] \in Int
                         /\ x[2] \in Nat /\ x = <<x[1], x[2]>>
  BY TicketPairs
<1>2. \A x, y \in Tickets : <<x, y>> \in Midpoints <=>
          N(x) * Q(y) < N(y) * Q(x) \/ (N(x) * Q(y) = N(y) * Q(x) /\ x[1] < y[1])
  BY DEF Midpoints
<1>3. ASSUME NEW x \in Tickets PROVE <<x, x>> \notin Midpoints
  <2>1. N(x) * Q(x) \in Nat /\ x[1] \in Int BY <1>1
  <2> HIDE DEF N, Q
  <2> QED BY <1>2, <2>1
<1>4. ASSUME NEW x \in Tickets, NEW y \in Tickets, x # y
      PROVE  <<x, y>> \in Midpoints \/ <<y, x>> \in Midpoints
  <2>1. N(x) * Q(y) \in Nat /\ N(y) * Q(x) \in Nat BY <1>1
  <2>2. ASSUME N(x) * Q(y) = N(y) * Q(x), x[1] = y[1] PROVE FALSE
    <3>1. Q(x) = Q(y) BY <2>2
    <3> HIDE DEF N, Q
    <3>2. N(x) = N(y) BY <1>1, <2>2, <3>1
    <3>3. x[2] = y[2] BY <1>1, <3>2 DEF N
    <3> QED BY <1>1, <1>4, <2>2, <3>3
  <2> HIDE DEF N, Q
  <2>3. \/ N(x) * Q(y) < N(y) * Q(x) \/ N(y) * Q(x) < N(x) * Q(y)
        \/ N(x) * Q(y) = N(y) * Q(x) /\ (x[1] < y[1] \/ y[1] < x[1])
    BY <1>1, <2>1, <2>2
  <2> QED BY <1>2, <2>3
<1>5. ASSUME NEW x \in Tickets, NEW y \in Tickets, NEW z \in Tickets,
             <<x, y>> \in Midpoints, <<y, z>> \in Midpoints
      PROVE  <<x, z>> \in Midpoints
  <2> HIDE DEF N, Q
  <2>1. /\ N(x) * Q(y) \in Nat /\ N(y) * Q(x) \in Nat /\ N(y) * Q(z) \in Nat
        /\ N(z) * Q(y) \in Nat /\ N(x) * Q(z) \in Nat /\ N(z) * Q(x) \in Nat
    BY <1>1
  <2>2. N(x) * Q(y) <= N(y) * Q(x) /\ N(y) * Q(z) <= N(z) * Q(y) BY <1>2, <1>5, <2>1
  <2>3. /\ N(x) * Q(z) <= N(z) * Q(x)
        /\ N(x) * Q(y) < N(y) * Q(x) \/ N(y) * Q(z) < N(z) * Q(y)
               => N(x) * Q(z) < N(z) * Q(x)
    <3> DEFINE a == N(x)  b == N(y)  c == N(z)  p == Q(x)  q == Q(y)  r == Q(z)
    <3>1. a \in Nat /\ b \in Nat /\ c \in Nat /\ p \in Nat \ {0} /\ q \in Nat \ {0} /\ r \in Nat \ {0}
      BY <1>1
    <3>2. a * q <= b * p /\ b * r <= c * q BY <2>2
    <3> HIDE DEF a, b, c, p, q, r
    <3>3. a * r <= c * p /\ (a * q < b * p \/ b * r < c * q => a * r < c * p)
      BY <3>1, <3>2, Fractions
    <3> QED BY <3>3 DEF a, b, c, p, q, r
  <2>4. CASE N(x) * Q(z) < N(z) * Q(x) BY <1>2, <2>4
  <2>5. CASE ~(N(x) * Q(z) < N(z) * Q(x))
    <3>1. N(x) * Q(z) = N(z) * Q(x) BY <2>1, <2>3, <2>5
    <3>2. x[1] < y[1] /\ y[1] < z[1] BY <1>2, <1>5, <2>3, <2>5
    <3>3. x[1] < z[1] BY <1>1, <3>2
    <3> QED BY <1>2, <3>1, <3>3
  <2> QED BY <2>4, <2>5
<1> QED BY <1>3, <1>4, <1>5 DEF Ordered

LEMMA TicketsCount ==
    ASSUME quota \in [Source -> Nat], SumUp(quota) = BlockSize
    PROVE  /\ IsFiniteSet(Tickets) /\ Cardinality(Tickets) = BlockSize
           /\ \A s \in Source : Cardinality({x \in Tickets : x[1] = s}) = quota[s]
<1> DEFINE Of(s) == {s} \X (0 .. quota[s] - 1)
           Under(S) == UNION {Of(s) : s \in S}
           T == {S \in SUBSET Source : IsFiniteSet(Under(S))}
<1>1. ASSUME NEW s \in Source PROVE IsFiniteSet(Of(s)) /\ Cardinality(Of(s)) = quota[s]
  <2>1. quota[s] \in Nat OBVIOUS
  <2>2. IsFiniteSet(0 .. quota[s] - 1) /\ Cardinality(0 .. quota[s] - 1) = quota[s]
    <3> DEFINE n == quota[s]
    <3> HIDE DEF n
    <3>1. /\ IsFiniteSet(0 .. n - 1)
          /\ Cardinality(0 .. n - 1) = IF 0 > n - 1 THEN 0 ELSE (n - 1) - 0 + 1
      BY <2>1, FS_Interval DEF n
    <3>2. n \in Nat BY <2>1 DEF n
    <3>3. IsFiniteSet(0 .. n - 1) /\ Cardinality(0 .. n - 1) = n BY <3>1, <3>2
    <3> QED BY <3>3 DEF n
  <2>3. IsFiniteSet({s}) /\ Cardinality({s}) = 1 BY FS_Singleton
  <2>4. IsFiniteSet(Of(s)) /\ Cardinality(Of(s)) = 1 * quota[s] BY <2>2, <2>3, FS_Product
  <2> QED BY <2>1, <2>4
<1>2. PICK h : Sums(h, quota, Source) /\ SumUp(quota) = h[Source] BY SourcesFinite, SumGrows
<1> DEFINE U == {S \in SUBSET Source : IsFiniteSet(Under(S)) /\ Cardinality(Under(S)) = h[S]}
<1>3. {} \in U
  <2>1. Under({}) = {} OBVIOUS
  <2>2. h[{}] = 0 BY <1>2 DEF Sums
  <2> HIDE DEF Under
  <2> QED BY <2>1, <2>2, FS_EmptySet
<1>4. ASSUME NEW S \in SUBSET Source, NEW s \in Source \ S, S \in U PROVE S \cup {s} \in U
  <2>1. Under(S \cup {s}) = Under(S) \cup Of(s) OBVIOUS
  <2>2. Under(S) \cap Of(s) = {}
    <3>1. \A x \in Under(S) : x[1] \in S OBVIOUS
    <3>2. \A x \in Of(s) : x[1] = s OBVIOUS
    <3> HIDE DEF Under, Of
    <3> QED BY <3>1, <3>2
  <2>3. h[S \cup {s}] = quota[s] + h[S] /\ h[S] \in Nat /\ quota[s] \in Nat BY <1>2 DEF Sums
  <2>4. IsFiniteSet(Under(S)) /\ Cardinality(Under(S)) = h[S] BY <1>4
  <2>5. IsFiniteSet(Of(s)) /\ Cardinality(Of(s)) = quota[s] BY <1>1
  <2> HIDE DEF Under, Of
  <2>6. /\ IsFiniteSet(Under(S) \cup Of(s))
        /\ Cardinality(Under(S) \cup Of(s)) = Cardinality(Under(S)) + Cardinality(Of(s))
    BY <2>2, <2>4, <2>5, Apart
  <2>7. IsFiniteSet(Under(S \cup {s})) BY <2>1, <2>6
  <2>8. Cardinality(Under(S \cup {s})) = Cardinality(Under(S) \cup Of(s)) BY <2>1
  <2>9. Cardinality(Under(S \cup {s})) = h[S \cup {s}] BY <2>3, <2>4, <2>5, <2>6, <2>8
  <2> QED BY <2>7, <2>9
<1>5. Source \in U
  <2> HIDE DEF U
  <2> QED BY <1>3, <1>4, SourcesFinite, GrowingSets
<1>6. Tickets = Under(Source) BY DEF Tickets
<1>7. ASSUME NEW s \in Source PROVE {x \in Tickets : x[1] = s} = Of(s)
  <2>1. Of(s) \subseteq Tickets /\ \A x \in Of(s) : x[1] = s BY DEF Tickets
  <2>2. \A x \in Tickets : x[1] = s => x \in Of(s) BY DEF Tickets
  <2> HIDE DEF Of
  <2> QED BY <2>1, <2>2
<1> HIDE DEF Under, Of
<1> QED BY <1>1, <1>2, <1>5, <1>6, <1>7

LEMMA MergedFull ==
    ASSUME quota \in [Source -> Nat], SumUp(quota) = BlockSize
    PROVE  /\ Merged \in [Ticket -> Source]
           /\ \A s \in Source : Cardinality({p \in Ticket : Merged[p] = s}) = quota[s]
<1> DEFINE place == [x \in Tickets |-> Behind(Midpoints, Tickets, x)]
           at == [p \in Ticket |-> CHOOSE x \in Tickets : place[x] = p]
<1>1. /\ IsFiniteSet(Tickets) /\ Cardinality(Tickets) = BlockSize
      /\ \A s \in Source : Cardinality({x \in Tickets : x[1] = s}) = quota[s]
  BY TicketsCount
<1>2. /\ \A x \in Tickets : place[x] \in Ticket
      /\ \A x, y \in Tickets : place[x] = place[y] => x = y
      /\ \A p \in Ticket : \E x \in Tickets : place[x] = p
  <2>1. \A x \in Tickets : place[x] = Behind(Midpoints, Tickets, x) OBVIOUS
  <2>2. Ordered(Midpoints, Tickets) BY MidpointsOrder
  <2> HIDE DEF place
  <2>3. /\ \A x \in Tickets : place[x] \in 0 .. BlockSize - 1
        /\ \A x, y \in Tickets : x # y => place[x] # place[y]
        /\ \A p \in 0 .. BlockSize - 1 : \E x \in Tickets : place[x] = p
    BY <1>1, <2>1, <2>2, Places
  <2> QED BY <2>3 DEF Ticket
<1>3. \A p \in Ticket : at[p] \in Tickets /\ place[at[p]] = p
  <2> HIDE DEF place
  <2> QED BY <1>2
<1>4. Merged = [p \in Ticket |-> at[p][1]]
  <2>1. \A x \in Tickets :
            {y \in Tickets : LET left == (2 * y[2] + 1) * quota[x[1]]
                                 right == (2 * x[2] + 1) * quota[y[1]]
                             IN  left < right \/ (left = right /\ y[1] < x[1])}
            = {y \in Tickets : <<y, x>> \in Midpoints}
    BY DEF Midpoints
  <2> DEFINE Sooner(x) == {y \in Tickets :
                               LET left == (2 * y[2] + 1) * quota[x[1]]
                                   right == (2 * x[2] + 1) * quota[y[1]]
                               IN  left < right \/ (left = right /\ y[1] < x[1])}
             Chosen(p) == CHOOSE x \in Tickets : Cardinality(Sooner(x)) = p
  <2>2. Merged = [p \in Ticket |-> Chosen(p)[1]] BY Zenon DEF Merged, Tickets
  <2>3. \A x \in Tickets : Cardinality(Sooner(x)) = place[x] BY <2>1 DEF Behind
  <2> HIDE DEF place, Sooner
  <2>4. \A p \in Ticket : Chosen(p) = at[p] BY <2>3
  <2> HIDE DEF at, Chosen
  <2> QED BY <2>2, <2>4
<1>5. Merged \in [Ticket -> Source]
  <2>1. \A p \in Ticket : at[p][1] \in Source
    <3> HIDE DEF at
    <3> QED BY <1>3, TicketPairs
  <2> HIDE DEF at
  <2> QED BY <1>4, <2>1
<1>6. ASSUME NEW s \in Source PROVE Cardinality({p \in Ticket : Merged[p] = s}) = quota[s]
  <2> DEFINE mine == {x \in Tickets : x[1] = s}
  <2>1. {p \in Ticket : Merged[p] = s} = {place[x] : x \in mine}
    <3> HIDE DEF place, at
    <3>1. \A p \in Ticket : Merged[p] = at[p][1] BY <1>4
    <3>2. \A x \in Tickets : place[x] \in Ticket /\ at[place[x]] = x BY <1>2, <1>3
    <3> QED BY <1>3, <3>1, <3>2
  <2>2. IsFiniteSet(mine) BY <1>1, FS_Subset
  <2>3. \A x, y \in mine : place[x] = place[y] => x = y BY <1>2
  <2>4. Cardinality(mine) = quota[s] BY <1>1
  <2> HIDE DEF mine, place
  <2>5. Cardinality({place[x] : x \in mine}) = Cardinality(mine) BY <2>2, <2>3, Image
  <2> QED BY <2>1, <2>4, <2>5
<1> QED BY <1>5, <1>6

-----------------------------------------------------------------------------
(***************************************************************************)
(* The stream.                                                             *)
(***************************************************************************)
LEMMA ScheduleStarts == ScheduleInit => ScheduleInv
<1> SUFFICES ASSUME ScheduleInit PROVE ScheduleInv OBVIOUS
<1>1. PICK weight \in [Source -> 1 .. MaxWeight] : quota = Hamilton(weight) BY DEF ScheduleInit
<1>2. quota \in [Source -> Nat] /\ SumUp(quota) = BlockSize BY <1>1, HamiltonFills
<1>3. BlockSize \in Nat \ {0} BY Steps
<1>4. ASSUME kind # "concat" PROVE BlockFull
  <2>1. /\ block \in [Ticket -> Source]
        /\ \A s \in Source : Cardinality({p \in Ticket : block[p] = s}) = quota[s]
    <3>1. CASE kind = "weighted" BY <3>1 DEF ScheduleInit, Shuffled
    <3>2. CASE kind # "weighted"
      <4>1. block = Merged BY <3>2 DEF ScheduleInit
      <4> QED BY <1>2, <4>1, MergedFull
    <3> QED BY <3>1, <3>2
  <2> QED BY <1>2, <2>1 DEF BlockFull, Rank, Ticket
<1>5. phase \in Ticket /\ draw = 0 /\ affine = <<1, 0>> /\ drawn = [s \in Source |-> 0]
  BY <1>3 DEF ScheduleInit, Ticket
<1>6. affine \in Multipliers \X Ticket
  <2>1. 1 \in 1 .. BlockSize /\ 0 \in Ticket BY <1>3 DEF Ticket
  <2>2. Coprime(1, BlockSize) BY DEF Coprime
  <2> QED BY <1>5, <2>1, <2>2 DEF Multipliers
<1>7. 0 \div BlockSize = 0 /\ 0 % BlockSize = 0
  <2>1. (BlockSize * 0 + 0) \div BlockSize = 0 /\ (BlockSize * 0 + 0) % BlockSize = 0
    BY <1>3, DivisionUnique
  <2> QED BY <1>3, <2>1
<1>8. ASSUME kind # "concat" PROVE InTurn
  <2>1. BlockFull BY <1>4, <1>8
  <2>2. Turn(phase, 0) \in Ticket BY <1>5, TurnTicket
  <2>3. 0 \in Ticket BY <1>5 DEF ScheduleInit
  <2>4. \A s \in Source : Served(s, 0, Turn(phase, 0)) = 0 BY <2>1, <2>2, <2>3, ServedStep
  <2>5. \A s \in Source : 0 * quota[s] + Served(s, 0, Turn(phase, 0)) = 0 BY <1>2, <2>4
  <2>6. drawn = [s \in Source |-> 0 * quota[s] + Served(s, 0, Turn(phase, 0))] BY <1>5, <2>5
  <2> QED BY <1>5, <1>7, <2>1, <2>6 DEF InTurn
<1>9. InCycle BY <1>5 DEF InCycle
<1> QED BY <1>5, <1>6, <1>8, <1>9 DEF ScheduleInv

LEMMA ScheduleKeeps == ScheduleInv /\ [Draw]_scheduleVars => ScheduleInv'
<1> SUFFICES ASSUME ScheduleInv, [Draw]_scheduleVars PROVE ScheduleInv' OBVIOUS
<1> USE DEF ScheduleInv
<1>1. CASE UNCHANGED scheduleVars
  <2> USE DEF scheduleVars
  <2>1. BlockFull' <=> BlockFull BY <1>1 DEF BlockFull, Rank
  <2>2. InTurn' <=> InTurn BY <1>1, <2>1 DEF InTurn, Served, Rank, Turn
  <2>3. InCycle' <=> InCycle BY <1>1 DEF InCycle, RowAt
  <2> QED BY <1>1, <2>2, <2>3
<1>2. CASE Draw
  <2>1. draw' = draw + 1 /\ draw' \in Nat /\ UNCHANGED <<kind, world, quota, block>> BY <1>2 DEF Draw
  <2>2. CASE DrawTicket
    <3>1. kind # "concat" /\ affine' = affine BY <2>2 DEF DrawTicket
    <3>2. InTurn' /\ phase' \in Ticket BY <2>1, <2>2, <3>1, TicketDrawn
    <3> QED BY <2>1, <3>1, <3>2
  <2>3. CASE DrawRow
    <3>1. kind = "concat" /\ phase' = phase BY <2>3 DEF DrawRow
    <3>2. InCycle' /\ affine' \in Multipliers \X Ticket BY <2>1, <2>3, <3>1, RowDrawn
    <3> QED BY <2>1, <3>1, <3>2
  <2> QED BY <1>2, <2>2, <2>3 DEF Draw
<1> QED BY <1>1, <1>2

LEMMA InvWithoutReplacement == ScheduleInv => WithoutReplacement
<1> SUFFICES ASSUME ScheduleInv PROVE WithoutReplacement OBVIOUS
<1>1. ASSUME kind = "concat", draw > 0 PROVE Cardinality(rows) = ((draw - 1) % BlockSize) + 1
  <2>1. rows = {RowAt(affine, i) : i \in 0 .. (draw - 1) % BlockSize}
    BY <1>1 DEF ScheduleInv, InCycle
  <2>2. (draw - 1) % BlockSize \in Ticket
    <3>1. draw - 1 \in Int BY DEF ScheduleInv
    <3> QED BY <3>1, Steps, Division DEF Ticket
  <2>3. affine \in Multipliers \X Ticket BY DEF ScheduleInv
  <2> QED BY <2>1, <2>2, <2>3, CycleRows
<1>2. ASSUME kind # "concat", draw > 0 PROVE last[2] = drawn[last[1]] - 1
  BY <1>2 DEF ScheduleInv, InTurn
<1> QED BY <1>1, <1>2 DEF WithoutReplacement

\* A source's draws are its samples in order, over rotated blocks and changes of phase, and a
\* concat cycle draws every row once (_resolve_weighted, _resolve_concat).
THEOREM DrawnInOrder == ScheduleSpec => []WithoutReplacement
<1>1. ScheduleSpec => []ScheduleInv
  BY ScheduleStarts, ScheduleKeeps, PTL DEF ScheduleSpec
<1> QED BY <1>1, InvWithoutReplacement, PTL

-----------------------------------------------------------------------------
(***************************************************************************)
(* Tickets and ranks.                                                      *)
(***************************************************************************)
LEMMA CoprimeSwap ==
    ASSUME NEW m \in Nat \ {0}, NEW n \in Nat \ {0}, Coprime(m, n)
    PROVE  Coprime(n, m)
<1> SUFFICES ASSUME NEW d \in 2 .. n, n % d = 0, m % d = 0 PROVE FALSE BY DEF Coprime
<1>1. d <= m
  <2> SUFFICES ASSUME d > m PROVE FALSE OBVIOUS
  <2>1. d \in Nat \ {0} /\ m \in 0 .. d - 1 OBVIOUS
  <2>2. (d * 0 + m) % d = m BY <2>1, DivisionUnique
  <2> QED BY <2>1, <2>2
<1>2. d \in 2 .. m BY <1>1
<1> QED BY <1>2 DEF Coprime

LEMMA StepCoprime ==
    ASSUME NEW w \in Worlds
    PROVE  /\ w \in Nat \ {0} /\ BlockSize + RotationStep \in Nat \ {0}
           /\ Coprime(BlockSize + RotationStep, w)
<1>1. w \in Nat \ {0} BY ScheduleAssumption DEF Worlds
<1>2. BlockSize + RotationStep \in Nat \ {0} BY Steps
<1>3. Coprime(w, BlockSize + RotationStep)
  <2>1. CASE BlockSize > 1 BY <2>1, Steps DEF Reaching
  <2>2. CASE ~(BlockSize > 1)
    <3>1. BlockSize + RotationStep = 1 BY <2>2, Steps DEF RotationStep
    <3>2. ASSUME NEW d \in 2 .. w PROVE 1 % d # 0
      <4>1. d \in Nat \ {0} /\ 1 \in 0 .. d - 1 BY <1>1
      <4>2. (d * 0 + 1) % d = 1 BY <4>1, DivisionUnique
      <4> QED BY <4>1, <4>2
    <3> QED BY <3>1, <3>2 DEF Coprime
  <2> QED BY <2>1, <2>2
<1> QED BY <1>1, <1>2, <1>3, CoprimeSwap

\* A number whose product with d is a multiple of w is a multiple of w.
LEMMA StepApart ==
    ASSUME NEW d \in Nat \ {0}, NEW w \in Nat \ {0}, Coprime(d, w),
           NEW K \in Int, NEW i \in Int, NEW k \in Int, i < k, (K + d * i) % w = (K + d * k) % w
    PROVE  k - i >= w
<1> SUFFICES ASSUME k - i < w PROVE FALSE OBVIOUS
<1> DEFINE n == k - i
<1>1. n \in 1 .. w /\ n # w /\ n \in Int OBVIOUS
<1>2. PICK c \in Int : K + d * k = K + d * i + w * c
  <2>1. K + d * k \in Int /\ K + d * i \in Int OBVIOUS
  <2> QED BY <2>1, RemainderApart
<1>3. d * n = d * k - d * i BY Distribute
<1>4. d * n = w * c
  <2> DEFINE u == d * i  v == d * k  y == w * c
  <2>1. u \in Int /\ v \in Int /\ y \in Int /\ K + v = K + u + y /\ d * n = v - u BY <1>2, <1>3
  <2> HIDE DEF u, v, y, n
  <2>2. v - u = y BY <2>1
  <2> QED BY <2>1, <2>2 DEF y
<1>5. (d * n) % w = 0
  <2>1. (w * c + 0) % w = 0 BY <1>2, DivisionUnique
  <2>2. w * c + 0 = d * n BY <1>2, <1>4
  <2> QED BY <2>1, <2>2
<1> HIDE DEF n
<1> QED BY <1>1, <1>5, CoprimeCancels

\* Every remainder can be reached from every other.
Reachable(d, w, q, r) == \E n \in 0 .. w - 1 : (q + d * n) % w = r

LEMMA StepReaches ==
    ASSUME NEW d \in Nat \ {0}, NEW w \in Nat \ {0}, Coprime(d, w),
           NEW q \in 0 .. w - 1, NEW r \in 0 .. w - 1
    PROVE  Reachable(d, w, q, r)
<1> DEFINE S == 0 .. w - 1
           f == [n \in S |-> (q + d * n) % w]
<1>1. f \in [S -> S]
  <2> SUFFICES ASSUME NEW n \in S PROVE (q + d * n) % w \in S OBVIOUS
  <2>1. q + d * n \in Int OBVIOUS
  <2> QED BY <2>1, Division
<1>2. \A i, k \in S : f[i] = f[k] => i = k
  <2> SUFFICES ASSUME NEW i \in S, NEW k \in S, i < k, f[i] = f[k] PROVE FALSE
    <3>1. \A i, k \in S : i < k => f[i] # f[k] OBVIOUS
    <3> HIDE DEF f
    <3>2. \A i, k \in S : i = k \/ i < k \/ k < i OBVIOUS
    <3> QED BY <3>1, <3>2
  <2>1. (q + d * i) % w = (q + d * k) % w /\ i \in Int /\ k \in Int /\ q \in Int OBVIOUS
  <2>2. k - i >= w BY <2>1, StepApart
  <2> QED BY <2>2
<1>3. IsFiniteSet(S)
  <2>1. 0 \in Int /\ w - 1 \in Int OBVIOUS
  <2> QED BY <2>1, FS_Interval
<1>4. f \in Surjection(S, S)
  <2> HIDE DEF f, S
  <2>1. f \in Injection(S, S) BY <1>1, <1>2, Fun_IsInj
  <2> QED BY <1>3, <2>1, FS_Injection
<1>5. PICK n \in S : f[n] = r
  <2>1. r \in S OBVIOUS
  <2> HIDE DEF f, S
  <2> QED BY <1>4, <2>1 DEF Surjection
<1> QED BY <1>5 DEF Reachable

Interval(I) == \A i, k \in I : \A n \in Nat : i <= n /\ n <= k => n \in I

\* In an interval of steps every remainder occurs about equally often.
LEMMA StepsBalanced ==
    ASSUME NEW d \in Nat \ {0}, NEW w \in Nat \ {0}, Coprime(d, w), NEW K \in Int,
           NEW I \in SUBSET Nat, IsFiniteSet(I), Interval(I),
           NEW q \in 0 .. w - 1, NEW r \in 0 .. w - 1
    PROVE  Cardinality({i \in I : (K + d * i) % w = q})
               <= Cardinality({i \in I : (K + d * i) % w = r}) + 1
<1> DEFINE at == [i \in I |-> (K + d * i) % w]
           Q == {i \in I : at[i] = q}
           R == {i \in I : at[i] = r}
<1>0. \A i \in I : i \in Nat /\ at[i] = (K + d * i) % w OBVIOUS
<1> HIDE DEF at
<1>1. /\ IsFiniteSet(Q) /\ Cardinality(Q) \in Nat /\ IsFiniteSet(R) /\ Cardinality(R) \in Nat
      /\ Q \in SUBSET Int
  <2>1. Q \in SUBSET I /\ R \in SUBSET I OBVIOUS
  <2> HIDE DEF Q, R
  <2>2. IsFiniteSet(Q) /\ IsFiniteSet(R) BY <2>1, FS_Subset
  <2>3. Q \in SUBSET Int
    <3>1. \A i \in I : i \in Int OBVIOUS
    <3> QED BY <2>1, <3>1
  <2> QED BY <2>1, <2>2, <2>3, FS_CardinalityType
<1>2. ASSUME Q = {} PROVE Cardinality(Q) <= Cardinality(R) + 1
  <2>1. Cardinality(Q) = 0 BY <1>2, FS_EmptySet
  <2> HIDE DEF Q, R
  <2> QED BY <1>1, <2>1
<1>3. ASSUME q = r PROVE Cardinality(Q) <= Cardinality(R) + 1
  <2>1. Cardinality(Q) = Cardinality(R) BY <1>3
  <2> HIDE DEF Q, R
  <2> QED BY <1>1, <2>1
<1>4. ASSUME Q # {}, q # r PROVE Cardinality(Q) <= Cardinality(R) + 1
  <2> DEFINE M == Max(Q)
  <2>1. M \in Q /\ \A i \in Q : i <= M
    <3> HIDE DEF Q, R
    <3> QED BY <1>1, <1>4, Largest
  <2> HIDE DEF M
  <2>2. M \in I /\ M \in Nat /\ (K + d * M) % w = q BY <1>0, <2>1
  <2>3. PICK n \in 0 .. w - 1 : (q + d * n) % w = r
    <3>1. Reachable(d, w, q, r) BY StepReaches
    <3> QED BY <3>1 DEF Reachable
  <2> DEFINE A == Q \ {M}
             f == [i \in A |-> i + n]
  <2>4. ASSUME NEW i \in A PROVE f[i] \in R /\ i \in Nat
    <3>1. i \in I /\ i \in Nat /\ (K + d * i) % w = q /\ i < M BY <1>0, <2>1, <2>2
    <3>2. M - i >= w
      <4>1. (K + d * i) % w = (K + d * M) % w /\ i \in Int /\ M \in Int BY <2>2, <3>1
      <4> QED BY <3>1, <4>1, StepApart
    <3>3. i + n \in I /\ i + n \in Nat
      <4>1. i + n \in Nat /\ i <= i + n /\ i + n <= M BY <2>2, <2>3, <3>1, <3>2
      <4> QED BY <2>2, <3>1, <4>1 DEF Interval
    <3>4. (K + d * (i + n)) % w = r
      <4>1. K + d * (i + n) = (K + d * i) + d * n /\ K + d * i \in Int /\ d * n \in Int
        BY <2>3, <3>1
      <4>2. (((K + d * i) % w) + d * n) % w = ((K + d * i) + d * n) % w BY <4>1, RemainderSum
      <4> QED BY <2>3, <3>1, <4>1, <4>2
    <3>5. f[i] = i + n OBVIOUS
    <3> QED BY <1>0, <3>1, <3>3, <3>4, <3>5
  <2>5. Cardinality(A) <= Cardinality(R)
    <3>1. IsFiniteSet(A) BY <1>1, FS_Subset
    <3>2. \A x, y \in A : f[x] = f[y] => x = y
      <4>1. \A x \in A : x \in Nat /\ f[x] = x + n BY <2>4
      <4> HIDE DEF f, A
      <4> QED BY <2>3, <4>1
    <3>3. {f[x] : x \in A} \in SUBSET R BY <2>4
    <3> HIDE DEF f, A, R
    <3>4. Cardinality({f[x] : x \in A}) = Cardinality(A) BY <3>1, <3>2, Image
    <3> QED BY <1>1, <3>3, <3>4, FS_Subset
  <2>6. Cardinality(A) = Cardinality(Q) - 1
    <3> HIDE DEF Q
    <3> QED BY <1>1, <2>1, FS_RemoveElement
  <2> HIDE DEF A, Q, R
  <2>7. Cardinality(Q) <= Cardinality(R) + 1
    <3>1. Cardinality(Q) \in Nat /\ Cardinality(R) \in Nat BY <1>1
    <3> QED BY <2>5, <2>6, <3>1
  <2> QED BY <2>7
<1>5. Cardinality(Q) <= Cardinality(R) + 1 BY <1>2, <1>3, <1>4
<1>6. Q = {i \in I : (K + d * i) % w = q} /\ R = {i \in I : (K + d * i) % w = r} BY <1>0
<1> HIDE DEF Q, R
<1> QED BY <1>5, <1>6

\* Where a ticket is in the blocks of a group that begins with block `base' and has the phase p:
\* at place Place of block base + j, after so many wraps of the rotation, on rank RankAt.
Along(t, p, j) == ((t - p) % BlockSize) + RotationStep * j
Wraps(t, p, j) == Along(t, p, j) \div BlockSize
PlaceIn(t, p, j) == Along(t, p, j) % BlockSize
RankAt(t, p, base, j) == (BlockSize * (base + j) + PlaceIn(t, p, j)) % world

\* The blocks of the run of block `now' in which the ticket met a rank: those before block `end'
\* that are as many wraps away.
Meetings(t, p, base, now, end, rank) ==
    {j \in 0 .. end - 1 : Wraps(t, p, j) = Wraps(t, p, now) /\ RankAt(t, p, base, j) = rank}

\* With j blocks of a group behind it, a ticket has met two ranks equally often but for one time
\* in each run, and for the last run, which is counted.
Uneven(t, p, base, j, q, r) ==
    IF j = 0 THEN 0
    ELSE Wraps(t, p, j - 1) + Cardinality(Meetings(t, p, base, j - 1, j, q))
                            - Cardinality(Meetings(t, p, base, j - 1, j, r))

RanksOf == 0 .. world - 1

LEMMA AlongTyped ==
    ASSUME NEW t \in Ticket, NEW p \in Ticket, NEW j \in Nat
    PROVE  /\ Along(t, p, j) \in Nat /\ Wraps(t, p, j) \in Nat /\ PlaceIn(t, p, j) \in Ticket
           /\ (t - p) % BlockSize \in Ticket
           /\ Along(t, p, j) = BlockSize * Wraps(t, p, j) + PlaceIn(t, p, j)
<1>1. BlockSize \in Nat \ {0} /\ RotationStep \in Nat BY Steps
<1>2. (t - p) % BlockSize \in 0 .. BlockSize - 1
  <2>1. t - p \in Int BY DEF Ticket
  <2> QED BY <1>1, <2>1, Division
<1>3. Along(t, p, j) \in Nat
  <2>1. RotationStep * j \in Nat BY <1>1
  <2> QED BY <1>2, <2>1 DEF Along
<1> DEFINE x == Along(t, p, j)
<1> HIDE DEF x
<1>4. x \in Nat BY <1>3 DEF x
<1>5. x \div BlockSize \in Nat /\ x % BlockSize \in 0 .. BlockSize - 1
      /\ x = BlockSize * (x \div BlockSize) + (x % BlockSize)
  BY <1>1, <1>4, NextRemainder, Division
<1> QED BY <1>2, <1>3, <1>5 DEF x, Wraps, PlaceIn, Ticket

\* The wraps never become fewer.
LEMMA WrapsRise ==
    ASSUME NEW t \in Ticket, NEW p \in Ticket, NEW i \in Nat, NEW j \in Nat, i <= j
    PROVE  /\ Wraps(t, p, i) <= Wraps(t, p, j) /\ Wraps(t, p, 0) = 0
           /\ Wraps(t, p, j) <= CeilDiv(RotationStep * j, BlockSize)
           /\ CeilDiv(RotationStep * j, BlockSize) \in Int
<1> DEFINE c == (t - p) % BlockSize  m == RotationStep * i  n == RotationStep * j
<1>1. BlockSize \in Nat \ {0} /\ RotationStep \in Nat BY Steps
<1>2. c \in 0 .. BlockSize - 1 BY AlongTyped DEF Ticket
<1>3. m \in Nat /\ n \in Nat /\ m <= n
  <2>1. j - i \in Nat /\ j = i + (j - i) OBVIOUS
  <2>2. n = m + RotationStep * (j - i) BY <1>1, <2>1, Distribute
  <2>3. RotationStep * (j - i) \in Nat /\ m \in Nat BY <1>1, <2>1
  <2> HIDE DEF m, n
  <2> QED BY <2>2, <2>3
<1>4. Along(t, p, i) = c + m /\ Along(t, p, j) = c + n BY DEF Along
<1>5. Along(t, p, 0) = c
  <2>1. RotationStep * 0 = 0 BY <1>1
  <2> HIDE DEF c
  <2> QED BY <1>2, <2>1 DEF Along, c
<1> HIDE DEF c, m, n
<1>6. (c + m) \div BlockSize <= (c + n) \div BlockSize
  <2>1. c + m \in Int /\ c + n \in Int /\ c + m <= c + n BY <1>2, <1>3
  <2> QED BY <1>1, <2>1, LargerQuotient
<1>7. (c + n) \div BlockSize <= CeilDiv(n, BlockSize) /\ CeilDiv(n, BlockSize) \in Int
  <2> DEFINE l == n + BlockSize - 1
  <2>1. c + n \in Int /\ l \in Int /\ c + n <= l BY <1>1, <1>2, <1>3
  <2> HIDE DEF l
  <2>2. (c + n) \div BlockSize <= l \div BlockSize /\ l \div BlockSize \in Int
    BY <1>1, <2>1, LargerQuotient, Division
  <2> QED BY <2>2 DEF l, CeilDiv
<1>8. c \div BlockSize = 0
  <2>1. (BlockSize * 0 + c) \div BlockSize = 0 BY <1>1, <1>2, DivisionUnique
  <2>2. BlockSize * 0 + c = c BY <1>1, <1>2
  <2> QED BY <2>1, <2>2
<1> QED BY <1>4, <1>5, <1>6, <1>7, <1>8 DEF Wraps, n

\* Within a run the meetings are balanced.
LEMMA RunBalanced ==
    ASSUME world \in Worlds, NEW t \in Ticket, NEW p \in Ticket, NEW base \in Nat,
           NEW now \in Nat, NEW end \in Nat, NEW q \in RanksOf, NEW r \in RanksOf
    PROVE  /\ Cardinality(Meetings(t, p, base, now, end, q)) \in Nat
           /\ Cardinality(Meetings(t, p, base, now, end, r)) \in Nat
           /\ Cardinality(Meetings(t, p, base, now, end, q))
                  <= Cardinality(Meetings(t, p, base, now, end, r)) + 1
<1> DEFINE d == BlockSize + RotationStep
           c == (t - p) % BlockSize
           F == Wraps(t, p, now)
           K == (BlockSize * base + c) - BlockSize * F
           I == {j \in 0 .. end - 1 : Wraps(t, p, j) = F}
           M(x) == {j \in I : (K + d * j) % world = x}
<1>1. BlockSize \in Nat \ {0} /\ RotationStep \in Nat /\ world \in Nat \ {0} /\ d \in Nat \ {0}
      /\ Coprime(d, world)
  BY Steps, StepCoprime
<1>2. F \in Nat /\ c \in Nat
  <2>1. F \in Nat /\ c \in Ticket BY AlongTyped
  <2> HIDE DEF F, c
  <2> QED BY <2>1 DEF Ticket
<1>3. K \in Int
  <2>1. BlockSize * base \in Int /\ BlockSize * F \in Int BY <1>1, <1>2
  <2> QED BY <1>2, <2>1
<1>4. \A j \in I : RankAt(t, p, base, j) = (K + d * j) % world
  <2> SUFFICES ASSUME NEW j \in I
               PROVE  BlockSize * (base + j) + PlaceIn(t, p, j) = K + d * j
    BY DEF RankAt
  <2>1. j \in Nat /\ Wraps(t, p, j) = F OBVIOUS
  <2> DEFINE x == RotationStep * j  y == BlockSize * j  b == BlockSize * base  f == BlockSize * F
             s == PlaceIn(t, p, j)
  <2>2. x \in Int /\ y \in Int /\ b \in Int /\ f \in Int BY <1>1, <1>2, <2>1
  <2>3. s \in Int /\ c + x = f + s BY <2>1, AlongTyped DEF Along, Ticket
  <2>4. BlockSize * (base + j) = b + y BY <1>1, <2>1, Distribute
  <2>5. d * j = y + x BY <1>1, <2>1
  <2>6. K = (b + c) - f OBVIOUS
  <2> HIDE DEF x, y, b, f, s, c, K, d
  <2>7. (b + y) + s = K + (y + x) BY <1>2, <2>2, <2>3, <2>6
  <2> QED BY <2>4, <2>5, <2>7 DEF s
<1>5. IsFiniteSet(I) /\ I \in SUBSET Nat
  <2>1. IsFiniteSet(0 .. end - 1)
    <3>1. 0 \in Int /\ end - 1 \in Int OBVIOUS
    <3> QED BY <3>1, FS_Interval
  <2>2. I \in SUBSET (0 .. end - 1) OBVIOUS
  <2>3. \A j \in 0 .. end - 1 : j \in Nat OBVIOUS
  <2>4. I \in SUBSET Nat BY <2>2, <2>3
  <2> DEFINE E == 0 .. end - 1
  <2>5. IsFiniteSet(E) /\ I \subseteq E BY <2>1, <2>2
  <2> HIDE DEF I, E
  <2>6. IsFiniteSet(I) BY <2>5, FS_Subset
  <2> QED BY <2>4, <2>6
<1>6. Interval(I)
  <2> SUFFICES ASSUME NEW i \in I, NEW k \in I, NEW n \in Nat, i <= n, n <= k PROVE n \in I
    BY DEF Interval
  <2>1. n \in 0 .. end - 1 /\ i \in Nat /\ k \in Nat OBVIOUS
  <2>2. Wraps(t, p, i) <= Wraps(t, p, n) /\ Wraps(t, p, n) <= Wraps(t, p, k) BY <2>1, WrapsRise
  <2>3. Wraps(t, p, i) = F /\ Wraps(t, p, k) = F OBVIOUS
  <2>4. Wraps(t, p, n) \in Nat BY AlongTyped
  <2>5. Wraps(t, p, n) = F
    <3> HIDE DEF F
    <3> QED BY <1>2, <2>2, <2>3, <2>4
  <2> QED BY <2>1, <2>5
<1>7. \A x : Meetings(t, p, base, now, end, x) = M(x)
  <2>1. \A x : Meetings(t, p, base, now, end, x) = {j \in I : RankAt(t, p, base, j) = x}
    BY DEF Meetings
  <2> HIDE DEF I, K, d
  <2> QED BY <1>4, <2>1
<1>8. ASSUME NEW x PROVE Cardinality(M(x)) \in Nat
  <2>1. M(x) \in SUBSET I OBVIOUS
  <2> HIDE DEF M, I
  <2> QED BY <1>5, <2>1, FS_Subset, FS_CardinalityType
<1>9. Cardinality(M(q)) <= Cardinality(M(r)) + 1
  <2>1. q \in 0 .. world - 1 /\ r \in 0 .. world - 1 BY DEF RanksOf
  <2> HIDE DEF I, K, d
  <2> QED BY <1>1, <1>3, <1>5, <1>6, <2>1, StepsBalanced
<1> HIDE DEF M
<1> QED BY <1>7, <1>8, <1>9

\* What may be between two ranks after so many blocks of a group.
LEMMA UnevenBound ==
    ASSUME world \in Worlds, NEW t \in Ticket, NEW p \in Ticket, NEW base \in Nat,
           NEW j \in Nat, NEW q \in RanksOf, NEW r \in RanksOf
    PROVE  /\ Uneven(t, p, base, j, q, r) \in Int /\ Discrepancy(j) \in Int
           /\ Uneven(t, p, base, j, q, r) <= Discrepancy(j)
<1>1. CASE j = 0 BY <1>1 DEF Uneven, Discrepancy
<1>2. CASE j # 0
  <2> DEFINE i == j - 1
             a == Cardinality(Meetings(t, p, base, i, j, q))
             b == Cardinality(Meetings(t, p, base, i, j, r))
             m == CeilDiv(RotationStep * i, BlockSize)
  <2>1. i \in Nat BY <1>2
  <2>2. a \in Nat /\ b \in Nat /\ a <= b + 1
    <3> HIDE DEF i
    <3> QED BY <2>1, RunBalanced
  <2>3. Wraps(t, p, i) \in Nat /\ Wraps(t, p, i) <= m /\ m \in Int
    <3>1. i <= i BY <2>1
    <3> HIDE DEF i
    <3> QED BY <2>1, <3>1, WrapsRise, AlongTyped
  <2>4. Uneven(t, p, base, j, q, r) = (Wraps(t, p, i) + a) - b /\ Discrepancy(j) = 1 + m
    <3>1. Uneven(t, p, base, j, q, r) = Wraps(t, p, i) + a - b BY <1>2 DEF Uneven
    <3>2. Discrepancy(j) = 1 + m BY <1>2 DEF Discrepancy
    <3> HIDE DEF a, b, i, m
    <3> QED BY <2>2, <2>3, <3>1, <3>2
  <2> HIDE DEF a, b, i, m
  <2> QED BY <2>2, <2>3, <2>4
<1> QED BY <1>1, <1>2

\* A block more is one meeting more, with the rank that the block has for the ticket.
LEMMA UnevenStep ==
    ASSUME world \in Worlds, NEW t \in Ticket, NEW p \in Ticket, NEW base \in Nat,
           NEW j \in Nat, NEW q \in RanksOf, NEW r \in RanksOf
    PROVE  (Uneven(t, p, base, j, q, r) + IF q = RankAt(t, p, base, j) THEN 1 ELSE 0)
           - (IF r = RankAt(t, p, base, j) THEN 1 ELSE 0)
               <= Uneven(t, p, base, j + 1, q, r)
<1> DEFINE here(x) == IF x = RankAt(t, p, base, j) THEN 1 ELSE 0
           met0(x) == Cardinality(Meetings(t, p, base, j, j, x))
           w == Wraps(t, p, j)
<1>1. w \in Nat BY AlongTyped
<1>2. ASSUME NEW x \in RanksOf
      PROVE  /\ met0(x) \in Nat
             /\ Cardinality(Meetings(t, p, base, j, j + 1, x)) = met0(x) + here(x)
  <2> DEFINE M == Meetings(t, p, base, j, j, x)
  <2>1. IsFiniteSet(M)
    <3>1. IsFiniteSet(0 .. j - 1)
      <4>1. 0 \in Int /\ j - 1 \in Int OBVIOUS
      <4> QED BY <4>1, FS_Interval
    <3>2. M \in SUBSET (0 .. j - 1) BY DEF Meetings
    <3> HIDE DEF M
    <3> QED BY <3>1, <3>2, FS_Subset
  <2>2. j \notin M BY DEF Meetings
  <2>3. Meetings(t, p, base, j, j + 1, x)
            = IF x = RankAt(t, p, base, j) THEN M \cup {j} ELSE M
    <3>1. \A i : i \in 0 .. (j + 1) - 1 <=> i \in 0 .. j - 1 \/ i = j OBVIOUS
    <3> QED BY <3>1 DEF Meetings
  <2> HIDE DEF M
  <2>4. Cardinality(M \cup {j}) = Cardinality(M) + 1 BY <2>1, <2>2, FS_AddElement
  <2>5. Cardinality(M) \in Nat BY <2>1, FS_CardinalityType
  <2> QED BY <2>3, <2>4, <2>5 DEF M
<1>3. Uneven(t, p, base, j, q, r) \in Int
      /\ Uneven(t, p, base, j, q, r) <= (w + met0(q)) - met0(r)
  <2>1. CASE j = 0
    <3>1. \A x : Meetings(t, p, base, j, j, x) = {} BY <2>1 DEF Meetings
    <3>2. met0(q) = 0 /\ met0(r) = 0 BY <3>1, FS_EmptySet
    <3>3. Uneven(t, p, base, j, q, r) = 0 BY <2>1 DEF Uneven
    <3> HIDE DEF met0, w
    <3> QED BY <1>1, <3>2, <3>3
  <2>2. CASE j # 0
    <3> DEFINE i == j - 1
               a == Cardinality(Meetings(t, p, base, i, j, q))
               b == Cardinality(Meetings(t, p, base, i, j, r))
               v == Wraps(t, p, i)
    <3>1. i \in Nat /\ i <= j /\ i < j BY <2>2
    <3>2. a \in Nat /\ b \in Nat /\ a <= b + 1
      <4> HIDE DEF i
      <4> QED BY <3>1, RunBalanced
    <3>3. v \in Nat /\ v <= w
      <4> HIDE DEF i
      <4> QED BY <3>1, WrapsRise, AlongTyped
    <3>4. Uneven(t, p, base, j, q, r) = (v + a) - b
      <4>1. Uneven(t, p, base, j, q, r) = v + a - b BY <2>2 DEF Uneven
      <4> HIDE DEF a, b, v
      <4> QED BY <3>2, <3>3, <4>1
    <3>5. CASE v = w
      <4>1. met0(q) = a /\ met0(r) = b BY <3>5 DEF Meetings
      <4> HIDE DEF a, b, v, w, met0
      <4> QED BY <1>1, <3>2, <3>3, <3>4, <3>5, <4>1
    <3>6. CASE v # w
      <4>1. ASSUME NEW k \in 0 .. j - 1 PROVE Wraps(t, p, k) # Wraps(t, p, j)
        <5>1. k \in Nat /\ k <= i BY <3>1
        <5>2. Wraps(t, p, k) <= v /\ Wraps(t, p, k) \in Nat
          <6> HIDE DEF i
          <6> QED BY <3>1, <5>1, WrapsRise, AlongTyped
        <5> HIDE DEF v
        <5> QED BY <1>1, <3>3, <3>6, <5>2 DEF w
      <4>2. \A x : Meetings(t, p, base, j, j, x) = {} BY <4>1 DEF Meetings
      <4>3. met0(q) = 0 /\ met0(r) = 0 BY <4>2, FS_EmptySet
      <4> HIDE DEF a, b, v, w, met0
      <4> QED BY <1>1, <3>2, <3>3, <3>4, <3>6, <4>3
    <3> QED BY <3>5, <3>6
  <2> QED BY <2>1, <2>2
<1>4. Uneven(t, p, base, j + 1, q, r) = (w + (met0(q) + here(q))) - (met0(r) + here(r))
  <2>1. Uneven(t, p, base, j + 1, q, r)
            = w + Cardinality(Meetings(t, p, base, j, j + 1, q))
                - Cardinality(Meetings(t, p, base, j, j + 1, r))
    <3>1. j + 1 # 0 /\ (j + 1) - 1 = j OBVIOUS
    <3> QED BY <3>1 DEF Uneven
  <2>2. here(q) \in Nat /\ here(r) \in Nat OBVIOUS
  <2> HIDE DEF w, met0, here
  <2> QED BY <1>1, <1>2, <2>1, <2>2
<1>5. here(q) \in Nat /\ here(r) \in Nat OBVIOUS
<1>6. (Uneven(t, p, base, j, q, r) + here(q)) - here(r) <= Uneven(t, p, base, j + 1, q, r)
  <2>1. met0(q) \in Nat /\ met0(r) \in Nat BY <1>2
  <2> HIDE DEF w, met0, here
  <2> QED BY <1>1, <1>3, <1>4, <1>5, <2>1
<1> QED BY <1>6

\* The ticket that a place of a block has, and the place that a ticket has.
LEMMA TicketPlace ==
    ASSUME NEW t \in Ticket, NEW p \in Ticket, NEW j \in Nat, NEW o \in Ticket
    PROVE  t = (o + ((p - RotationStep * j) % BlockSize)) % BlockSize <=> PlaceIn(t, p, j) = o
<1> DEFINE m == p - RotationStep * j
<1>1. BlockSize \in Nat \ {0} /\ RotationStep * j \in Int BY Steps
<1>2. m \in Int /\ t \in 0 .. BlockSize - 1 /\ o \in 0 .. BlockSize - 1 /\ p \in Int
  BY <1>1 DEF Ticket
<1>3. (o + (m % BlockSize)) % BlockSize = (o + m) % BlockSize
  <2> HIDE DEF m
  <2>1. ((m % BlockSize) + o) % BlockSize = (m + o) % BlockSize
    <3>1. o \in Int /\ m \in Int /\ BlockSize \in Nat \ {0} BY <1>1, <1>2
    <3> QED BY <3>1, RemainderSum
  <2>2. m % BlockSize \in Int BY <1>1, <1>2, Division
  <2>3. o + (m % BlockSize) = (m % BlockSize) + o /\ o + m = m + o BY <1>2, <2>2
  <2> QED BY <2>1, <2>3
<1>4. PlaceIn(t, p, j) = (t - m) % BlockSize
  <2> DEFINE x == RotationStep * j
  <2>1. x \in Int /\ t - p \in Int /\ m = p - x BY <1>1, <1>2
  <2> HIDE DEF x, m
  <2>2. (((t - p) % BlockSize) + x) % BlockSize = ((t - p) + x) % BlockSize
    BY <1>1, <2>1, RemainderSum
  <2>3. (t - p) + x = t - m BY <1>2, <2>1
  <2> QED BY <2>2, <2>3 DEF PlaceIn, Along, x
<1> HIDE DEF m
<1>5. ASSUME t = (o + m) % BlockSize PROVE (t - m) % BlockSize = o
  BY <1>1, <1>2, <1>5, ThereAndBack
<1>6. ASSUME (t - m) % BlockSize = o PROVE t = (o + m) % BlockSize
  <2>1. -m \in Int /\ t + (-m) = t - m /\ o - (-m) = o + m BY <1>2
  <2>2. (((t + (-m)) % BlockSize) - (-m)) % BlockSize = t BY <1>1, <1>2, <2>1, ThereAndBack
  <2> QED BY <1>6, <2>1, <2>2
<1> QED BY <1>3, <1>4, <1>5, <1>6 DEF m

\* How far a ticket's meetings with two ranks may be apart when the draws have come to a place
\* of a block: the groups behind it, and the blocks of this group in which it was drawn.
GroupStart(n) == (n \div PhaseBlocks) * PhaseBlocks

BlocksBehind(t, p, n, place) ==
    (n % PhaseBlocks) + IF PlaceIn(t, p, n % PhaseBlocks) < place THEN 1 ELSE 0

Allowed(t, p, n, place, q, r) ==
    (n \div PhaseBlocks) * Discrepancy(PhaseBlocks)
        + Uneven(t, p, GroupStart(n), BlocksBehind(t, p, n, place), q, r)

MeetInv ==
    kind = "weighted" =>
        /\ world \in Worlds /\ met \in [Ticket -> [RanksOf -> Int]]
        /\ \A t \in Ticket : \A q, r \in RanksOf :
               met[t][q] - met[t][r]
                   <= Allowed(t, phase, draw \div BlockSize, draw % BlockSize, q, r)

LEMMA AllowedTyped ==
    ASSUME world \in Worlds, NEW t \in Ticket, NEW p \in Ticket, NEW n \in Nat, NEW place \in Nat,
           NEW q \in RanksOf, NEW r \in RanksOf
    PROVE  /\ GroupStart(n) \in Nat /\ n % PhaseBlocks \in 0 .. PhaseBlocks - 1
           /\ n % PhaseBlocks \in Nat /\ n \div PhaseBlocks \in Nat
           /\ n = GroupStart(n) + (n % PhaseBlocks)
           /\ BlocksBehind(t, p, n, place) \in Nat
           /\ (n \div PhaseBlocks) * Discrepancy(PhaseBlocks) \in Int
           /\ Uneven(t, p, GroupStart(n), BlocksBehind(t, p, n, place), q, r) \in Int
           /\ Allowed(t, p, n, place, q, r) \in Int
<1> DEFINE g == n % PhaseBlocks  k == n \div PhaseBlocks
<1>1. PhaseBlocks \in Nat \ {0} /\ n \in Int BY Steps
<1>2. g \in 0 .. PhaseBlocks - 1 /\ k \in Nat /\ n = PhaseBlocks * k + g
  BY <1>1, Division, NextRemainder
<1>3. g \in Nat BY <1>1, <1>2
<1> HIDE DEF g, k
<1>4. k * PhaseBlocks \in Nat /\ k * PhaseBlocks = PhaseBlocks * k BY <1>1, <1>2
<1>5. GroupStart(n) \in Nat /\ n = GroupStart(n) + g BY <1>2, <1>4 DEF GroupStart, k
<1>6. BlocksBehind(t, p, n, place) \in Nat BY <1>3 DEF BlocksBehind, g
<1>7. Uneven(t, p, GroupStart(n), BlocksBehind(t, p, n, place), q, r) \in Int BY <1>5, <1>6, UnevenBound
<1>8. k * Discrepancy(PhaseBlocks) \in Int
  <2>1. Discrepancy(PhaseBlocks) \in Int BY <1>1, <1>5, UnevenBound
  <2> QED BY <1>2, <2>1
<1>9. Allowed(t, p, n, place, q, r) \in Int BY <1>7, <1>8 DEF Allowed, k
<1> QED BY <1>2, <1>3, <1>5, <1>6, <1>7, <1>8, <1>9 DEF g, k

\* A draw, which is a meeting of the ticket whose place it is.
LEMMA AllowedDraw ==
    ASSUME world \in Worlds, NEW t \in Ticket, NEW p \in Ticket, NEW n \in Nat, NEW o \in Ticket,
           NEW q \in RanksOf, NEW r \in RanksOf,
           NEW rank, rank = (BlockSize * n + o) % world,
           NEW here, here <=> PlaceIn(t, p, n % PhaseBlocks) = o
    PROVE  (Allowed(t, p, n, o, q, r) + IF here /\ q = rank THEN 1 ELSE 0)
           - (IF here /\ r = rank THEN 1 ELSE 0)
               <= Allowed(t, p, n, o + 1, q, r)
<1> DEFINE g == n % PhaseBlocks
           b == GroupStart(n)
           groups == (n \div PhaseBlocks) * Discrepancy(PhaseBlocks)
           u(j) == Uneven(t, p, b, j, q, r)
<1>1. o \in Nat /\ o + 1 \in Nat BY Steps DEF Ticket
<1>2. g \in Nat /\ b \in Nat /\ groups \in Int /\ n = b + g BY <1>1, AllowedTyped
<1>3. PlaceIn(t, p, g) \in Nat
  <2>1. PlaceIn(t, p, g) \in Ticket BY <1>2, AlongTyped
  <2> HIDE DEF g
  <2> QED BY <2>1 DEF Ticket
<1>4. Allowed(t, p, n, o, q, r) = groups + u(BlocksBehind(t, p, n, o))
      /\ Allowed(t, p, n, o + 1, q, r) = groups + u(BlocksBehind(t, p, n, o + 1))
  BY DEF Allowed
<1>5. u(g) \in Int /\ u(g + 1) \in Int
  <2>1. g + 1 \in Nat BY <1>2
  <2> HIDE DEF g, b
  <2> QED BY <1>2, <2>1, UnevenBound
<1>6. CASE here
  <2>1. PlaceIn(t, p, g) = o BY <1>6
  <2>2. BlocksBehind(t, p, n, o) = g
    <3>1. ~(PlaceIn(t, p, g) < o) BY <1>1, <2>1
    <3> QED BY <1>2, <3>1 DEF BlocksBehind
  <2>3. BlocksBehind(t, p, n, o + 1) = g + 1
    <3>1. PlaceIn(t, p, g) < o + 1 BY <1>1, <2>1
    <3> QED BY <1>2, <3>1 DEF BlocksBehind
  <2>4. RankAt(t, p, b, g) = rank BY <1>2, <2>1 DEF RankAt
  <2>5. (u(g) + IF q = rank THEN 1 ELSE 0) - (IF r = rank THEN 1 ELSE 0) <= u(g + 1)
    <3> HIDE DEF g, b
    <3> QED BY <1>2, <2>4, UnevenStep
  <2> HIDE DEF g, b, groups, u
  <2> QED BY <1>2, <1>4, <1>5, <1>6, <2>2, <2>3, <2>5
<1>7. CASE ~here
  <2>1. PlaceIn(t, p, g) < o <=> PlaceIn(t, p, g) < o + 1
    <3>1. PlaceIn(t, p, g) # o BY <1>7
    <3> HIDE DEF g
    <3> QED BY <1>1, <1>3, <3>1
  <2>2. BlocksBehind(t, p, n, o + 1) = BlocksBehind(t, p, n, o) BY <2>1 DEF BlocksBehind
  <2>3. u(BlocksBehind(t, p, n, o)) \in Int BY <1>1, AllowedTyped
  <2> HIDE DEF g, b, groups, u
  <2> QED BY <1>2, <1>4, <1>7, <2>2, <2>3
<1> QED BY <1>6, <1>7

\* The end of a block, which may be the end of its group.
LEMMA AllowedBlock ==
    ASSUME world \in Worlds, NEW t \in Ticket, NEW p \in Ticket, NEW n \in Nat,
           NEW q \in RanksOf, NEW r \in RanksOf
    PROVE  Allowed(t, p, n, BlockSize, q, r) <= Allowed(t, p, n + 1, 0, q, r)
<1> DEFINE g == n % PhaseBlocks
           k == n \div PhaseBlocks
           b == GroupStart(n)
           D == Discrepancy(PhaseBlocks)
           u(c, j) == Uneven(t, p, c, j, q, r)
<1>1. BlockSize \in Nat /\ 0 \in Nat /\ PhaseBlocks \in Nat \ {0} /\ n + 1 \in Nat BY Steps
<1>2. g \in 0 .. PhaseBlocks - 1 /\ g \in Nat /\ b \in Nat /\ k * D \in Int /\ k \in Nat
  BY <1>1, AllowedTyped
<1>3. D \in Int /\ u(b, g + 1) \in Int
  <2>1. g + 1 \in Nat BY <1>2
  <2> HIDE DEF g, b
  <2> QED BY <1>1, <1>2, <2>1, UnevenBound
<1>4. Allowed(t, p, n, BlockSize, q, r) = k * D + u(b, g + 1)
  <2>1. PlaceIn(t, p, g) \in Ticket BY <1>2, AlongTyped
  <2>2. PlaceIn(t, p, g) < BlockSize
    <3> HIDE DEF g
    <3> QED BY <1>1, <2>1 DEF Ticket
  <2>3. BlocksBehind(t, p, n, BlockSize) = g + 1 BY <1>2, <2>2 DEF BlocksBehind
  <2> QED BY <2>3 DEF Allowed
<1>5. BlocksBehind(t, p, n + 1, 0) = (n + 1) % PhaseBlocks
  <2> DEFINE h == (n + 1) % PhaseBlocks
  <2>1. h \in Nat BY <1>1, AllowedTyped
  <2>2. PlaceIn(t, p, h) \in Ticket BY <2>1, AlongTyped
  <2>3. BlocksBehind(t, p, n + 1, 0) = h + IF PlaceIn(t, p, h) < 0 THEN 1 ELSE 0 BY DEF BlocksBehind
  <2> HIDE DEF h
  <2>4. ~(PlaceIn(t, p, h) < 0) BY <1>1, <2>2 DEF Ticket
  <2> QED BY <2>1, <2>3, <2>4 DEF h
<1>6. Allowed(t, p, n + 1, 0, q, r)
          = ((n + 1) \div PhaseBlocks) * D + u(GroupStart(n + 1), (n + 1) % PhaseBlocks)
  BY <1>5 DEF Allowed
<1>7. CASE g < PhaseBlocks - 1
  <2>1. (n + 1) \div PhaseBlocks = k /\ (n + 1) % PhaseBlocks = g + 1
    BY <1>1, <1>7, NextRemainder
  <2>2. GroupStart(n + 1) = b BY <2>1 DEF GroupStart
  <2> HIDE DEF g, k, b, D, u
  <2> QED BY <1>2, <1>3, <1>4, <1>6, <2>1, <2>2
<1>8. CASE g = PhaseBlocks - 1
  <2>1. (n + 1) \div PhaseBlocks = k + 1 /\ (n + 1) % PhaseBlocks = 0
    BY <1>1, <1>8, NextRemainder
  <2>2. u(GroupStart(n + 1), 0) = 0 BY DEF Uneven
  <2>3. u(b, g + 1) <= D
    <3>1. g + 1 = PhaseBlocks BY <1>1, <1>8
    <3>2. u(b, PhaseBlocks) <= D
      <4> HIDE DEF b
      <4> QED BY <1>1, <1>2, UnevenBound
    <3> HIDE DEF g, b, D, u
    <3> QED BY <3>1, <3>2
  <2>4. (k + 1) * D = k * D + D
    <3> HIDE DEF k, D
    <3> QED BY <1>2, <1>3
  <2> HIDE DEF g, k, b, D, u
  <2> QED BY <1>2, <1>3, <1>4, <1>6, <2>1, <2>2, <2>3, <2>4
<1>9. g < PhaseBlocks - 1 \/ g = PhaseBlocks - 1
  <2> HIDE DEF g
  <2> QED BY <1>1, <1>2
<1> QED BY <1>7, <1>8, <1>9

\* A group that begins may have any phase.
LEMMA AnyPhase ==
    ASSUME NEW t \in Ticket, NEW p \in Ticket, NEW o \in Ticket, NEW n \in Nat,
           n % PhaseBlocks = 0, NEW q, NEW r, NEW f \in Ticket
    PROVE  Allowed(t, f, n, 0, q, r) = Allowed(t, p, n, 0, q, r)
<1>1. ASSUME NEW e \in Ticket PROVE BlocksBehind(t, e, n, 0) = 0
  <2>1. PlaceIn(t, e, 0) \in Ticket BY <1>1, AlongTyped
  <2>2. ~(PlaceIn(t, e, 0) < 0) BY <2>1, Steps DEF Ticket
  <2> QED BY <2>2 DEF BlocksBehind
<1>2. BlocksBehind(t, f, n, 0) = 0 /\ BlocksBehind(t, p, n, 0) = 0 BY <1>1
<1> QED BY <1>2 DEF Allowed, Uneven

\* From the start, and with every draw.
LEMMA MeetStarts == ScheduleInit => MeetInv
<1> SUFFICES ASSUME ScheduleInit, kind = "weighted" PROVE MeetInv BY DEF MeetInv
<1>1. world \in Worlds /\ phase = 0 /\ draw = 0 /\ met = [t \in Ticket |-> [x \in RanksOf |-> 0]]
  BY DEF ScheduleInit, RanksOf
<1>2. BlockSize \in Nat \ {0} /\ PhaseBlocks \in Nat \ {0} BY Steps
<1>3. \A n \in Nat \ {0} : 0 \div n = 0 /\ 0 % n = 0
  <2> SUFFICES ASSUME NEW n \in Nat \ {0} PROVE 0 \div n = 0 /\ 0 % n = 0 OBVIOUS
  <2>1. (n * 0 + 0) \div n = 0 /\ (n * 0 + 0) % n = 0 BY DivisionUnique
  <2>2. n * 0 + 0 = 0 OBVIOUS
  <2> QED BY <2>1, <2>2
<1>4. 0 \in Ticket BY <1>2 DEF Ticket
<1>5. ASSUME NEW t \in Ticket, NEW q \in RanksOf, NEW r \in RanksOf
      PROVE  Allowed(t, 0, 0, 0, q, r) = 0
  <2>1. PlaceIn(t, 0, 0) \in Ticket BY <1>4, AlongTyped
  <2>2. ~(PlaceIn(t, 0, 0) < 0) BY <1>2, <2>1 DEF Ticket
  <2>3. BlocksBehind(t, 0, 0, 0) = 0 BY <1>2, <1>3, <2>2 DEF BlocksBehind
  <2>4. Uneven(t, 0, GroupStart(0), 0, q, r) = 0 BY DEF Uneven
  <2>5. Discrepancy(PhaseBlocks) \in Int
    <3>1. PhaseBlocks \in Nat /\ 0 \in Nat BY <1>2
    <3> QED BY <1>1, <1>4, <3>1, UnevenBound
  <2>6. 0 \div PhaseBlocks = 0 BY <1>2, <1>3
  <2>7. 0 * Discrepancy(PhaseBlocks) = 0 BY <2>5
  <2> QED BY <2>3, <2>4, <2>6, <2>7 DEF Allowed
<1>6. draw \div BlockSize = 0 /\ draw % BlockSize = 0 BY <1>1, <1>2, <1>3
<1>7. ASSUME NEW t \in Ticket, NEW q \in RanksOf, NEW r \in RanksOf
      PROVE  met[t][q] - met[t][r]
                 <= Allowed(t, phase, draw \div BlockSize, draw % BlockSize, q, r)
  <2>1. met[t][q] = 0 /\ met[t][r] = 0 BY <1>1
  <2>2. Allowed(t, phase, draw \div BlockSize, draw % BlockSize, q, r) = 0 BY <1>1, <1>5, <1>6
  <2> QED BY <2>1, <2>2
<1> QED BY <1>1, <1>7 DEF MeetInv

LEMMA MeetKeeps == ScheduleInv /\ MeetInv /\ [Draw]_scheduleVars => MeetInv'
<1> SUFFICES ASSUME ScheduleInv, MeetInv, [Draw]_scheduleVars, kind' = "weighted" PROVE MeetInv'
  BY DEF MeetInv
<1>1. kind' = kind /\ world' = world BY DEF Draw, scheduleVars
<1>2. /\ world \in Worlds /\ met \in [Ticket -> [RanksOf -> Int]]
      /\ \A t \in Ticket : \A q, r \in RanksOf :
             met[t][q] - met[t][r]
                 <= Allowed(t, phase, draw \div BlockSize, draw % BlockSize, q, r)
  BY <1>1 DEF MeetInv
<1>3. RanksOf' = RanksOf /\ Worlds' = Worlds BY <1>1 DEF RanksOf
<1>4. MeetInv' <=>
          /\ world \in Worlds /\ met' \in [Ticket -> [RanksOf -> Int]]
          /\ \A t \in Ticket : \A q, r \in RanksOf :
                 met'[t][q] - met'[t][r]
                     <= Allowed(t, phase', draw' \div BlockSize, draw' % BlockSize, q, r)
  BY <1>1, <1>3 DEF MeetInv, Allowed, Uneven, Meetings, RankAt
<1>5. CASE UNCHANGED scheduleVars BY <1>2, <1>4, <1>5 DEF scheduleVars
<1>6. CASE Draw
  <2> DEFINE n == draw \div BlockSize
             o == draw % BlockSize
             g == n % PhaseBlocks
             rotation == (phase' - RotationStep * g) % BlockSize
             ticket == (o + rotation) % BlockSize
             rank == draw % world
             here(t) == PlaceIn(t, phase', g) = o
  <2>1. DrawTicket /\ draw' = draw + 1 BY <1>1, <1>6 DEF Draw, DrawRow
  <2>2. /\ phase' \in IF o = 0 /\ g = 0 THEN Ticket ELSE {phase}
        /\ met' = [met EXCEPT ![ticket][rank] = @ + 1]
    BY <1>1, <2>1 DEF DrawTicket
  <2>3. BlockSize \in Nat \ {0} /\ draw \in Nat /\ phase \in Ticket /\ world \in Nat \ {0}
    BY <1>2, Steps, StepCoprime DEF ScheduleInv
  <2>4. /\ n \in Nat /\ o \in 0 .. BlockSize - 1 /\ o \in Ticket /\ draw = BlockSize * n + o
    <3>1. n \in Nat BY <2>3, NextRemainder
    <3>2. draw \in Int BY <2>3
    <3>3. o \in 0 .. BlockSize - 1 /\ draw = BlockSize * n + o BY <2>3, <3>2, Division
    <3> QED BY <3>1, <3>3 DEF Ticket
  <2>5. phase' \in Ticket BY <2>2, <2>3
  <2>6. rank \in RanksOf
    <3>1. rank \in 0 .. world - 1 BY <2>3, NextRemainder
    <3> QED BY <3>1 DEF RanksOf
  <2>7. g \in Nat
    <3> HIDE DEF n
    <3> QED BY <2>4, Steps
  <2>8. \A t \in Ticket : t = ticket <=> here(t)
    <3> HIDE DEF o, g
    <3> QED BY <2>4, <2>5, <2>7, TicketPlace
  <2>9. ticket \in Ticket
    <3>1. phase' - RotationStep * g \in Int
      <4>1. RotationStep * g \in Int
        <5> HIDE DEF g
        <5> QED BY <2>7, Steps
      <4>2. phase' \in Int BY <2>3, <2>5 DEF Ticket
      <4> QED BY <4>1, <4>2
    <3>2. rotation \in 0 .. BlockSize - 1
      <4> HIDE DEF g
      <4> QED BY <2>3, <3>1, Division
    <3>3. o + rotation \in Int
      <4> HIDE DEF rotation, o
      <4> QED BY <2>3, <2>4, <3>2
    <3>4. ticket \in 0 .. BlockSize - 1
      <4> HIDE DEF rotation, o
      <4> QED BY <2>3, <3>3, Division
    <3> QED BY <3>4 DEF Ticket
  <2>10. met' \in [Ticket -> [RanksOf -> Int]]
         /\ \A t \in Ticket : \A x \in RanksOf :
                met'[t][x] = met[t][x] + IF here(t) /\ x = rank THEN 1 ELSE 0
    <3> HIDE DEF ticket, rank, here
    <3>1. \A t \in Ticket : \A x \in RanksOf :
              met'[t][x] = met[t][x] + IF t = ticket /\ x = rank THEN 1 ELSE 0
      BY <1>2, <2>2, <2>6, <2>9
    <3>2. met' \in [Ticket -> [RanksOf -> Int]] BY <1>2, <2>2, <2>6, <2>9
    <3> QED BY <2>8, <3>1, <3>2
  <2>11. ASSUME NEW t \in Ticket, NEW q \in RanksOf, NEW r \in RanksOf
         PROVE  met'[t][q] - met'[t][r]
                    <= Allowed(t, phase', draw' \div BlockSize, draw' % BlockSize, q, r)
    <3>1. met[t][q] - met[t][r] <= Allowed(t, phase', n, o, q, r)
      <4>1. Allowed(t, phase', n, o, q, r) = Allowed(t, phase, n, o, q, r)
        <5>1. CASE o = 0 /\ g = 0
          <6> HIDE DEF n, o
          <6> QED BY <2>3, <2>4, <2>5, <5>1, AnyPhase
        <5>2. CASE ~(o = 0 /\ g = 0) BY <2>2, <5>2
        <5> QED BY <5>1, <5>2
      <4>2. met[t][q] - met[t][r] <= Allowed(t, phase, n, o, q, r) BY <1>2
      <4> QED BY <4>1, <4>2
    <3>2. (Allowed(t, phase', n, o, q, r) + IF here(t) /\ q = rank THEN 1 ELSE 0)
          - (IF here(t) /\ r = rank THEN 1 ELSE 0) <= Allowed(t, phase', n, o + 1, q, r)
      <4>1. rank = (BlockSize * n + o) % world BY <2>4
      <4> HIDE DEF n, o, rank
      <4> QED BY <1>2, <2>4, <2>5, <4>1, AllowedDraw
    <3>3. Allowed(t, phase', n, o, q, r) \in Int /\ Allowed(t, phase', n, o + 1, q, r) \in Int
      <4>1. o \in Nat /\ o + 1 \in Nat
        <5> HIDE DEF o
        <5> QED BY <2>3, <2>4
      <4> HIDE DEF n, o
      <4> QED BY <1>2, <2>4, <2>5, <4>1, AllowedTyped
    <3>4. met'[t][q] - met'[t][r] <= Allowed(t, phase', n, o + 1, q, r)
      <4>1. met[t][q] \in Int /\ met[t][r] \in Int BY <1>2
      <4>2. met'[t][q] = met[t][q] + IF here(t) /\ q = rank THEN 1 ELSE 0 BY <2>10
      <4>3. met'[t][r] = met[t][r] + IF here(t) /\ r = rank THEN 1 ELSE 0 BY <2>10
      <4> HIDE DEF n, o, rank, here
      <4> QED BY <3>1, <3>2, <3>3, <4>1, <4>2, <4>3
    <3>5. Allowed(t, phase', n, o + 1, q, r)
              <= Allowed(t, phase', draw' \div BlockSize, draw' % BlockSize, q, r)
      <4>1. CASE o < BlockSize - 1
        <5>1. draw' \div BlockSize = n /\ draw' % BlockSize = o + 1
          BY <2>1, <2>3, <4>1, NextRemainder
        <5> HIDE DEF n, o
        <5> QED BY <3>3, <5>1
      <4>2. CASE o = BlockSize - 1
        <5>1. draw' \div BlockSize = n + 1 /\ draw' % BlockSize = 0
          BY <2>1, <2>3, <4>2, NextRemainder
        <5>2. o + 1 = BlockSize BY <2>3, <4>2
        <5>3. Allowed(t, phase', n, BlockSize, q, r) <= Allowed(t, phase', n + 1, 0, q, r)
          <6> HIDE DEF n
          <6> QED BY <1>2, <2>4, <2>5, AllowedBlock
        <5> QED BY <5>1, <5>2, <5>3
      <4>3. o < BlockSize - 1 \/ o = BlockSize - 1
        <5> HIDE DEF o
        <5> QED BY <2>3, <2>4
      <4> QED BY <4>1, <4>2, <4>3
    <3>6. Allowed(t, phase', draw' \div BlockSize, draw' % BlockSize, q, r) \in Int
      <4>1. draw' \div BlockSize \in Nat /\ draw' % BlockSize \in Nat
        <5>1. draw' \in Nat BY <2>1, <2>3
        <5>2. draw' \div BlockSize \in Nat /\ draw' % BlockSize \in 0 .. BlockSize - 1
          BY <2>3, <5>1, NextRemainder
        <5> QED BY <2>3, <5>2
      <4> QED BY <1>2, <2>5, <4>1, AllowedTyped
    <3>7. met'[t][q] - met'[t][r] \in Int BY <2>10
    <3> HIDE DEF n, o
    <3> QED BY <3>3, <3>4, <3>5, <3>6, <3>7
  <2> QED BY <1>2, <1>4, <2>10, <2>11
<1> QED BY <1>5, <1>6

LEMMA InvRanksMeetTickets == ScheduleInv /\ MeetInv => RanksMeetTickets
<1> SUFFICES ASSUME ScheduleInv, MeetInv, kind = "weighted", draw % BlockSize = 0,
                    NEW t \in Ticket, NEW q \in DOMAIN met[t], NEW r \in DOMAIN met[t]
             PROVE  met[t][q] - met[t][r]
                        <= ((draw \div BlockSize) \div PhaseBlocks) * Discrepancy(PhaseBlocks)
                           + Discrepancy((draw \div BlockSize) % PhaseBlocks)
  BY DEF RanksMeetTickets
<1> DEFINE n == draw \div BlockSize
           g == n % PhaseBlocks
           groups == (n \div PhaseBlocks) * Discrepancy(PhaseBlocks)
           u == Uneven(t, phase, GroupStart(n), g, q, r)
<1>1. world \in Worlds /\ met \in [Ticket -> [RanksOf -> Int]] BY DEF MeetInv
<1>2. q \in RanksOf /\ r \in RanksOf BY <1>1
<1>3. draw \in Nat /\ phase \in Ticket /\ BlockSize \in Nat \ {0} BY Steps DEF ScheduleInv
<1>4. n \in Nat /\ 0 \in Nat BY <1>3, NextRemainder
<1>5. met[t][q] - met[t][r] <= Allowed(t, phase, n, 0, q, r) BY <1>2 DEF MeetInv
<1>6. g \in Nat /\ GroupStart(n) \in Nat /\ groups \in Int
  <2> HIDE DEF n
  <2> QED BY <1>1, <1>2, <1>3, <1>4, AllowedTyped
<1>7. Allowed(t, phase, n, 0, q, r) = groups + u
  <2>1. PlaceIn(t, phase, g) \in Ticket
    <3> HIDE DEF g
    <3> QED BY <1>3, <1>6, AlongTyped
  <2>2. ~(PlaceIn(t, phase, g) < 0) BY <1>3, <2>1 DEF Ticket
  <2>3. BlocksBehind(t, phase, n, 0) = g BY <1>6, <2>2 DEF BlocksBehind
  <2> QED BY <2>3 DEF Allowed
<1>8. u \in Int /\ Discrepancy(g) \in Int /\ u <= Discrepancy(g)
  <2> HIDE DEF g, n
  <2> QED BY <1>1, <1>2, <1>3, <1>6, UnevenBound
<1>9. met[t][q] - met[t][r] \in Int BY <1>1, <1>2
<1>10. met[t][q] - met[t][r] <= groups + Discrepancy(g)
  <2> HIDE DEF g, n, groups, u
  <2> QED BY <1>5, <1>6, <1>7, <1>8, <1>9
<1> QED BY <1>10

\* Every ticket, however rare, meets the ranks about equally often, whatever their number: what
\* validate_sample_schedule_world_size relies on (_ticket_rotation_step, _ticket_block_rotation).
THEOREM RanksMeetEvenly == ScheduleSpec => []RanksMeetTickets
<1>1. ScheduleSpec => []ScheduleInv BY ScheduleStarts, ScheduleKeeps, PTL DEF ScheduleSpec
<1>2. ScheduleSpec => []MeetInv BY <1>1, MeetStarts, MeetKeeps, PTL DEF ScheduleSpec
<1> QED BY <1>1, <1>2, InvRanksMeetTickets, PTL
===============================================================================
