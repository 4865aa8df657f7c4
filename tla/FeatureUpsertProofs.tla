------------------------- MODULE FeatureUpsertProofs -------------------------
(***************************************************************************)
(* Theorems about FeatureUpsert, for any clicks, catalogues, sizes, widths *)
(* and times: the category cache, the types of all keys, the popularity    *)
(* windows, the decayed scores and the cap of global:popular, in this      *)
(* order.  Powers of two are counted as subsets, and a fact about a sum    *)
(* over any finite set is proved from its smallest counterexample.         *)
(***************************************************************************)
EXTENDS FeatureUpsert, SequenceTheorems, FiniteSetTheorems, TLAPS

LEMMA LeastNumber ==
  ASSUME NEW S \in SUBSET Nat, S # {} PROVE \E n \in S : \A m \in S : n <= m
<1>1. PICK n \in S : \A m \in S : ~(<<m, n>> \in OpToRel(<, Nat))
  BY NatLessThanWellFounded, WFMin
<1>2. \A m \in S : m \in Nat /\ n \in Nat /\ ~(m < n)
  BY <1>1 DEF OpToRel
<1> QED
  BY <1>2

-----------------------------------------------------------------------------
(* Powers.                                                                 *)

LEMMA PowerIs ==
  ASSUME NEW S, IsFiniteSet(S) PROVE 2 ^ Cardinality(S) = Cardinality(SUBSET S)
BY FS_SUBSET

LEMMA PowerPositive == ASSUME NEW n \in Nat PROVE 2 ^ n \in Nat \ {0}
<1>1. IsFiniteSet(1 .. n) /\ Cardinality(1 .. n) = n
  BY FS_Interval
<1>2. IsFiniteSet(SUBSET (1 .. n)) /\ Cardinality(SUBSET (1 .. n)) = 2 ^ n
  BY <1>1, FS_SUBSET
<1>3. Cardinality(SUBSET (1 .. n)) \in Nat
  BY <1>2, FS_CardinalityType
<1>4. Cardinality(SUBSET (1 .. n)) # 0
  BY <1>2, FS_EmptySet
<1> QED
  BY <1>2, <1>3, <1>4

LEMMA PowerSum == ASSUME NEW a \in Nat, NEW b \in Nat PROVE 2 ^ (a + b) = 2 ^ a * 2 ^ b
<1> DEFINE A == 1 .. a
           B == (a + 1) .. (a + b)
           C == 1 .. (a + b)
           f == [p \in (SUBSET A) \X (SUBSET B) |-> p[1] \cup p[2]]
<1>1. /\ IsFiniteSet(A) /\ Cardinality(A) = a
      /\ IsFiniteSet(B) /\ Cardinality(B) = b
      /\ IsFiniteSet(C) /\ Cardinality(C) = a + b
  <2>1. 1 \in Int /\ a \in Int /\ a + 1 \in Int /\ a + b \in Int
    OBVIOUS
  <2>2. IsFiniteSet(A) /\ Cardinality(A) = IF 1 > a THEN 0 ELSE a - 1 + 1
    BY <2>1, FS_Interval
  <2>3. IsFiniteSet(B) /\ Cardinality(B) = IF a + 1 > a + b THEN 0 ELSE a + b - (a + 1) + 1
    BY <2>1, FS_Interval
  <2>4. IsFiniteSet(C) /\ Cardinality(C) = IF 1 > a + b THEN 0 ELSE a + b - 1 + 1
    BY <2>1, FS_Interval
  <2> HIDE DEF A, B, C
  <2> QED
    BY <2>2, <2>3, <2>4
<1>2. A \cup B = C /\ A \cap B = {}
  OBVIOUS
<1> HIDE DEF A, B, C
<1>3. /\ IsFiniteSet(SUBSET A) /\ Cardinality(SUBSET A) = 2 ^ a
      /\ IsFiniteSet(SUBSET B) /\ Cardinality(SUBSET B) = 2 ^ b
      /\ IsFiniteSet(SUBSET C) /\ Cardinality(SUBSET C) = 2 ^ (a + b)
  <2>1. /\ IsFiniteSet(SUBSET A) /\ Cardinality(SUBSET A) = 2 ^ Cardinality(A)
        /\ IsFiniteSet(SUBSET B) /\ Cardinality(SUBSET B) = 2 ^ Cardinality(B)
        /\ IsFiniteSet(SUBSET C) /\ Cardinality(SUBSET C) = 2 ^ Cardinality(C)
    BY <1>1, FS_SUBSET
  <2> QED
    BY <1>1, <2>1
<1>4. f \in Bijection((SUBSET A) \X (SUBSET B), SUBSET C)
  <2>1. f \in [(SUBSET A) \X (SUBSET B) -> SUBSET C]
    BY <1>2
  <2>2. ASSUME NEW p \in (SUBSET A) \X (SUBSET B), NEW q \in (SUBSET A) \X (SUBSET B), f[p] = f[q]
        PROVE  p = q
    <3>1. p = <<p[1], p[2]>> /\ q = <<q[1], q[2]>>
      OBVIOUS
    <3>2. p[1] \cup p[2] = q[1] \cup q[2]
      BY <2>2
    <3>3. p[1] = q[1] /\ p[2] = q[2]
      <4>1. p[1] \subseteq A /\ q[1] \subseteq A /\ p[2] \subseteq B /\ q[2] \subseteq B
        OBVIOUS
      <4> QED
        BY <1>2, <3>2, <4>1, Zenon
    <3> QED
      BY <3>1, <3>3
  <2>3. ASSUME NEW s \in SUBSET C PROVE \E p \in (SUBSET A) \X (SUBSET B) : f[p] = s
    <3>1. <<s \cap A, s \cap B>> \in (SUBSET A) \X (SUBSET B) /\ f[<<s \cap A, s \cap B>>] = (s \cap A) \cup (s \cap B)
      OBVIOUS
    <3>2. (s \cap A) \cup (s \cap B) = s
      BY <1>2
    <3> QED
      BY <3>1, <3>2
  <2> HIDE DEF f
  <2> QED
    BY <2>1, <2>2, <2>3 DEF Bijection, Injection, Surjection, IsInjective
<1>5. ExistsBijection((SUBSET A) \X (SUBSET B), SUBSET C)
  BY <1>4 DEF ExistsBijection
<1>6. /\ IsFiniteSet((SUBSET A) \X (SUBSET B))
      /\ Cardinality((SUBSET A) \X (SUBSET B)) = Cardinality(SUBSET A) * Cardinality(SUBSET B)
  BY <1>3, FS_Product
<1>7. Cardinality(SUBSET C) = Cardinality((SUBSET A) \X (SUBSET B))
  BY <1>5, <1>6, FS_Bijection
<1> QED
  BY <1>3, <1>6, <1>7

-----------------------------------------------------------------------------
(* Sums.                                                                   *)

IsSum(f, T, g) ==
    g = [s \in SUBSET T |->
            IF s = {} THEN 0 ELSE LET x == CHOOSE x \in s : TRUE IN f[x] + g[s \ {x}]]

LEMMA SumIs == ASSUME NEW f, NEW T PROVE SumFunctionOnSet(f, T) = (CHOOSE g : IsSum(f, T, g))[T]
BY DEF SumFunctionOnSet, FoldFunctionOnSet, MapThenFoldSet, IsSum

Element(s) == CHOOSE x \in s : TRUE

LEMMA ElementIn == ASSUME NEW s, s # {} PROVE Element(s) \in s
BY DEF Element

LEMMA IsSumAt ==
  ASSUME NEW f, NEW T, NEW g, IsSum(f, T, g), NEW s \in SUBSET T
  PROVE  g[s] = IF s = {} THEN 0 ELSE f[Element(s)] + g[s \ {Element(s)}]
BY DEF IsSum, Element

LEMMA IsSumSplits ==
  ASSUME NEW f, NEW T, NEW g, IsSum(f, T, g), NEW s, s \subseteq T, s # {}
  PROVE  \E x \in s : g[s] = f[x] + g[s \ {x}]
<1>1. g[s] = f[Element(s)] + g[s \ {Element(s)}]
  BY IsSumAt
<1> QED
  BY <1>1, ElementIn

Small(T, n) == {s \in SUBSET T : Cardinality(s) <= n}
\* g sums f over the subsets of T that have at most n elements.
SumsUpTo(f, T, n, g) ==
    g = [s \in Small(T, n) |-> IF s = {} THEN 0 ELSE f[Element(s)] + g[s \ {Element(s)}]]

LEMMA Smaller ==
  ASSUME NEW T, IsFiniteSet(T), NEW s \in SUBSET T, s # {}
  PROVE  /\ s \ {Element(s)} \in SUBSET T /\ IsFiniteSet(s)
         /\ Cardinality(s \ {Element(s)}) = Cardinality(s) - 1
         /\ Cardinality(s) \in Nat /\ Cardinality(s) - 1 \in Nat
<1>1. IsFiniteSet(s)
  BY FS_Subset
<1>2. Cardinality(s) \in Nat /\ Cardinality(s) # 0
  BY <1>1, FS_CardinalityType, FS_EmptySet
<1>3. Cardinality(s \ {Element(s)}) = Cardinality(s) - 1
  BY <1>1, ElementIn, FS_RemoveElement
<1> QED
  BY <1>1, <1>2, <1>3

LEMMA SmallSumsExist ==
  ASSUME NEW f, NEW T, IsFiniteSet(T), NEW n \in Nat PROVE \E g : SumsUpTo(f, T, n, g)
<1> DEFINE Bad == {k \in Nat : ~ \E g : SumsUpTo(f, T, k, g)}
<1>1. SUFFICES ASSUME Bad # {} PROVE FALSE
  OBVIOUS
<1>2. PICK k \in Bad : \A m \in Bad : k <= m
  <2>1. Bad \in SUBSET Nat
    OBVIOUS
  <2> HIDE DEF Bad
  <2> QED
    BY <1>1, <2>1, LeastNumber
<1>3. k \in Nat /\ ~ \E g : SumsUpTo(f, T, k, g)
  OBVIOUS
<1>4. CASE k = 0
  <2> DEFINE g == [s \in Small(T, 0) |-> 0]
  <2>1. \A s \in Small(T, 0) : s = {}
    <3> TAKE s \in Small(T, 0)
    <3>1. s \in SUBSET T /\ Cardinality(s) <= 0 /\ IsFiniteSet(s)
      BY FS_Subset DEF Small
    <3> QED
      BY <3>1, FS_CardinalityType, FS_EmptySet
  <2>2. SumsUpTo(f, T, 0, g)
    BY <2>1 DEF SumsUpTo
  <2> QED
    BY <1>3, <1>4, <2>2
<1>5. CASE k # 0
  <2>1. k - 1 \in Nat /\ k - 1 \notin Bad
    BY <1>2, <1>3, <1>5
  <2>2. PICK g : SumsUpTo(f, T, k - 1, g)
    BY <2>1
  <2> DEFINE h == [s \in Small(T, k) |-> IF s = {} THEN 0 ELSE f[Element(s)] + g[s \ {Element(s)}]]
  <2>3. \A s \in Small(T, k) : s # {} => s \ {Element(s)} \in Small(T, k - 1)
    BY <1>3, Smaller DEF Small
  <2>4. \A s \in Small(T, k - 1) : s \in Small(T, k) /\ h[s] = g[s]
    <3>1. \A s \in Small(T, k - 1) : s \in Small(T, k)
      <4> TAKE s \in Small(T, k - 1)
      <4>1. s \in SUBSET T /\ Cardinality(s) <= k - 1 /\ Cardinality(s) \in Nat
        BY FS_Subset, FS_CardinalityType DEF Small
      <4> QED
        BY <1>3, <4>1 DEF Small
    <3>2. \A s \in Small(T, k - 1) : g[s] = IF s = {} THEN 0 ELSE f[Element(s)] + g[s \ {Element(s)}]
      BY <2>2 DEF SumsUpTo
    <3> QED
      BY <3>1, <3>2
  <2>5. \A s \in Small(T, k) : h[s] = IF s = {} THEN 0 ELSE f[Element(s)] + h[s \ {Element(s)}]
    <3> TAKE s \in Small(T, k)
    <3>1. h[s] = IF s = {} THEN 0 ELSE f[Element(s)] + g[s \ {Element(s)}]
      OBVIOUS
    <3>2. s # {} => h[s \ {Element(s)}] = g[s \ {Element(s)}]
      BY <2>3, <2>4
    <3> HIDE DEF h
    <3> QED
      BY <3>1, <3>2
  <2>6. h = [s \in Small(T, k) |-> h[s]]
    OBVIOUS
  <2> HIDE DEF h
  <2>7. SumsUpTo(f, T, k, h)
    BY <2>5, <2>6 DEF SumsUpTo
  <2> QED
    BY <1>3, <2>7
<1> QED
  BY <1>4, <1>5

LEMMA SumExists ==
  ASSUME NEW f, NEW T, IsFiniteSet(T) PROVE IsSum(f, T, CHOOSE g : IsSum(f, T, g))
<1>1. Cardinality(T) \in Nat
  BY FS_CardinalityType
<1>2. PICK g : SumsUpTo(f, T, Cardinality(T), g)
  BY <1>1, SmallSumsExist
<1>3. Small(T, Cardinality(T)) = SUBSET T
  BY FS_Subset DEF Small
<1>4. IsSum(f, T, g)
  BY <1>2, <1>3 DEF IsSum, SumsUpTo, Element
<1> QED
  BY <1>4

\* A sum depends on the values that it sums, and on nothing else.
LEMMA SumsAgree ==
  ASSUME NEW f, NEW T, IsFiniteSet(T), NEW g, IsSum(f, T, g),
         NEW h, NEW U, IsFiniteSet(U), NEW k, IsSum(h, U, k),
         NEW s \in SUBSET (T \cap U), \A x \in s : f[x] = h[x]
  PROVE  g[s] = k[s]
<1> DEFINE Bad == {n \in Nat : \E t \in SUBSET (T \cap U) :
                      Cardinality(t) = n /\ (\A x \in t : f[x] = h[x]) /\ g[t] # k[t]}
<1>1. SUFFICES ASSUME Bad # {} PROVE FALSE
  <2>1. Cardinality(s) \in Nat
    BY FS_Subset, FS_CardinalityType
  <2> QED
    BY <2>1
<1>2. PICK n \in Bad : \A m \in Bad : n <= m
  <2>1. Bad \in SUBSET Nat
    OBVIOUS
  <2> HIDE DEF Bad
  <2> QED
    BY <1>1, <2>1, LeastNumber
<1>3. PICK t \in SUBSET (T \cap U) : Cardinality(t) = n /\ (\A x \in t : f[x] = h[x]) /\ g[t] # k[t]
  BY <1>2
<1>4. t \in SUBSET T /\ t \in SUBSET U
  OBVIOUS
<1>5. t # {}
  <2>1. /\ g[t] = IF t = {} THEN 0 ELSE f[Element(t)] + g[t \ {Element(t)}]
        /\ k[t] = IF t = {} THEN 0 ELSE h[Element(t)] + k[t \ {Element(t)}]
    BY <1>4, IsSumAt
  <2> QED
    BY <1>3, <2>1
<1> DEFINE w == t \ {Element(t)}
<1>6. Element(t) \in t /\ w \in SUBSET (T \cap U) /\ \A x \in w : x \in t
  BY <1>5, ElementIn
<1>7. Cardinality(w) = n - 1 /\ n - 1 \in Nat /\ n \in Nat
  BY <1>3, <1>4, <1>5, Smaller
<1>8. n - 1 \notin Bad
  BY <1>2, <1>7
<1>9. g[w] = k[w]
  BY <1>3, <1>6, <1>7, <1>8
<1>10. g[t] = f[Element(t)] + g[w] /\ k[t] = h[Element(t)] + k[w]
  BY <1>4, <1>5, IsSumAt
<1>11. f[Element(t)] = h[Element(t)]
  BY <1>3, <1>6
<1> QED
  BY <1>3, <1>9, <1>10, <1>11

\* One more element is one more summand.
LEMMA SumsGrow ==
  ASSUME NEW f, NEW T, IsFiniteSet(T), \A x \in T : f[x] \in Nat, NEW g, IsSum(f, T, g),
         NEW s \in SUBSET T
  PROVE  g[s] \in Nat /\ \A y \in T \ s : g[s \cup {y}] = g[s] + f[y]
<1> DEFINE Holds(t) == g[t] \in Nat /\ \A y \in T \ t : g[t \cup {y}] = g[t] + f[y]
           Bad == {n \in Nat : \E t \in SUBSET T : Cardinality(t) = n /\ ~Holds(t)}
<1>1. SUFFICES ASSUME Bad # {} PROVE FALSE
  <2>1. Cardinality(s) \in Nat
    BY FS_Subset, FS_CardinalityType
  <2> QED
    BY <2>1
<1>2. PICK n \in Bad : \A m \in Bad : n <= m
  <2>1. Bad \in SUBSET Nat
    OBVIOUS
  <2> HIDE DEF Bad
  <2> QED
    BY <1>1, <2>1, LeastNumber
<1>3. PICK t \in SUBSET T : Cardinality(t) = n /\ ~Holds(t)
  BY <1>2
<1>4. n \in Nat /\ IsFiniteSet(t)
  BY <1>2, FS_Subset
<1>5. ASSUME NEW w \in SUBSET T, Cardinality(w) = n - 1, n - 1 \in Nat PROVE Holds(w)
  <2>1. n - 1 \notin Bad
    BY <1>2, <1>5
  <2> HIDE DEF Holds
  <2> QED
    BY <1>5, <2>1
<1> HIDE DEF Bad
<1>6. g[t] \in Nat
  <2>1. CASE t = {}
    <3>1. g[t] = IF t = {} THEN 0 ELSE f[Element(t)] + g[t \ {Element(t)}]
      BY IsSumAt
    <3> QED
      BY <2>1, <3>1
  <2>2. CASE t # {}
    <3> DEFINE w == t \ {Element(t)}
    <3>1. w \in SUBSET T /\ Cardinality(w) = n - 1 /\ n - 1 \in Nat
      BY <1>3, <2>2, Smaller
    <3>2. g[w] \in Nat
      BY <1>5, <3>1
    <3>3. f[Element(t)] \in Nat
      BY <2>2, ElementIn
    <3>4. g[t] = f[Element(t)] + g[w]
      BY <2>2, IsSumAt
    <3> QED
      BY <3>2, <3>3, <3>4
  <2> QED
    BY <2>1, <2>2
<1>7. ASSUME NEW y \in T \ t PROVE g[t \cup {y}] = g[t] + f[y]
  <2>1. PICK u \in SUBSET T : u = t \cup {y}
    OBVIOUS
  <2>2. u # {} /\ u \subseteq T
    BY <2>1
  <2>3. PICK x \in u : g[u] = f[x] + g[u \ {x}]
    BY <2>2, IsSumSplits
  <2>4. f[y] \in Nat /\ f[x] \in Nat
    OBVIOUS
  <2>5. CASE x = y
    <3>1. u \ {x} = t
      BY <2>1, <2>5
    <3>2. g[u] = f[y] + g[t]
      BY <2>3, <2>5, <3>1
    <3> QED
      BY <1>6, <2>1, <2>4, <3>2
  <2>6. CASE x # y
    <3>1. PICK w \in SUBSET T : w = t \ {x}
      OBVIOUS
    <3>2. x \in t /\ u \ {x} = w \cup {y} /\ w \cup {x} = t /\ x \in T \ w /\ y \in T \ w
      BY <2>1, <2>6, <3>1
    <3>3. Cardinality(w) = n - 1 /\ n - 1 \in Nat
      <4>1. Cardinality(w) = n - 1
        BY <1>3, <1>4, <3>1, <3>2, FS_RemoveElement
      <4>2. IsFiniteSet(w)
        BY <1>4, <3>1, FS_RemoveElement
      <4> QED
        BY <4>1, <4>2, FS_CardinalityType
    <3>4. Holds(w)
      BY <1>5, <3>3
    <3>5. g[w \cup {y}] = g[w] + f[y] /\ g[w \cup {x}] = g[w] + f[x] /\ g[w] \in Nat
      BY <3>2, <3>4
    <3>6. g[u] = f[x] + (g[w] + f[y]) /\ g[t] = g[w] + f[x]
      BY <2>3, <3>2, <3>5
    <3> QED
      BY <2>1, <2>4, <3>5, <3>6
  <2> QED
    BY <2>5, <2>6
<1> QED
  BY <1>3, <1>6, <1>7

LEMMA SumOfNone == ASSUME NEW f PROVE SumFunctionOnSet(f, {}) = 0
<1>1. IsFiniteSet({})
  BY FS_EmptySet
<1>2. IsSum(f, {}, CHOOSE g : IsSum(f, {}, g))
  BY <1>1, SumExists
<1>3. SumFunctionOnSet(f, {}) = (CHOOSE g : IsSum(f, {}, g))[{}]
  BY SumIs
<1> QED
  BY <1>2, <1>3, IsSumAt

LEMMA SumOfSame ==
  ASSUME NEW S, IsFiniteSet(S), NEW f, NEW h, \A x \in S : f[x] = h[x]
  PROVE  SumFunctionOnSet(f, S) = SumFunctionOnSet(h, S)
<1>1. PICK g : IsSum(f, S, g) /\ SumFunctionOnSet(f, S) = g[S]
  BY SumExists, SumIs
<1>2. PICK k : IsSum(h, S, k) /\ SumFunctionOnSet(h, S) = k[S]
  BY SumExists, SumIs
<1>3. S \in SUBSET (S \cap S)
  OBVIOUS
<1> QED
  BY <1>1, <1>2, <1>3, SumsAgree

LEMMA SumOfNumbers ==
  ASSUME NEW S, IsFiniteSet(S), NEW f, \A x \in S : f[x] \in Nat
  PROVE  SumFunctionOnSet(f, S) \in Nat
<1>1. PICK g : IsSum(f, S, g) /\ SumFunctionOnSet(f, S) = g[S]
  BY SumExists, SumIs
<1> QED
  BY <1>1, SumsGrow

LEMMA SumOfOneMore ==
  ASSUME NEW S, IsFiniteSet(S), NEW y, y \notin S, NEW f, \A x \in S \cup {y} : f[x] \in Nat,
         NEW h, \A x \in S : h[x] = f[x]
  PROVE  SumFunctionOnSet(f, S \cup {y}) = SumFunctionOnSet(h, S) + f[y]
<1> DEFINE T == S \cup {y}
<1>1. IsFiniteSet(T)
  BY FS_AddElement
<1>2. PICK g : IsSum(f, T, g) /\ SumFunctionOnSet(f, T) = g[T]
  BY <1>1, SumExists, SumIs
<1>3. PICK k : IsSum(h, S, k) /\ SumFunctionOnSet(h, S) = k[S]
  BY SumExists, SumIs
<1>4. S \in SUBSET T /\ S \in SUBSET (T \cap S) /\ y \in T \ S
  OBVIOUS
<1>5. g[T] = g[S] + f[y]
  BY <1>1, <1>2, <1>4, SumsGrow
<1>6. g[S] = k[S]
  BY <1>1, <1>2, <1>3, <1>4, SumsAgree
<1> QED
  BY <1>2, <1>3, <1>5, <1>6

-----------------------------------------------------------------------------
(* The category cache.                                                     *)

Entries == [item : Items, category : Categories \cup {Unknown}, until : Nat]

\* An entry ends within a TTL, and its category has not been stale for longer.
Fits(x) ==
    /\ x.until <= now + CacheTtl
    /\ x.category # meta[x.item] => since[x.item] >= x.until - CacheTtl

\* A cache that may follow.
Sound(s) ==
    /\ s \in Seq(Entries)
    /\ \A m, n \in 1 .. Len(s) : s[m].item = s[n].item => m = n
    /\ \A n \in 1 .. Len(s) : Fits(s[n])

CacheInv ==
    /\ now \in Nat
    /\ meta \in [Items -> Categories \cup {Unknown}]
    /\ since \in [Items -> Nat]
    /\ Sound(cache) /\ Len(cache) <= CacheSize

LEMMA Sizes == CacheSize \in Nat /\ CacheSize > 0 /\ CacheTtl \in Nat
BY UpsertAssumption

LEMMA CatalogueTyped ==
  ASSUME NEW c \in Catalogues PROVE c \in [Items -> Categories \cup {Unknown}]
<1>1. c \in [Items -> {c[i] : i \in Items}]
  BY UpsertAssumption
<1>2. {c[i] : i \in Items} \subseteq Categories \cup {Unknown}
  <2>1. {c[i] : i \in Items} \subseteq UNION {{d[i] : i \in Items} : d \in Catalogues}
    BY Zenon
  <2> QED
    BY <2>1 DEF Categories
<1> QED
  BY <1>1, <1>2

LEMMA EventItem == ASSUME NEW e \in Events PROVE Click[e].item \in Items
BY UpsertAssumption

-----------------------------------------------------------------------------
(* What the cache's operations leave.                                      *)

LEMMA WithoutSound ==
  ASSUME CacheInv, NEW i \in Items
  PROVE  /\ Sound(Without(i)) /\ Len(Without(i)) <= Len(cache)
         /\ Places(i) # {} => Len(Without(i)) < Len(cache)
         /\ \A k \in 1 .. Len(Without(i)) : Without(i)[k].item # i
<1>1. /\ cache \in Seq(Entries) /\ Len(cache) \in Nat /\ DOMAIN cache = 1 .. Len(cache)
      /\ \A k \in 1 .. Len(cache) : cache[k] \in Entries
  BY DEF CacheInv, Sound
<1>2. CASE Places(i) = {}
  BY <1>1, <1>2 DEF Without, Places, CacheInv, Sound
<1>3. CASE Places(i) # {}
  <2>1. PICK n \in Places(i) :
          Without(i) = [k \in 1 .. Len(cache) - 1 |-> cache[IF k < n THEN k ELSE k + 1]]
    BY <1>3 DEF Without
  <2>2. n \in 1 .. Len(cache) /\ cache[n].item = i
    BY <1>1, <2>1 DEF Places
  <2> DEFINE w == [k \in 1 .. Len(cache) - 1 |-> cache[IF k < n THEN k ELSE k + 1]]
  <2>3. w \in Seq(Entries) /\ Len(w) = Len(cache) - 1
    BY <1>1, <2>2
  <2>4. \A k \in 1 .. Len(w) : /\ (IF k < n THEN k ELSE k + 1) \in 1 .. Len(cache)
                               /\ (IF k < n THEN k ELSE k + 1) # n
                               /\ w[k] = cache[IF k < n THEN k ELSE k + 1]
    BY <1>1, <2>2, <2>3
  <2> HIDE DEF w
  <2>5. \A k \in 1 .. Len(w) : Fits(w[k])
    BY <2>4 DEF CacheInv, Sound
  <2>6. \A k \in 1 .. Len(w) : w[k].item # i
    BY <2>2, <2>4 DEF CacheInv, Sound
  <2>7. ASSUME NEW j \in 1 .. Len(w), NEW k \in 1 .. Len(w), w[j].item = w[k].item PROVE j = k
    <3>1. (IF j < n THEN j ELSE j + 1) = (IF k < n THEN k ELSE k + 1)
      BY <2>4, <2>7 DEF CacheInv, Sound
    <3> QED
      BY <1>1, <2>2, <2>3, <3>1
  <2>8. Sound(w)
    BY <2>3, <2>5, <2>7 DEF Sound
  <2>9. Without(i) = w
    BY <2>1 DEF w
  <2> QED
    BY <1>1, <2>3, <2>6, <2>8, <2>9
<1> QED
  BY <1>2, <1>3

LEMMA AppendSound ==
  ASSUME NEW s, Sound(s), NEW x \in Entries, Fits(x), \A k \in 1 .. Len(s) : s[k].item # x.item
  PROVE  Sound(Append(s, x)) /\ Len(Append(s, x)) = Len(s) + 1
<1>1. s \in Seq(Entries) /\ Len(s) \in Nat
  BY DEF Sound
<1>2. /\ Append(s, x) \in Seq(Entries) /\ Len(Append(s, x)) = Len(s) + 1
      /\ \A k \in 1 .. Len(s) : Append(s, x)[k] = s[k]
      /\ Append(s, x)[Len(s) + 1] = x
  BY <1>1
<1>3. \A k \in 1 .. Len(s) + 1 : k \in 1 .. Len(s) \/ k = Len(s) + 1
  BY <1>1
<1>4. \A k \in 1 .. Len(s) + 1 : Fits(Append(s, x)[k])
  BY <1>2, <1>3 DEF Sound
<1>5. \A m, n \in 1 .. Len(s) + 1 : Append(s, x)[m].item = Append(s, x)[n].item => m = n
  BY <1>2, <1>3 DEF Sound
<1> QED
  BY <1>2, <1>4, <1>5 DEF Sound

LEMMA TailSound ==
  ASSUME NEW s, Sound(s), Len(s) > 0
  PROVE  /\ Sound(Tail(s)) /\ Len(Tail(s)) = Len(s) - 1
         /\ \A k \in 1 .. Len(s) - 1 : Tail(s)[k] = s[k + 1]
<1>1. s \in Seq(Entries) /\ Len(s) \in Nat
  BY DEF Sound
<1>2. /\ Tail(s) \in Seq(Entries) /\ Len(Tail(s)) = Len(s) - 1
      /\ \A k \in 1 .. Len(s) - 1 : Tail(s)[k] = s[k + 1]
  BY <1>1
<1>3. \A k \in 1 .. Len(s) - 1 : k + 1 \in 1 .. Len(s)
  BY <1>1
<1> QED
  BY <1>1, <1>2, <1>3 DEF Sound
\* What _infer_category leaves.
LEMMA InferredSound ==
  ASSUME CacheInv, NEW i \in Items, NEW found \in Inferred(i)
  PROVE  Sound(found.cache) /\ Len(found.cache) <= CacheSize
<1> DEFINE rest == Without(i)
           fresh == Entry(i, now + CacheTtl)
<1>1. /\ Sound(rest) /\ Len(rest) <= Len(cache) /\ Len(rest) \in Nat /\ Len(cache) \in Nat
      /\ Places(i) # {} => Len(rest) < Len(cache)
      /\ \A k \in 1 .. Len(rest) : rest[k].item # i
      /\ Len(cache) <= CacheSize
  BY WithoutSound DEF CacheInv, Sound
<1>2. fresh \in Entries /\ Fits(fresh) /\ fresh.item = i
  BY Sizes DEF Entry, Entries, Fits, CacheInv
<1> HIDE DEF rest, fresh
<1>3. CASE found \in Hit(i)
  <2>1. PICK n \in Places(i) : found.cache = Append(rest, cache[n])
    BY <1>3 DEF Hit, rest
  <2>2. cache[n] \in Entries /\ cache[n].item = i /\ Fits(cache[n])
    <3>1. cache \in Seq(Entries) /\ n \in DOMAIN cache /\ cache[n].item = i
      BY DEF CacheInv, Sound, Places
    <3>2. n \in 1 .. Len(cache)
      BY <3>1
    <3> QED
      BY <3>1, <3>2 DEF CacheInv, Sound
  <2>3. Sound(Append(rest, cache[n])) /\ Len(Append(rest, cache[n])) = Len(rest) + 1
    BY <1>1, <2>2, AppendSound
  <2> QED
    BY <1>1, <2>1, <2>3, Sizes
<1>4. CASE found.cache = rest
  BY <1>1, <1>4, Sizes
<1> DEFINE room == IF Len(rest) >= CacheSize THEN Tail(rest) ELSE rest
<1>5. CASE found.cache = Append(room, fresh)
  <2>1. Sound(room) /\ Len(room) < CacheSize /\ Len(room) \in Nat
        /\ \A k \in 1 .. Len(room) : room[k].item # i
    <3>1. CASE Len(rest) >= CacheSize
      <4>1. /\ Sound(Tail(rest)) /\ Len(Tail(rest)) = Len(rest) - 1
            /\ \A k \in 1 .. Len(rest) - 1 : Tail(rest)[k] = rest[k + 1] /\ k + 1 \in 1 .. Len(rest)
        BY <1>1, <3>1, Sizes, TailSound
      <4>2. \A k \in 1 .. Len(rest) - 1 : Tail(rest)[k].item # i
        BY <1>1, <4>1
      <4> QED
        BY <1>1, <3>1, <4>1, <4>2, Sizes
    <3>2. CASE Len(rest) < CacheSize
      BY <1>1, <3>2, Sizes
    <3> QED
      BY <1>1, <3>1, <3>2, Sizes
  <2> HIDE DEF room
  <2>2. Sound(Append(room, fresh)) /\ Len(Append(room, fresh)) = Len(room) + 1
    BY <1>2, <2>1, AppendSound
  <2> QED
    BY <1>5, <2>1, <2>2, Sizes
<1> QED
  BY <1>3, <1>4, <1>5 DEF Inferred, rest, fresh

-----------------------------------------------------------------------------
LEMMA CacheInit == Init => CacheInv
<1> SUFFICES ASSUME Init PROVE CacheInv
  OBVIOUS
<1>1. <<>> \in Seq(Entries) /\ Len(<<>>) = 0
  OBVIOUS
<1> QED
  BY <1>1, Sizes DEF Init, CacheInv, Sound

\* A step that leaves time and metadata alone.
LEMMA CacheStep ==
  ASSUME CacheInv, UNCHANGED <<now, meta, since>>, Sound(cache'), Len(cache') <= CacheSize
  PROVE  CacheInv'
<1>1. \A x : Fits(x) => Fits(x)'
  BY DEF Fits
<1> QED
  BY <1>1 DEF CacheInv, Sound

LEMMA CacheInvariant == CacheInv /\ [Next]_vars => CacheInv'
<1> SUFFICES ASSUME CacheInv, [Next]_vars PROVE CacheInv'
  OBVIOUS
<1>1. ASSUME NEW e \in Events, Deliver(e) PROVE CacheInv'
  <2>1. PICK found \in Inferred(Click[e].item) : cache' = found.cache
    BY <1>1 DEF Deliver
  <2>2. UNCHANGED <<now, meta, since>>
    BY <1>1 DEF Deliver
  <2> QED
    BY <2>1, <2>2, EventItem, InferredSound, CacheStep
<1>2. CASE Restart
  <2>1. <<>> \in Seq(Entries) /\ Len(<<>>) = 0
    OBVIOUS
  <2> QED
    BY <1>2, <2>1, Sizes, CacheStep DEF Restart, Sound
<1>3. CASE LoadPopularity \/ UNCHANGED vars
  BY <1>3, CacheStep DEF LoadPopularity, vars, CacheInv
<1>4. CASE Tick
  <2>1. now' = now + 1 /\ UNCHANGED <<meta, since, cache>> /\ now \in Nat
    BY <1>4 DEF Tick, CacheInv
  <2>2. \A n \in 1 .. Len(cache) : cache[n] \in Entries
    BY DEF CacheInv, Sound
  <2>3. \A n \in 1 .. Len(cache) : Fits(cache[n])'
    BY <2>1, <2>2, Sizes DEF CacheInv, Sound, Fits, Entries
  <2> QED
    BY <2>1, <2>3 DEF CacheInv, Sound
<1>5. CASE LoadMetadata
  <2>1. PICK c \in Catalogues :
           /\ meta' = c
           /\ since' = [i \in Items |-> IF c[i] # meta[i] THEN now ELSE since[i]]
           /\ UNCHANGED <<now, cache>>
    BY <1>5 DEF LoadMetadata
  <2>2. meta' \in [Items -> Categories \cup {Unknown}]
    BY <2>1, CatalogueTyped
  <2>3. since' \in [Items -> Nat]
    BY <2>1 DEF CacheInv
  <2>4. ASSUME NEW x \in Entries, Fits(x) PROVE Fits(x)'
    <3>1. x.item \in Items /\ x.until \in Nat /\ now \in Nat
      BY DEF Entries, CacheInv
    <3>2. CASE meta'[x.item] = meta[x.item]
      BY <2>1, <2>4, <3>1, <3>2 DEF Fits
    <3>3. CASE meta'[x.item] # meta[x.item]
      BY <2>1, <2>4, <3>1, <3>3, Sizes DEF Fits
    <3> QED
      BY <3>2, <3>3
  <2>5. \A n \in 1 .. Len(cache) : cache[n] \in Entries
    BY DEF CacheInv, Sound
  <2>6. \A n \in 1 .. Len(cache) : Fits(cache[n])'
    <3> SUFFICES ASSUME NEW n \in 1 .. Len(cache) PROVE Fits(cache[n])'
      OBVIOUS
    <3>1. PICK x \in Entries : x = cache[n]
      BY <2>5
    <3>2. Fits(x)'
      BY <2>4, <3>1 DEF CacheInv, Sound
    <3> QED
      BY <2>1, <3>1, <3>2 DEF Fits
  <2> QED
    BY <2>1, <2>2, <2>3, <2>6 DEF CacheInv, Sound
<1> QED
  BY <1>1, <1>2, <1>3, <1>4, <1>5 DEF Next

LEMMA CacheInvariance == Spec => []CacheInv
BY CacheInit, CacheInvariant, PTL DEF Spec

-----------------------------------------------------------------------------
\* _CategoryCache never holds more than max_size entries, nor two of one item.
THEOREM CacheIsBounded ==
  Spec => [](Len(cache) <= CacheSize /\ \A m, n \in DOMAIN cache : cache[m].item = cache[n].item => m = n)
<1>1. CacheInv => Len(cache) <= CacheSize /\ \A m, n \in DOMAIN cache : cache[m].item = cache[n].item => m = n
  BY DEF CacheInv, Sound
<1> QED
  BY <1>1, CacheInvariance, PTL

\* A cached category that is no longer the one in Redis was replaced there
\* within one TTL of the entry's end: hits, evictions and reloads of the
\* catalogue in any order never keep a stale category, or a missing one, for
\* longer than CATEGORY_CACHE_TTL_SECONDS.
THEOREM CategoryStaysFresh == Spec => []CategoryFresh
<1>1. CacheInv => CategoryFresh
  BY DEF CacheInv, Sound, Fits, CategoryFresh
<1> QED
  BY <1>1, CacheInvariance, PTL

-----------------------------------------------------------------------------
(* Types of the rest.                                                      *)

LogEntries == [event : Events, category : Categories \cup {Unknown}]

RestTypeOK ==
    /\ now \in 0 .. Horizon
    /\ since \in [Items -> 0 .. now]
    /\ dedupe \in [Events -> Nat]
    /\ recent \in [Users -> Seq(Items)] /\ \A u \in Users : Len(recent[u]) <= RecentMax
    /\ affinity \in [Users -> [Categories -> Cells]] /\ heat \in [Items -> Cells]
    /\ popular \in [Items -> Nat \cup {Missing}]
    /\ bucket \in [Starts -> [Items -> Nat]] /\ expires \in [Starts -> Nat]
    /\ seeded \in BOOLEAN
    /\ log \in Seq(LogEntries)

LEMMA Numbers ==
  /\ Horizon \in Nat /\ Retention \in Nat /\ BucketTtl \in Nat /\ CacheTtl \in Nat
  /\ DedupeWindow \in Nat /\ Width \in Nat /\ BucketCount \in Nat /\ PopularMax \in Nat
  /\ RecentMax \in Nat /\ One \in Nat
  /\ Width > 0 /\ BucketCount > 0 /\ PopularMax > 0 /\ RecentMax > 0 /\ One > 0
  /\ DedupeWindow >= Retention
BY UpsertAssumption

LEMMA ClickTyped ==
  ASSUME NEW e \in Events
  PROVE  Click[e].item \in Items /\ Click[e].ts \in Nat /\ Click[e].user \in Users
BY UpsertAssumption DEF Users

\* Time is cut into buckets.
LEMMA StartsAre ==
  ASSUME NEW t \in Nat
  PROVE  /\ \E n \in Nat : BucketStart(t) = n * Width /\ n = t \div Width
         /\ BucketStart(t) \in Nat /\ BucketStart(t) <= t /\ t < BucketStart(t) + Width
         /\ t <= Horizon => BucketStart(t) \in Starts
<1>1. Width \in Nat /\ Width > 0 /\ Horizon \in Nat
  BY Numbers
<1>2. PICK n \in Nat : n = t \div Width
  BY <1>1
<1>3. n * Width \in Nat /\ n * Width <= t /\ t < n * Width + Width
  BY <1>1, <1>2
<1>4. ASSUME t <= Horizon PROVE n \in 0 .. Horizon \div Width
  <2>1. PICK m \in Nat : m = Horizon \div Width
    BY <1>1
  <2>2. Horizon < m * Width + Width
    BY <1>1, <2>1
  <2>3. ~(n >= m + 1)
    <3>1. SUFFICES ASSUME n >= m + 1 PROVE FALSE
      OBVIOUS
    <3>2. n * Width >= (m + 1) * Width
      BY <1>1, <3>1
    <3>3. (m + 1) * Width = m * Width + Width
      BY <1>1
    <3> QED
      BY <1>1, <1>3, <1>4, <2>2, <3>2, <3>3
  <2> QED
    BY <2>1, <2>3
<1>5. BucketStart(t) = n * Width
  BY <1>2 DEF BucketStart
<1> QED
  BY <1>2, <1>3, <1>4, <1>5 DEF Starts

LEMMA InferredTyped ==
  ASSUME CacheInv, NEW i \in Items, NEW found \in Inferred(i)
  PROVE  found.category \in Categories \cup {Unknown}
<1>1. \A n \in DOMAIN cache : cache[n].category \in Categories \cup {Unknown}
  <2> TAKE n \in DOMAIN cache
  <2>1. cache[n] \in Entries
    BY DEF CacheInv, Sound
  <2> QED
    BY <2>1 DEF Entries
<1>2. meta[i] \in Categories \cup {Unknown}
  BY DEF CacheInv
<1> QED
  BY <1>1, <1>2 DEF Inferred, Hit, Places

\* The worth of a cell is counted in integers.
LEMMA DecayedTyped ==
  ASSUME NEW cell \in Cells, NEW t \in Nat
  PROVE  Decayed(cell, t) \in Nat /\ Clicked(cell, t) \in Cells /\ Worth(cell) \in Nat
<1>1. cell.score \in Nat /\ cell.ts \in Nat /\ One \in Nat
  BY Numbers DEF Cells
<1>2. CASE cell.ts >= t
  <2>1. Decayed(cell, t) \in Nat
    BY <1>1, <1>2 DEF Decayed
  <2>2. 2 ^ cell.ts \in Nat
    BY <1>1, PowerPositive
  <2> QED
    BY <1>1, <2>1, <2>2 DEF Clicked, Cells, Worth
<1>3. CASE cell.ts < t
  <2>1. PICK p \in Nat \ {0} : p = 2 ^ (t - cell.ts)
    BY <1>1, <1>3, PowerPositive
  <2>2. Decayed(cell, t) = cell.score \div p
    BY <1>1, <1>3, <2>1 DEF Decayed
  <2>3. Decayed(cell, t) \in Nat
    BY <1>1, <2>1, <2>2
  <2>4. 2 ^ cell.ts \in Nat
    BY <1>1, PowerPositive
  <2> QED
    BY <1>1, <2>3, <2>4 DEF Clicked, Cells, Worth
<1> QED
  BY <1>1, <1>2, <1>3

LEMMA CappedTyped ==
  ASSUME NEW set \in [Items -> Nat \cup {Missing}] PROVE Capped(set) \in [Items -> Nat \cup {Missing}]
BY DEF Capped

LEMMA UpsertTyped ==
  ASSUME RestTypeOK, NEW e \in Events, NEW category \in Categories \cup {Unknown},
         Click[e].ts <= now, Upsert(e, category), UNCHANGED <<now, since, seeded>>
  PROVE  RestTypeOK'
<1> DEFINE c == Click[e]
           start == BucketStart(c.ts)
           trimmed == <<c.item>> \o recent[c.user]
<1>1. c.item \in Items /\ c.ts \in Nat /\ c.user \in Users
  BY ClickTyped
<1>2. now \in Nat /\ now <= Horizon /\ Horizon \in Nat /\ c.ts <= Horizon
  BY <1>1, Numbers DEF RestTypeOK, c
<1>3. start \in Starts
  BY <1>1, <1>2, StartsAre
<1> HIDE DEF c, start
<1>4. dedupe' \in [Events -> Nat]
  <2>1. dedupe' = [dedupe EXCEPT ![e] = now + DedupeWindow] /\ now + DedupeWindow \in Nat
    BY <1>2, Numbers DEF Upsert
  <2> QED
    BY <2>1 DEF RestTypeOK
<1>5. recent' \in [Users -> Seq(Items)] /\ \A u \in Users : Len(recent'[u]) <= RecentMax
  <2> DEFINE list == IF Len(trimmed) > RecentMax THEN SubSeq(trimmed, 1, RecentMax) ELSE trimmed
  <2>1. recent[c.user] \in Seq(Items)
    BY <1>1 DEF RestTypeOK
  <2>2. trimmed \in Seq(Items) /\ Len(trimmed) \in Nat
    BY <1>1, <2>1
  <2>3. RecentMax \in Nat /\ RecentMax >= 1
    BY Numbers
  <2>4. list \in Seq(Items) /\ Len(list) <= RecentMax
    BY <2>2, <2>3
  <2>5. recent' = [recent EXCEPT ![c.user] = list]
    BY DEF Upsert, c
  <2> HIDE DEF list
  <2> QED
    BY <1>1, <2>4, <2>5 DEF RestTypeOK
<1>6. affinity' \in [Users -> [Categories -> Cells]]
  <2>1. CASE category = Unknown
    BY <2>1 DEF Upsert, RestTypeOK
  <2>2. CASE category # Unknown
    <3>1. category \in Categories /\ affinity[c.user] \in [Categories -> Cells]
      BY <1>1, <2>2 DEF RestTypeOK
    <3>2. Clicked(affinity[c.user][category], c.ts) \in Cells
      BY <1>1, <3>1, DecayedTyped
    <3>3. affinity' = [affinity EXCEPT ![c.user][category] = Clicked(affinity[c.user][category], c.ts)]
      BY <2>2 DEF Upsert, c
    <3> QED
      BY <1>1, <3>1, <3>2, <3>3 DEF RestTypeOK
  <2> QED
    BY <2>1, <2>2
<1>7. heat' \in [Items -> Cells] /\ Worth(Clicked(heat[c.item], c.ts)) \in Nat
  <2>1. Clicked(heat[c.item], c.ts) \in Cells
    BY <1>1, DecayedTyped DEF RestTypeOK
  <2>2. Worth(Clicked(heat[c.item], c.ts)) \in Nat
    BY <1>1, <2>1, DecayedTyped
  <2>3. heat' = [heat EXCEPT ![c.item] = Clicked(heat[c.item], c.ts)]
    BY DEF Upsert, c
  <2> QED
    BY <1>1, <2>1, <2>2, <2>3 DEF RestTypeOK
<1>8. popular' \in [Items -> Nat \cup {Missing}]
  <2>1. [popular EXCEPT ![c.item] = Worth(Clicked(heat[c.item], c.ts))] \in [Items -> Nat \cup {Missing}]
    BY <1>7 DEF RestTypeOK
  <2>2. popular' = Capped([popular EXCEPT ![c.item] = Worth(Clicked(heat[c.item], c.ts))])
    BY DEF Upsert, c
  <2> QED
    BY <2>1, <2>2, CappedTyped
<1>9. bucket' \in [Starts -> [Items -> Nat]]
  <2>1. bucket[start][c.item] \in Nat /\ bucket[start] \in [Items -> Nat]
    BY <1>1, <1>3 DEF RestTypeOK
  <2>2. bucket' = [bucket EXCEPT ![start][c.item] = bucket[start][c.item] + 1]
    BY DEF Upsert, c, start
  <2> QED
    BY <1>1, <1>3, <2>1, <2>2 DEF RestTypeOK
<1>10. expires' \in [Starts -> Nat]
  <2>1. expires' = [expires EXCEPT ![start] = now + BucketTtl] /\ now + BucketTtl \in Nat
    BY <1>2, Numbers DEF Upsert, start, c
  <2> QED
    BY <2>1 DEF RestTypeOK
<1>11. log' \in Seq(LogEntries)
  <2>1. [event |-> e, category |-> category] \in LogEntries
    BY DEF LogEntries
  <2> QED
    BY <2>1 DEF Upsert, RestTypeOK
<1> QED
  BY <1>4, <1>5, <1>6, <1>7, <1>8, <1>9, <1>10, <1>11 DEF RestTypeOK

\* What a delivery does besides the cache: an upsert, or nothing.
LEMMA DeliverIs ==
  ASSUME CacheInv, NEW e \in Events, Deliver(e)
  PROVE  /\ UNCHANGED <<now, meta, since, seeded>>
         /\ Click[e].ts <= now /\ now < Click[e].ts + Retention
         /\ \/ /\ dedupe[e] = 0
               /\ \E category \in Categories \cup {Unknown} : Upsert(e, category)
            \/ UNCHANGED featureVars
<1>1. PICK found \in Inferred(Click[e].item) :
        (dedupe[e] = 0 /\ Upsert(e, found.category)) \/ UNCHANGED featureVars
  BY DEF Deliver
<1>2. found.category \in Categories \cup {Unknown}
  BY ClickTyped, InferredTyped
<1> QED
  BY <1>1, <1>2 DEF Deliver

LEMMA RestInit == Init => RestTypeOK
<1> SUFFICES ASSUME Init PROVE RestTypeOK
  OBVIOUS
<1>1. NoCell \in Cells /\ <<>> \in Seq(Items) /\ Len(<<>>) = 0
      /\ <<>> \in Seq(LogEntries)
  BY DEF NoCell, Cells
<1>2. 0 \in 0 .. Horizon /\ 0 <= RecentMax /\ 0 \in 0 .. 0
  BY Numbers
<1>3. now \in 0 .. Horizon /\ since \in [Items -> 0 .. now]
  BY <1>2 DEF Init
<1>4. recent \in [Users -> Seq(Items)] /\ \A u \in Users : Len(recent[u]) <= RecentMax
  BY <1>1, <1>2 DEF Init
<1>5. affinity \in [Users -> [Categories -> Cells]] /\ heat \in [Items -> Cells]
  BY <1>1 DEF Init
<1>6. popular \in [Items -> Nat \cup {Missing}] /\ bucket \in [Starts -> [Items -> Nat]]
  BY DEF Init
<1>7. dedupe \in [Events -> Nat] /\ expires \in [Starts -> Nat] /\ seeded \in BOOLEAN
  BY DEF Init
<1> QED
  BY <1>1, <1>3, <1>4, <1>5, <1>6, <1>7 DEF Init, RestTypeOK

LEMMA RestStep == CacheInv /\ RestTypeOK /\ [Next]_vars => RestTypeOK'
<1> SUFFICES ASSUME CacheInv, RestTypeOK, [Next]_vars PROVE RestTypeOK'
  OBVIOUS
<1>1. ASSUME NEW e \in Events, Deliver(e) PROVE RestTypeOK'
  <2>1. CASE UNCHANGED featureVars
    BY <1>1, <2>1, DeliverIs DEF RestTypeOK, featureVars
  <2>2. CASE \E category \in Categories \cup {Unknown} : Upsert(e, category)
    BY <1>1, <2>2, DeliverIs, UpsertTyped
  <2> QED
    BY <1>1, <2>1, <2>2, DeliverIs
<1>2. CASE Restart \/ UNCHANGED vars
  BY <1>2 DEF Restart, vars, featureVars, RestTypeOK
<1>3. CASE LoadMetadata
  <2>1. PICK c \in Catalogues : /\ since' = [i \in Items |-> IF c[i] # meta[i] THEN now ELSE since[i]]
                                /\ UNCHANGED <<now, seeded, featureVars>>
    BY <1>3 DEF LoadMetadata
  <2>2. since' \in [Items -> 0 .. now]
    BY <2>1 DEF RestTypeOK
  <2> QED
    BY <2>1, <2>2 DEF RestTypeOK, featureVars
<1>4. CASE LoadPopularity
  <2>1. popular' \in [Items -> Nat \cup {Missing}]
    BY <1>4, UpsertAssumption DEF LoadPopularity
  <2> QED
    BY <1>4, <2>1 DEF LoadPopularity, RestTypeOK
<1>5. CASE Tick
  <2>1. now' = now + 1 /\ now < Horizon /\ Horizon \in Nat
    BY <1>5, Numbers DEF Tick
  <2>2. now' \in 0 .. Horizon /\ since' \in [Items -> 0 .. now']
    BY <1>5, <2>1 DEF Tick, RestTypeOK
  <2>3. dedupe' \in [Events -> Nat] /\ bucket' \in [Starts -> [Items -> Nat]]
    BY <1>5 DEF Tick, RestTypeOK
  <2> QED
    BY <1>5, <2>2, <2>3 DEF Tick, RestTypeOK
<1> QED
  BY <1>1, <1>2, <1>3, <1>4, <1>5 DEF Next

\* Types, and limits: whatever is clicked, loaded, seeded or restarted, no list
\* is longer than RECENT_CLICKS_MAX and no cache than CATEGORY_CACHE_MAX_SIZE.
THEOREM UpsertTypeCorrect == Spec => []UpsertTypeOK
<1>1. ASSUME CacheInv, RestTypeOK PROVE UpsertTypeOK
  <2>1. cache \in Seq(Entries) /\ meta \in [Items -> Categories \cup {Unknown}]
    BY <1>1 DEF CacheInv, Sound
  <2>2. Len(cache) <= CacheSize /\ \A m, n \in DOMAIN cache : cache[m].item = cache[n].item => m = n
    BY <1>1, <2>1 DEF CacheInv, Sound
  <2> QED
    BY <1>1, <2>1, <2>2 DEF RestTypeOK, UpsertTypeOK, Entries, LogEntries
<1> QED
  BY <1>1, CacheInvariance, RestInit, RestStep, PTL DEF Spec

-----------------------------------------------------------------------------
(* The windows.                                                            *)

\* The elements of A that have a key in t.
Keyed(A, k, t) == {a \in A : k[a] \in t}

\* Adding up how many elements of A have each of the keys in Q.
LEMMA SumOfParts ==
  ASSUME NEW A, IsFiniteSet(A), NEW k, NEW Q, IsFiniteSet(Q), NEW f,
         \A q \in Q : f[q] = Cardinality(Keyed(A, k, {q}))
  PROVE  SumFunctionOnSet(f, Q) = Cardinality(Keyed(A, k, Q))
<1> DEFINE Having(t) == Keyed(A, k, t)
           Holds(t) == SumFunctionOnSet(f, t) = Cardinality(Having(t))
           Bad == {n \in Nat : \E t \in SUBSET Q : Cardinality(t) = n /\ ~Holds(t)}
<1>1. SUFFICES ASSUME Bad # {} PROVE FALSE
  <2>1. Cardinality(Q) \in Nat
    BY FS_CardinalityType
  <2> QED
    BY <2>1
<1>2. PICK n \in Bad : \A m \in Bad : n <= m
  <2>1. Bad \in SUBSET Nat
    OBVIOUS
  <2> HIDE DEF Bad
  <2> QED
    BY <1>1, <2>1, LeastNumber
<1>3. PICK t \in SUBSET Q : Cardinality(t) = n /\ ~Holds(t)
  BY <1>2
<1>4. n \in Nat /\ IsFiniteSet(t)
  BY <1>2, FS_Subset
<1>5. ASSUME NEW w \in SUBSET Q, Cardinality(w) = n - 1, n - 1 \in Nat PROVE Holds(w)
  <2>1. n - 1 \notin Bad
    <3> HIDE DEF Bad
    <3> QED
      BY <1>2, <1>4, <1>5
  <2> HIDE DEF Holds
  <2> QED
    BY <1>5, <2>1
<1> HIDE DEF Bad
<1>6. t # {}
  <2>1. Having({}) = {} /\ SumFunctionOnSet(f, {}) = 0 /\ Cardinality({}) = 0
    BY SumOfNone, FS_EmptySet DEF Keyed
  <2>2. Holds({})
    BY <2>1
  <2> HIDE DEF Holds
  <2> QED
    BY <1>3, <2>2
<1>7. PICK x \in t : TRUE
  BY <1>6
<1>8. PICK w \in SUBSET Q : w = t \ {x}
  OBVIOUS
<1>9. IsFiniteSet(w) /\ Cardinality(w) = n - 1 /\ n - 1 \in Nat /\ t = w \cup {x} /\ x \notin w
  <2>1. IsFiniteSet(w) /\ Cardinality(w) = n - 1
    BY <1>3, <1>4, <1>7, <1>8, FS_RemoveElement
  <2> QED
    BY <1>7, <1>8, <2>1, FS_CardinalityType
<1>10. SumFunctionOnSet(f, w) = Cardinality(Having(w))
  BY <1>5, <1>9
<1>11. /\ IsFiniteSet(Having(w)) /\ IsFiniteSet(Having({x}))
       /\ Having(w) \cup Having({x}) = Having(t) /\ Having(w) \cap Having({x}) = {}
  <2>1. Having(w) \subseteq A /\ Having({x}) \subseteq A
    BY DEF Keyed
  <2>2. Having(w) \cup Having({x}) = Having(t) /\ Having(w) \cap Having({x}) = {}
    BY <1>9 DEF Keyed
  <2> HIDE DEF Having
  <2> QED
    BY <2>1, <2>2, FS_Subset
<1>12. f[x] = Cardinality(Having({x}))
  BY <1>7
<1>13. \A q \in t : f[q] \in Nat
  <2> TAKE q \in t
  <2>1. Having({q}) \subseteq A
    BY DEF Keyed
  <2>2. Cardinality(Having({q})) \in Nat
    BY <2>1, FS_Subset, FS_CardinalityType
  <2> QED
    BY <2>2
<1>14. SumFunctionOnSet(f, t) = SumFunctionOnSet(f, w) + f[x]
  BY <1>9, <1>13, SumOfOneMore
<1> HIDE DEF Having
<1>15. Cardinality(Having(t)) = Cardinality(Having(w)) + Cardinality(Having({x}))
  <2>1. Cardinality(Having(w) \cup Having({x})) =
           Cardinality(Having(w)) + Cardinality(Having({x})) - Cardinality(Having(w) \cap Having({x}))
    BY <1>11, FS_Union
  <2>2. Cardinality(Having(w)) \in Nat /\ Cardinality(Having({x})) \in Nat /\ Cardinality({}) = 0
    BY <1>11, FS_CardinalityType, FS_EmptySet
  <2>3. /\ Cardinality(Having(w) \cap Having({x})) = 0
        /\ Cardinality(Having(w) \cup Having({x})) = Cardinality(Having(t))
    BY <1>11, <2>2
  <2> QED
    BY <2>1, <2>2, <2>3
<1> QED
  BY <1>3, <1>10, <1>12, <1>14, <1>15

Applied == {log[n].event : n \in DOMAIN log}
Counted(s, i) == {e \in Applied : Click[e].item = i /\ BucketStart(Click[e].ts) = s}

\* An applied click is remembered while Kafka may deliver it again, and its
\* bucket lives while it can be in a window; and a bucket that can be in a
\* window has counted each of its clicks.
Remembered(e) ==
    /\ Click[e].ts <= now
    /\ now >= Click[e].ts + Retention \/ dedupe[e] >= Click[e].ts + Retention
BucketLives(e) ==
    expires[BucketStart(Click[e].ts)] >= BucketStart(Click[e].ts) + BucketTtl
BucketCounts(s, i) ==
    s + BucketCount * Width > now => bucket[s][i] = Cardinality(Counted(s, i))

WindowInv ==
    /\ IsFiniteSet(Applied)
    /\ \A e \in Applied : Remembered(e) /\ BucketLives(e)
    /\ \A s \in Starts : \A i \in Items : BucketCounts(s, i)

LEMMA Span ==
  BucketCount * Width \in Nat /\ BucketTtl >= BucketCount * Width /\ Width \in Nat
BY UpsertAssumption

LEMMA StartsFinite == IsFiniteSet(Starts) /\ Starts \subseteq Nat
<1>1. Width \in Nat /\ Width > 0 /\ Horizon \in Nat
  BY Numbers
<1>2. PICK m \in Nat : m = Horizon \div Width
  BY <1>1
<1>3. m * Width \in Nat
  BY <1>1
<1>4. ASSUME NEW n \in 0 .. m PROVE n * Width \in Nat /\ n * Width <= m * Width
  <2>1. n \in Nat /\ m - n \in Nat /\ m = n + (m - n)
    OBVIOUS
  <2>2. PICK d \in Nat : d = m - n
    BY <2>1
  <2>3. (n + d) * Width = n * Width + d * Width /\ n * Width \in Nat /\ d * Width \in Nat
    BY <1>1, <2>1
  <2> QED
    BY <1>3, <2>1, <2>2, <2>3
<1>5. \A s \in Starts : s \in Nat /\ s <= m * Width
  BY <1>2, <1>4 DEF Starts
<1> QED
  BY <1>3, <1>5, FS_BoundedSetOfNaturals

\* The log after an upsert.
LEMMA LogGrows ==
  ASSUME RestTypeOK, NEW e \in Events, NEW category \in Categories \cup {Unknown}, Upsert(e, category)
  PROVE  /\ Len(log) \in Nat /\ DOMAIN log = 1 .. Len(log) /\ Len(log') = Len(log) + 1
         /\ DOMAIN log' = DOMAIN log \cup {Len(log) + 1} /\ Len(log) + 1 \notin DOMAIN log
         /\ \A n \in DOMAIN log : log'[n] = log[n] /\ log[n].event \in Events
         /\ log'[Len(log) + 1] = [event |-> e, category |-> category]
<1>1. log' = Append(log, [event |-> e, category |-> category])
  BY DEF Upsert
<1>2. log \in Seq(LogEntries)
  BY DEF RestTypeOK
<1>3. Len(log) \in Nat /\ DOMAIN log = 1 .. Len(log)
  BY <1>2
<1>4. \A n \in DOMAIN log : log[n].event \in Events
  <2> TAKE n \in DOMAIN log
  <2>1. log[n] \in LogEntries
    BY <1>2, <1>3
  <2> QED
    BY <2>1 DEF LogEntries
<1>5. /\ Len(log') = Len(log) + 1 /\ DOMAIN log' = 1 .. Len(log) + 1
      /\ \A n \in 1 .. Len(log) : log'[n] = log[n]
      /\ log'[Len(log) + 1] = [event |-> e, category |-> category]
  BY <1>1, <1>2
<1> QED
  BY <1>3, <1>4, <1>5

LEMMA AppliedGrows ==
  ASSUME RestTypeOK, NEW e \in Events, NEW category \in Categories \cup {Unknown}, Upsert(e, category)
  PROVE  Applied' = Applied \cup {e}
<1>1. ASSUME NEW x \in Applied' PROVE x \in Applied \cup {e}
  <2>1. PICK n \in DOMAIN log' : x = log'[n].event
    BY DEF Applied
  <2>2. CASE n \in DOMAIN log
    BY <2>1, <2>2, LogGrows DEF Applied
  <2>3. CASE n = Len(log) + 1
    <3>1. log'[Len(log) + 1] = [event |-> e, category |-> category]
      BY LogGrows
    <3> QED
      BY <2>1, <2>3, <3>1
  <2>4. DOMAIN log' = DOMAIN log \cup {Len(log) + 1}
    BY LogGrows
  <2> QED
    BY <2>2, <2>3, <2>4
<1>2. ASSUME NEW x \in Applied PROVE x \in Applied'
  BY LogGrows DEF Applied
<1>3. e \in Applied'
  <2>1. /\ DOMAIN log' = DOMAIN log \cup {Len(log) + 1}
        /\ log'[Len(log) + 1] = [event |-> e, category |-> category]
    BY LogGrows
  <2>2. Len(log) + 1 \in DOMAIN log' /\ log'[Len(log) + 1].event = e
    BY <2>1
  <2> QED
    BY <2>2 DEF Applied
<1> QED
  BY <1>1, <1>2, <1>3

LEMMA AppliedTyped == ASSUME RestTypeOK PROVE Applied \subseteq Events
<1> SUFFICES ASSUME NEW n \in DOMAIN log PROVE log[n].event \in Events
  BY DEF Applied
<1>1. log \in Seq(LogEntries) /\ n \in 1 .. Len(log)
  BY DEF RestTypeOK
<1>2. log[n] \in LogEntries
  BY <1>1
<1> QED
  BY <1>2 DEF LogEntries

LEMMA UpsertCounts ==
  ASSUME RestTypeOK, WindowInv, NEW e \in Events, NEW category \in Categories \cup {Unknown},
         Click[e].ts <= now, now < Click[e].ts + Retention, dedupe[e] = 0,
         Upsert(e, category), now' = now
  PROVE  WindowInv'
<1>1. Applied' = Applied \cup {e}
  BY AppliedGrows
<1>2. now \in Nat /\ now <= Horizon /\ Horizon \in Nat /\ Retention \in Nat /\ BucketTtl \in Nat
      /\ DedupeWindow \in Nat /\ DedupeWindow >= Retention
  BY Numbers DEF RestTypeOK
<1>3. Click[e].ts \in Nat /\ Click[e].item \in Items
  BY ClickTyped
<1>4. e \notin Applied
  <2> SUFFICES ASSUME e \in Applied PROVE FALSE
    OBVIOUS
  <2>1. Remembered(e)
    BY DEF WindowInv
  <2> QED
    BY <1>2, <1>3, <2>1 DEF Remembered
<1>5. IsFiniteSet(Applied')
  BY <1>1, FS_AddElement DEF WindowInv
<1> DEFINE start == BucketStart(Click[e].ts)
<1>6. start \in Starts /\ start \in Nat /\ start <= Click[e].ts
  BY <1>2, <1>3, StartsAre
<1>7. /\ dedupe' = [dedupe EXCEPT ![e] = now + DedupeWindow]
      /\ expires' = [expires EXCEPT ![start] = now + BucketTtl]
      /\ bucket' = [bucket EXCEPT ![start][Click[e].item] = bucket[start][Click[e].item] + 1]
  BY DEF Upsert
<1> HIDE DEF start
<1>8. ASSUME NEW x \in Applied' PROVE Remembered(x)'
  <2>1. x \in Events /\ Click[x].ts \in Nat
    BY <1>1, AppliedTyped, ClickTyped
  <2>2. CASE x = e
    <3>1. dedupe'[x] = now + DedupeWindow
      BY <1>7, <2>1, <2>2 DEF RestTypeOK
    <3> QED
      BY <1>2, <1>3, <2>2, <3>1 DEF Remembered
  <2>3. CASE x # e
    <3>1. dedupe'[x] = dedupe[x]
      BY <1>7, <2>1, <2>3 DEF RestTypeOK
    <3>2. Remembered(x)
      BY <1>1, <2>3 DEF WindowInv
    <3> QED
      BY <3>1, <3>2 DEF Remembered
  <2> QED
    BY <2>2, <2>3
<1>9. ASSUME NEW x \in Applied' PROVE BucketLives(x)'
  <2>1. x \in Events /\ Click[x].ts \in Nat
    BY <1>1, AppliedTyped, ClickTyped
  <2>2. CASE BucketStart(Click[x].ts) = start
    <3>1. expires'[start] = now + BucketTtl
      BY <1>6, <1>7 DEF RestTypeOK
    <3> QED
      BY <1>2, <1>3, <1>6, <2>2, <3>1 DEF BucketLives
  <2>3. CASE BucketStart(Click[x].ts) # start
    <3>1. x # e
      BY <2>3 DEF start
    <3>2. BucketLives(x) /\ Remembered(x)
      BY <1>1, <3>1 DEF WindowInv
    <3>3. BucketStart(Click[x].ts) \in Starts
      BY <1>2, <2>1, <3>2, StartsAre DEF Remembered
    <3>4. expires'[BucketStart(Click[x].ts)] = expires[BucketStart(Click[x].ts)]
      BY <1>7, <2>3, <3>3 DEF RestTypeOK
    <3> QED
      BY <3>2, <3>4 DEF BucketLives
  <2> QED
    BY <2>2, <2>3
<1>10. ASSUME NEW s \in Starts, NEW i \in Items PROVE BucketCounts(s, i)'
  <2>1. BucketCounts(s, i)
    BY DEF WindowInv
  <2>2. bucket[s] \in [Items -> Nat] /\ bucket[start] \in [Items -> Nat]
    BY <1>6 DEF RestTypeOK
  <2>3. CASE s = start /\ i = Click[e].item
    <3>1. Counted(s, i)' = Counted(s, i) \cup {e} /\ e \notin Counted(s, i)
      BY <1>1, <1>4, <2>3 DEF Counted, start
    <3>2. Counted(s, i) \subseteq Applied
      BY DEF Counted
    <3>3. IsFiniteSet(Counted(s, i))
      BY <3>2, FS_Subset DEF WindowInv
    <3>4. Cardinality(Counted(s, i)') = Cardinality(Counted(s, i)) + 1
      BY <3>1, <3>3, FS_AddElement
    <3>5. bucket'[s][i] = bucket[s][i] + 1
      BY <1>3, <1>6, <1>7, <2>2, <2>3 DEF RestTypeOK
    <3> QED
      BY <2>1, <3>4, <3>5 DEF BucketCounts
  <2>4. CASE ~(s = start /\ i = Click[e].item)
    <3>1. Counted(s, i)' = Counted(s, i)
      BY <1>1, <2>4 DEF Counted, start
    <3>2. bucket'[s][i] = bucket[s][i]
      BY <1>3, <1>6, <1>7, <2>2, <2>4 DEF RestTypeOK
    <3> QED
      BY <2>1, <3>1, <3>2 DEF BucketCounts
  <2> QED
    BY <2>3, <2>4
<1> QED
  BY <1>5, <1>8, <1>9, <1>10 DEF WindowInv

LEMMA TickCounts == ASSUME RestTypeOK, WindowInv, Tick PROVE WindowInv'
<1>1. now \in Nat /\ now' = now + 1 /\ Retention \in Nat /\ Horizon \in Nat /\ now <= Horizon
  BY Numbers DEF Tick, RestTypeOK
<1>2. Applied' = Applied /\ \A s, i : Counted(s, i)' = Counted(s, i)
  BY DEF Tick, Applied, Counted
<1>3. expires' = expires
  BY DEF Tick
<1>4. ASSUME NEW e \in Applied PROVE Remembered(e)' /\ BucketLives(e)'
  <2>1. e \in Events /\ Click[e].ts \in Nat /\ Remembered(e) /\ BucketLives(e)
    BY AppliedTyped, ClickTyped DEF WindowInv
  <2>2. dedupe'[e] = IF dedupe[e] <= now' THEN 0 ELSE dedupe[e]
    BY <2>1 DEF Tick
  <2>3. dedupe[e] \in Nat
    BY <2>1 DEF RestTypeOK
  <2> QED
    BY <1>1, <1>3, <2>1, <2>2, <2>3 DEF Remembered, BucketLives
<1>5. ASSUME NEW s \in Starts, NEW i \in Items PROVE BucketCounts(s, i)'
  <2>1. BucketCounts(s, i) /\ s \in Nat
    BY StartsFinite DEF WindowInv
  <2>2. bucket'[s] = IF expires[s] <= now' THEN [j \in Items |-> 0] ELSE bucket[s]
    BY DEF Tick
  <2>3. expires[s] \in Nat
    BY DEF RestTypeOK
  <2>4. CASE expires[s] <= now' /\ s + BucketCount * Width > now'
    <3>1. Counted(s, i) = {}
      <4> SUFFICES ASSUME NEW e \in Counted(s, i) PROVE FALSE
        OBVIOUS
      <4>1. BucketLives(e) /\ BucketStart(Click[e].ts) = s
        BY DEF WindowInv, Counted
      <4>2. expires[s] >= s + BucketTtl
        BY <4>1 DEF BucketLives
      <4> QED
        BY <1>1, <2>1, <2>3, <2>4, <4>2, Span, Numbers
    <3>2. bucket'[s][i] = 0
      BY <2>2, <2>4
    <3> QED
      BY <1>2, <3>1, <3>2, FS_EmptySet DEF BucketCounts
  <2>5. CASE ~(expires[s] <= now')
    <3>1. s + BucketCount * Width > now' => s + BucketCount * Width > now
      BY <1>1, <2>1, Span
    <3> QED
      BY <1>2, <2>1, <2>2, <2>5, <3>1 DEF BucketCounts
  <2>6. CASE ~(s + BucketCount * Width > now')
    BY <2>6 DEF BucketCounts
  <2> QED
    BY <2>4, <2>5, <2>6
<1> QED
  BY <1>2, <1>4, <1>5 DEF WindowInv

LEMMA WindowInit == Init => WindowInv
<1> SUFFICES ASSUME Init PROVE WindowInv
  OBVIOUS
<1>1. Applied = {}
  BY DEF Init, Applied
<1>2. \A s, i : Counted(s, i) = {}
  BY <1>1 DEF Counted
<1>3. IsFiniteSet({}) /\ Cardinality({}) = 0
  BY FS_EmptySet
<1>4. \A s \in Starts : \A i \in Items : bucket[s][i] = 0
  BY DEF Init
<1> QED
  BY <1>1, <1>2, <1>3, <1>4 DEF WindowInv, BucketCounts

LEMMA WindowSame ==
  ASSUME WindowInv, UNCHANGED <<now, dedupe, expires, bucket, log>> PROVE WindowInv'
<1>1. Applied' = Applied /\ \A s, i : Counted(s, i)' = Counted(s, i)
  BY DEF Applied, Counted
<1>2. \A e : Remembered(e)' <=> Remembered(e)
  BY DEF Remembered
<1>3. \A e : BucketLives(e)' <=> BucketLives(e)
  BY DEF BucketLives
<1>4. \A s, i : BucketCounts(s, i)' <=> BucketCounts(s, i)
  BY <1>1 DEF BucketCounts
<1> QED
  BY <1>1, <1>2, <1>3, <1>4 DEF WindowInv

LEMMA WindowStep == CacheInv /\ RestTypeOK /\ WindowInv /\ [Next]_vars => WindowInv'
<1> SUFFICES ASSUME CacheInv, RestTypeOK, WindowInv, [Next]_vars PROVE WindowInv'
  OBVIOUS
<1>1. ASSUME NEW e \in Events, Deliver(e) PROVE WindowInv'
  <2>1. CASE UNCHANGED featureVars
    BY <1>1, <2>1, DeliverIs, WindowSame DEF featureVars
  <2>2. CASE dedupe[e] = 0 /\ \E category \in Categories \cup {Unknown} : Upsert(e, category)
    BY <1>1, <2>2, DeliverIs, UpsertCounts
  <2> QED
    BY <1>1, <2>1, <2>2, DeliverIs
<1>2. CASE Restart \/ LoadMetadata \/ LoadPopularity \/ UNCHANGED vars
  <2>1. UNCHANGED <<now, dedupe, expires, bucket, log>>
    BY <1>2 DEF Restart, LoadMetadata, LoadPopularity, vars, featureVars
  <2> QED
    BY <2>1, WindowSame
<1> QED
  BY <1>1, <1>2, TickCounts DEF Next

\* What the inference service adds up over the active buckets is the number of
\* clicks applied in them, each once, for any events, deliveries, redeliveries
\* and widths: while Kafka may deliver a click again its marker lives, and no
\* bucket expires before it has left the window.
THEOREM WindowsAreExact == Spec => []WindowExact
<1>1. ASSUME RestTypeOK, WindowInv PROVE WindowExact
  <2> SUFFICES ASSUME NEW i \in Items
               PROVE  WindowCount(i) = Cardinality({e \in Applied : /\ Click[e].item = i
                                                     /\ BucketStart(Click[e].ts) \in ActiveBuckets(now)})
    BY DEF WindowExact, Applied
  <2> DEFINE A == {e \in Applied : Click[e].item = i}
             k == [e \in Applied |-> BucketStart(Click[e].ts)]
             Q == ActiveBuckets(now) \cap Starts
             f == [s \in Starts |-> bucket[s][i]]
  <2>1. now \in Nat /\ now <= Horizon /\ Horizon \in Nat
    BY <1>1, Numbers DEF RestTypeOK
  <2>2. ASSUME NEW q \in Q PROVE q \in Starts /\ q + BucketCount * Width > now
    <3>1. PICK n \in 0 .. BucketCount - 1 : q = BucketStart(now) - n * Width
      BY DEF ActiveBuckets
    <3>2. PICK m \in Nat : m = BucketCount - 1 - n
      BY <3>1, Numbers
    <3>3. BucketCount = n + m + 1 /\ n \in Nat /\ Width \in Nat
      BY <3>1, <3>2, Numbers
    <3>4. (n + m + 1) * Width = n * Width + m * Width + Width
          /\ n * Width \in Nat /\ m * Width \in Nat
      BY <3>2, <3>3
    <3>5. now < BucketStart(now) + Width /\ BucketStart(now) \in Nat
      BY <2>1, StartsAre
    <3>6. PICK a \in Nat, b \in Nat : a = n * Width /\ b = m * Width
      BY <3>4
    <3>7. BucketCount * Width = a + b + Width /\ q = BucketStart(now) - a
      BY <3>1, <3>3, <3>4, <3>6
    <3> QED
      BY <2>1, <3>3, <3>5, <3>6, <3>7
  <2>3. IsFiniteSet(A) /\ IsFiniteSet(Q)
    <3>1. A \subseteq Applied /\ Q \subseteq Starts
      OBVIOUS
    <3> HIDE DEF A, Q
    <3> QED
      BY <1>1, <3>1, StartsFinite, FS_Subset DEF WindowInv
  <2>4. ASSUME NEW q \in Q PROVE f[q] = Cardinality(Keyed(A, k, {q}))
    <3>1. q \in Starts /\ bucket[q][i] = Cardinality(Counted(q, i))
      BY <1>1, <2>2 DEF WindowInv, BucketCounts
    <3>2. Keyed(A, k, {q}) = Counted(q, i)
      BY DEF Counted, Keyed
    <3> QED
      BY <3>1, <3>2
  <2>5. Keyed(A, k, Q) = {e \in Applied : /\ Click[e].item = i
                                                  /\ BucketStart(Click[e].ts) \in ActiveBuckets(now)}
    <3>1. ASSUME NEW e \in Applied PROVE BucketStart(Click[e].ts) \in Starts
      <4>1. Click[e].ts \in Nat /\ Click[e].ts <= now
        BY <1>1, AppliedTyped, ClickTyped DEF WindowInv, Remembered
      <4> QED
        BY <2>1, <4>1, StartsAre
    <3> QED
      BY <3>1 DEF Keyed
  <2>6. WindowCount(i) = SumFunctionOnSet(f, Q)
    BY DEF WindowCount
  <2> HIDE DEF A, k, Q, f
  <2>7. SumFunctionOnSet(f, Q) = Cardinality(Keyed(A, k, Q))
    BY <2>3, <2>4, SumOfParts
  <2> QED
    BY <2>5, <2>6, <2>7
<1> QED
  BY <1>1, CacheInvariance, RestInit, RestStep, WindowInit, WindowStep, PTL DEF Spec

-----------------------------------------------------------------------------
(* Decayed scores.                                                         *)

\* Halving the score of the cell until the clock stops leaves no remainder.
Exact(cell) == \E m \in Nat : cell.score = m * 2 ^ (Horizon - cell.ts)

LEMMA OneIsExact == \E o \in Nat : One = o * 2 ^ Horizon
<1>1. PICK p \in Nat \ {0} : p = 2 ^ Horizon
  BY Numbers, PowerPositive
<1>2. PICK o \in Nat : o = One \div p
  BY <1>1, Numbers
<1>3. One = o * p
  BY <1>1, <1>2, UpsertAssumption
<1> QED
  BY <1>1, <1>3

LEMMA ProductGrows ==
  ASSUME NEW a \in Nat, NEW b \in Nat, a <= b, NEW c \in Nat
  PROVE  a * c <= b * c /\ c * a <= c * b /\ a * c \in Nat /\ b * c \in Nat
<1>1. PICK d \in Nat : b = a + d
  <2>1. b - a \in Nat /\ b = a + (b - a)
    OBVIOUS
  <2> QED
    BY <2>1
<1>2. (a + d) * c = a * c + d * c /\ a * c \in Nat /\ d * c \in Nat
  OBVIOUS
<1>3. c * a = a * c /\ c * b = b * c
  OBVIOUS
<1> QED
  BY <1>1, <1>2, <1>3

\* A click that comes no earlier than the cell's time.
LEMMA InTime ==
  ASSUME NEW cell \in Cells, NEW t \in Nat, t <= Horizon, cell.ts <= t
  PROVE  /\ Worth(Clicked(cell, t)) <= Worth(cell) + One * 2 ^ t
         /\ Worth(cell) <= Worth(Clicked(cell, t))
         /\ Exact(cell) => /\ Worth(Clicked(cell, t)) = Worth(cell) + One * 2 ^ t
                           /\ Exact(Clicked(cell, t))
<1>1. PICK s \in Nat, ts \in Nat : s = cell.score /\ ts = cell.ts
  BY DEF Cells
<1>2. One \in Nat /\ One >= 1 /\ Horizon \in Nat
  BY Numbers
<1>3. PICK d \in Nat : t = ts + d
  <2>1. t - ts \in Nat /\ t = ts + (t - ts)
    BY <1>1
  <2> QED
    BY <2>1
<1>4. PICK h \in Nat : Horizon = t + h
  <2>1. Horizon - t \in Nat /\ Horizon = t + (Horizon - t)
    BY <1>2
  <2> QED
    BY <2>1
<1>5. PICK p \in Nat \ {0}, q \in Nat \ {0}, u \in Nat \ {0} : p = 2 ^ d /\ q = 2 ^ ts /\ u = 2 ^ h
  BY PowerPositive
<1>6. 2 ^ t = q * p
  BY <1>3, <1>5, PowerSum
<1>7. PICK x \in Nat, r \in Nat : /\ x = Decayed(cell, t) /\ s = x * p + r /\ r < p
  <2>1. CASE d = 0
    <3>1. p = 1
      BY <1>5, <2>1
    <3>2. Decayed(cell, t) = s
      BY <1>1, <1>3, <2>1 DEF Decayed
    <3> QED
      BY <3>1, <3>2
  <2>2. CASE d # 0
    <3>1. t - ts = d /\ ~(ts >= t)
      BY <1>3, <2>2
    <3>2. Decayed(cell, t) = s \div p
      BY <1>1, <1>5, <3>1 DEF Decayed
    <3>3. PICK y \in Nat : y = s \div p
      BY <1>1, <1>5
    <3>4. y * p \in Nat /\ y * p <= s /\ s < y * p + p
      BY <1>1, <1>5, <3>3
    <3>5. s - y * p \in Nat /\ s = y * p + (s - y * p) /\ s - y * p < p
      BY <1>1, <1>5, <3>4
    <3> QED
      BY <3>2, <3>3, <3>5
  <2> QED
    BY <2>1, <2>2
<1>8. Clicked(cell, t) = [score |-> x + One, ts |-> t]
  BY <1>7 DEF Clicked
<1>9. PICK a \in Nat, b \in Nat, c \in Nat : a = x * p * q /\ b = r * q /\ c = One * (q * p)
  BY <1>2, <1>5, <1>7
<1>10. Worth(cell) = a + b
  <2>1. (x * p + r) * q = x * p * q + r * q
    BY <1>5, <1>7
  <2> QED
    BY <1>1, <1>5, <1>7, <1>9, <2>1 DEF Worth
<1>11. Worth(Clicked(cell, t)) = a + c
  <2>1. (x + One) * (q * p) = x * p * q + One * (q * p)
    BY <1>2, <1>5, <1>7
  <2> QED
    BY <1>6, <1>8, <1>9, <2>1 DEF Worth
<1>12. b <= c
  <2>1. r * q <= p * q
    BY <1>5, <1>7, ProductGrows
  <2>2. 1 * (q * p) <= One * (q * p)
    BY <1>2, <1>5, ProductGrows
  <2>3. p * q = q * p /\ 1 * (q * p) = q * p /\ p * q \in Nat
    BY <1>5
  <2> QED
    BY <1>9, <2>1, <2>2, <2>3
<1>13. One * 2 ^ t = c
  BY <1>6, <1>9
<1>14. ASSUME Exact(cell) PROVE b = 0 /\ Exact(Clicked(cell, t))
  <2>1. PICK m \in Nat : s = m * 2 ^ (Horizon - ts)
    BY <1>1, <1>14 DEF Exact
  <2>2. Horizon - ts = h + d /\ 2 ^ (h + d) = u * p
    BY <1>3, <1>4, <1>5, PowerSum
  <2>3. PICK k \in Nat : k = m * u
    BY <1>5, <2>1
  <2>4. s = k * p
    <3>1. m * (u * p) = (m * u) * p
      BY <1>5, <2>1
    <3> QED
      BY <2>1, <2>2, <2>3, <3>1
  <2>5. x = k /\ r = 0
    <3>1. x * p + r = k * p
      BY <1>7, <2>4
    <3>2. ~(x < k)
      <4> SUFFICES ASSUME x < k PROVE FALSE
        OBVIOUS
      <4>1. (x + 1) * p <= k * p
        BY <1>5, <1>7, <2>3, ProductGrows
      <4>2. (x + 1) * p = x * p + p /\ x * p \in Nat /\ k * p \in Nat
        BY <1>5, <1>7, <2>3
      <4> QED
        BY <1>5, <1>7, <3>1, <4>1, <4>2
    <3>3. ~(k < x)
      <4> SUFFICES ASSUME k < x PROVE FALSE
        OBVIOUS
      <4>1. (k + 1) * p <= x * p
        BY <1>5, <1>7, <2>3, ProductGrows
      <4>2. (k + 1) * p = k * p + p /\ x * p \in Nat /\ k * p \in Nat
        BY <1>5, <1>7, <2>3
      <4> QED
        BY <1>5, <1>7, <3>1, <4>1, <4>2
    <3>4. x = k
      BY <1>7, <2>3, <3>2, <3>3
    <3>5. x * p \in Nat
      BY <1>5, <1>7
    <3> QED
      BY <1>7, <3>1, <3>4, <3>5
  <2>6. b = 0
    BY <1>5, <1>9, <2>5
  <2>7. PICK o \in Nat : One = o * 2 ^ Horizon
    BY OneIsExact
  <2>8. 2 ^ Horizon = (q * p) * u
    <3>1. 2 ^ (t + h) = 2 ^ t * 2 ^ h
      BY PowerSum
    <3> QED
      BY <1>4, <1>5, <1>6, <3>1
  <2>9. PICK v \in Nat : v = m + o * (q * p)
    BY <1>5, <2>1, <2>7
  <2>10. x + One = v * u
    <3>1. (m + o * (q * p)) * u = m * u + o * ((q * p) * u)
      BY <1>5, <2>1, <2>7
    <3> QED
      BY <2>3, <2>5, <2>7, <2>8, <2>9, <3>1
  <2>11. Horizon - t = h
    BY <1>4
  <2>12. Clicked(cell, t).score = v * 2 ^ (Horizon - Clicked(cell, t).ts)
    <3>1. Clicked(cell, t).score = x + One /\ Clicked(cell, t).ts = t
      BY <1>8
    <3> QED
      BY <1>5, <2>10, <2>11, <3>1
  <2> QED
    BY <2>6, <2>9, <2>12 DEF Exact
<1> QED
  BY <1>9, <1>10, <1>11, <1>12, <1>13, <1>14

\* A click that comes late is not worth more than a fresh one.
LEMMA Late ==
  ASSUME NEW cell \in Cells, NEW t \in Nat, cell.ts > t
  PROVE  Worth(Clicked(cell, t)) <= Worth(cell) + One * 2 ^ t
<1>1. PICK s \in Nat, ts \in Nat : s = cell.score /\ ts = cell.ts
  BY DEF Cells
<1>2. PICK d \in Nat : ts = t + d
  <2>1. ts - t \in Nat /\ ts = t + (ts - t)
    BY <1>1
  <2> QED
    BY <2>1
<1>3. PICK p \in Nat \ {0}, q \in Nat \ {0} : p = 2 ^ d /\ q = 2 ^ t
  BY PowerPositive
<1>4. 2 ^ ts = q * p
  BY <1>2, <1>3, PowerSum
<1>5. Clicked(cell, t) = [score |-> s + One, ts |-> t]
  BY <1>1 DEF Clicked, Decayed
<1>6. One \in Nat
  BY Numbers
<1>7. (s + One) * q = s * q + One * q /\ s * q \in Nat /\ One * q \in Nat
  BY <1>1, <1>3, <1>6
<1>8. s * q <= s * (q * p)
  <2>1. q * 1 <= q * p /\ q * p \in Nat /\ q * 1 = q
    BY <1>3, ProductGrows
  <2> QED
    BY <1>1, <1>3, <2>1, ProductGrows
<1>9. s * (q * p) \in Nat
  BY <1>1, <1>3
<1>10. Worth(Clicked(cell, t)) = (s + One) * q /\ Worth(cell) = s * (q * p)
  BY <1>1, <1>3, <1>4, <1>5 DEF Worth
<1> QED
  BY <1>3, <1>7, <1>8, <1>9, <1>10

\* What is known of a cell that holds the clicks at places S of the log.
InOrder(S) == \A m, n \in S : m <= n => TsOf(m) <= TsOf(n)
CellHolds(cell, S) ==
    /\ cell \in Cells /\ cell.ts <= Horizon
    /\ cell.ts = 0 \/ \E n \in S : cell.ts = TsOf(n)
    /\ Worth(cell) <= Due(S)
    /\ InOrder(S) => Worth(cell) = Due(S) /\ Exact(cell)

ItemClicks(i) == {n \in DOMAIN log : Click[log[n].event].item = i}
UserClicks(u, c) == {n \in DOMAIN log : Click[log[n].event].user = u /\ log[n].category = c}

DecayInv ==
    /\ \A i \in Items : CellHolds(heat[i], ItemClicks(i))
    /\ \A u \in Users : \A c \in Categories : CellHolds(affinity[u][c], UserClicks(u, c))

LEMMA LogFinite ==
  ASSUME RestTypeOK, NEW S, S \subseteq DOMAIN log
  PROVE  IsFiniteSet(S) /\ \A n \in S : n \in Nat /\ TsOf(n) \in Nat /\ One * 2 ^ TsOf(n) \in Nat
<1>1. log \in Seq(LogEntries) /\ Len(log) \in Nat /\ DOMAIN log = 1 .. Len(log)
  BY DEF RestTypeOK
<1>2. IsFiniteSet(1 .. Len(log))
  BY <1>1, FS_Interval
<1>3. IsFiniteSet(S)
  BY <1>1, <1>2, FS_Subset
<1>4. ASSUME NEW n \in S PROVE n \in Nat /\ TsOf(n) \in Nat /\ One * 2 ^ TsOf(n) \in Nat
  <2>1. log[n] \in LogEntries /\ n \in Nat
    BY <1>1
  <2>2. TsOf(n) \in Nat
    BY <2>1, ClickTyped DEF LogEntries, TsOf
  <2>3. PICK p \in Nat : p = 2 ^ TsOf(n)
    BY <2>2, PowerPositive
  <2>4. One * p \in Nat
    BY <2>3, Numbers
  <2> QED
    BY <2>1, <2>2, <2>3, <2>4
<1> QED
  BY <1>3, <1>4

LEMMA DueSame ==
  ASSUME RestTypeOK, NEW S, S \subseteq DOMAIN log, DOMAIN log \subseteq DOMAIN log',
         \A n \in DOMAIN log : log'[n] = log[n]
  PROVE  /\ Due(S)' = Due(S) /\ \A n \in S : TsOf(n)' = TsOf(n)
         /\ InOrder(S)' <=> InOrder(S)
<1>1. \A n \in S : TsOf(n)' = TsOf(n)
  BY DEF TsOf
<1> DEFINE f == [n \in DOMAIN log |-> One * 2 ^ TsOf(n)]
           h == [n \in DOMAIN log' |-> One * 2 ^ TsOf(n)']
<1>2. \A n \in S : h[n] = f[n]
  BY <1>1
<1>3. Due(S)' = SumFunctionOnSet(h, S) /\ Due(S) = SumFunctionOnSet(f, S)
  BY DEF Due
<1>4. IsFiniteSet(S)
  BY LogFinite
<1> HIDE DEF f, h
<1>5. SumFunctionOnSet(h, S) = SumFunctionOnSet(f, S)
  BY <1>2, <1>4, SumOfSame
<1> QED
  BY <1>1, <1>3, <1>5 DEF InOrder

LEMMA CellKept ==
  ASSUME RestTypeOK, NEW cell, NEW S, S \subseteq DOMAIN log, DOMAIN log \subseteq DOMAIN log',
         \A n \in DOMAIN log : log'[n] = log[n], CellHolds(cell, S)
  PROVE  CellHolds(cell, S)'
BY DueSame DEF CellHolds

\* The cell after one more click.
LEMMA CellClicked ==
  ASSUME RestTypeOK, RestTypeOK', NEW e \in Events, NEW category \in Categories \cup {Unknown},
         Upsert(e, category), Click[e].ts <= now,
         NEW cell, NEW S, S \subseteq DOMAIN log, CellHolds(cell, S), NEW N, N = Len(log) + 1
  PROVE  CellHolds(Clicked(cell, Click[e].ts), S \cup {N})'
<1> DEFINE t == Click[e].ts
           f == [n \in DOMAIN log |-> One * 2 ^ TsOf(n)]
           h == [n \in DOMAIN log' |-> One * 2 ^ TsOf(n)']
<1>1. /\ N \in Nat /\ DOMAIN log = 1 .. Len(log) /\ Len(log) \in Nat
      /\ DOMAIN log' = DOMAIN log \cup {N} /\ N \notin DOMAIN log
      /\ \A n \in DOMAIN log : log'[n] = log[n]
      /\ log'[N] = [event |-> e, category |-> category]
  <2>1. Len(log) \in Nat /\ DOMAIN log = 1 .. Len(log)
    BY DEF RestTypeOK
  <2>2. N \in Nat /\ N \notin DOMAIN log
    BY <2>1
  <2> QED
    BY <2>1, <2>2, LogGrows
<1>2. t \in Nat /\ t <= Horizon /\ Horizon \in Nat
  BY ClickTyped, Numbers DEF RestTypeOK
<1>3. TsOf(N)' = t
  BY <1>1 DEF TsOf
<1>4. /\ Due(S)' = Due(S) /\ \A n \in S : TsOf(n)' = TsOf(n)
      /\ InOrder(S)' <=> InOrder(S)
  BY <1>1, DueSame
<1>5. S \cup {N} \subseteq DOMAIN log' /\ N \notin S
  BY <1>1
<1>6. PICK c \in Nat : c = One * 2 ^ t
  <2>1. PICK p \in Nat : p = 2 ^ t
    BY <1>2, PowerPositive
  <2> QED
    BY <2>1, Numbers
<1> HIDE DEF t
<1>7. Due(S \cup {N})' = Due(S) + c
  <2>1. \A n \in S \cup {N} : h[n] \in Nat
    <3> TAKE n \in S \cup {N}
    <3>1. CASE n = N
      BY <1>3, <1>5, <1>6, <3>1
    <3>2. CASE n \in S
      <4>1. TsOf(n)' = TsOf(n) /\ One * 2 ^ TsOf(n) \in Nat
        BY <1>4, <3>2, LogFinite
      <4> QED
        BY <1>5, <4>1
    <3> QED
      BY <3>1, <3>2
  <2>2. \A n \in S : f[n] = h[n]
    BY <1>1, <1>4
  <2>3. h[N] = c
    BY <1>3, <1>5, <1>6
  <2>4. Due(S \cup {N})' = SumFunctionOnSet(h, S \cup {N}) /\ Due(S) = SumFunctionOnSet(f, S)
    BY DEF Due
  <2>5. IsFiniteSet(S)
    BY LogFinite
  <2> HIDE DEF f, h
  <2>6. SumFunctionOnSet(h, S \cup {N}) = SumFunctionOnSet(f, S) + h[N]
    BY <1>5, <2>1, <2>2, <2>5, SumOfOneMore
  <2> QED
    BY <2>3, <2>4, <2>6
<1>8. Due(S) \in Nat
  <2>1. \A n \in S : f[n] \in Nat
    BY LogFinite
  <2>2. Due(S) = SumFunctionOnSet(f, S) /\ IsFiniteSet(S)
    BY LogFinite DEF Due
  <2> HIDE DEF f
  <2> QED
    BY <2>1, <2>2, SumOfNumbers
<1>9. PICK new \in Cells : new = Clicked(cell, t)
  BY <1>2, DecayedTyped DEF CellHolds
<1>10. new.ts = t
  BY <1>9 DEF Clicked
<1>11. Worth(cell) \in Nat /\ Worth(new) \in Nat
  BY <1>2, <1>9, DecayedTyped DEF CellHolds
<1>12. Worth(new) <= Worth(cell) + c
  <2>1. cell \in Cells /\ cell.ts \in Nat
    BY DEF CellHolds, Cells
  <2>2. CASE cell.ts <= t
    BY <1>2, <1>6, <1>9, <2>1, <2>2, InTime
  <2>3. CASE cell.ts > t
    BY <1>2, <1>6, <1>9, <2>1, <2>3, Late
  <2> QED
    BY <1>2, <2>1, <2>2, <2>3
<1>13. Worth(new) <= Due(S \cup {N})'
  BY <1>6, <1>7, <1>8, <1>11, <1>12 DEF CellHolds
<1>14. ASSUME InOrder(S \cup {N})' PROVE Worth(new) = Due(S \cup {N})' /\ Exact(new)
  <2>1. \A n \in S : n \in Nat /\ n <= N
    BY <1>1, LogFinite
  <2>2. \A n \in S : TsOf(n) <= t
    BY <1>3, <1>4, <1>14, <2>1 DEF InOrder
  <2>3. InOrder(S)
    BY <1>4, <1>14 DEF InOrder
  <2>4. cell.ts <= t /\ cell \in Cells
    BY <1>2, <2>2 DEF CellHolds
  <2>5. Worth(cell) = Due(S) /\ Exact(cell)
    BY <2>3 DEF CellHolds
  <2> QED
    BY <1>2, <1>6, <1>7, <1>9, <2>4, <2>5, InTime
<1>15. new.ts <= Horizon /\ \E n \in S \cup {N} : new.ts = TsOf(n)'
  BY <1>2, <1>3, <1>10
<1>16. CellHolds(new, S \cup {N})'
  BY <1>13, <1>14, <1>15 DEF CellHolds
<1> QED
  BY <1>9, <1>16 DEF t

LEMMA UpsertDecays ==
  ASSUME RestTypeOK, RestTypeOK', DecayInv, NEW e \in Events, NEW category \in Categories \cup {Unknown},
         Upsert(e, category), Click[e].ts <= now
  PROVE  DecayInv'
<1>0. PICK N : N = Len(log) + 1
  OBVIOUS
<1>1. /\ DOMAIN log' = DOMAIN log \cup {N} /\ N \notin DOMAIN log
      /\ \A n \in DOMAIN log : log'[n] = log[n]
      /\ log'[N] = [event |-> e, category |-> category]
  BY <1>0, LogGrows
<1>2. Click[e].item \in Items /\ Click[e].user \in Users
  BY ClickTyped
<1>3. ASSUME NEW i \in Items PROVE CellHolds(heat[i], ItemClicks(i))'
  <2>1. PICK S \in SUBSET DOMAIN log : S = ItemClicks(i)
    BY DEF ItemClicks
  <2>2. CellHolds(heat[i], S)
    BY <2>1 DEF DecayInv
  <2>3. PICK cell : cell = heat[i] /\ CellHolds(cell, S)
    BY <2>2
  <2>4. CASE i = Click[e].item
    <3>1. ItemClicks(i)' = S \cup {N}
      BY <1>1, <2>1, <2>4 DEF ItemClicks
    <3>2. heat'[i] = Clicked(cell, Click[e].ts)
      BY <1>2, <2>3, <2>4 DEF Upsert, RestTypeOK
    <3>3. CellHolds(Clicked(cell, Click[e].ts), S \cup {N})'
      BY <1>0, <2>3, CellClicked
    <3> QED
      BY <3>1, <3>2, <3>3 DEF CellHolds, Due, InOrder, TsOf
  <2>5. CASE i # Click[e].item
    <3>1. ItemClicks(i)' = S
      BY <1>1, <2>1, <2>5 DEF ItemClicks
    <3>2. heat'[i] = cell
      BY <1>2, <2>3, <2>5 DEF Upsert, RestTypeOK
    <3>3. CellHolds(cell, S)'
      BY <1>1, <2>3, CellKept
    <3> QED
      BY <3>1, <3>2, <3>3 DEF CellHolds, Due, InOrder, TsOf
  <2> QED
    BY <2>4, <2>5
<1>4. ASSUME NEW u \in Users, NEW c \in Categories PROVE CellHolds(affinity[u][c], UserClicks(u, c))'
  <2>1. PICK S \in SUBSET DOMAIN log : S = UserClicks(u, c)
    BY DEF UserClicks
  <2>2. PICK cell : cell = affinity[u][c] /\ CellHolds(cell, S)
    BY <2>1 DEF DecayInv
  <2>3. c # Unknown /\ affinity[u] \in [Categories -> Cells]
    BY DEF Categories, RestTypeOK
  <2>4. CASE u = Click[e].user /\ c = category
    <3>1. UserClicks(u, c)' = S \cup {N}
      BY <1>1, <2>1, <2>4 DEF UserClicks
    <3>2. affinity' = [affinity EXCEPT ![u][c] = Clicked(affinity[u][c], Click[e].ts)]
      BY <2>3, <2>4 DEF Upsert
    <3>3. affinity'[u][c] = Clicked(cell, Click[e].ts)
      BY <2>2, <2>3, <3>2 DEF RestTypeOK
    <3>4. CellHolds(Clicked(cell, Click[e].ts), S \cup {N})'
      BY <1>0, <2>2, CellClicked
    <3> QED
      BY <3>1, <3>3, <3>4 DEF CellHolds, Due, InOrder, TsOf
  <2>5. CASE ~(u = Click[e].user /\ c = category)
    <3>1. UserClicks(u, c)' = S
      BY <1>1, <2>1, <2>5 DEF UserClicks
    <3>2. affinity'[u][c] = cell
      <4>1. CASE category = Unknown
        BY <2>2, <4>1 DEF Upsert
      <4>2. CASE category # Unknown
        <5>1. affinity' = [affinity EXCEPT ![Click[e].user][category] =
                              Clicked(affinity[Click[e].user][category], Click[e].ts)]
          BY <4>2 DEF Upsert
        <5>2. category \in Categories /\ affinity[Click[e].user] \in [Categories -> Cells]
          BY <1>2, <4>2 DEF RestTypeOK
        <5> QED
          BY <1>2, <2>2, <2>3, <2>5, <5>1, <5>2 DEF RestTypeOK
      <4> QED
        BY <4>1, <4>2
    <3>3. CellHolds(cell, S)'
      BY <1>1, <2>2, CellKept
    <3> QED
      BY <3>1, <3>2, <3>3 DEF CellHolds, Due, InOrder, TsOf
  <2> QED
    BY <2>4, <2>5
<1> QED
  BY <1>3, <1>4 DEF DecayInv

LEMMA DecayInit == Init => DecayInv
<1> SUFFICES ASSUME Init PROVE DecayInv
  OBVIOUS
<1>1. DOMAIN log = {}
  BY DEF Init
<1>2. Due({}) = 0
  BY SumOfNone DEF Due
<1>3. NoCell \in Cells /\ NoCell.ts = 0 /\ NoCell.score = 0
  BY DEF NoCell, Cells
<1>4. Worth(NoCell) = 0 /\ Exact(NoCell)
  <2>1. PICK p \in Nat : p = 2 ^ (Horizon - 0)
    BY Numbers, PowerPositive
  <2>2. 0 * p = 0 /\ 0 * 2 ^ 0 = 0
    OBVIOUS
  <2> QED
    BY <1>3, <2>1, <2>2 DEF Worth, Exact
<1>5. CellHolds(NoCell, {})
  BY <1>2, <1>3, <1>4, Numbers DEF CellHolds
<1>6. \A i \in Items : heat[i] = NoCell /\ ItemClicks(i) = {}
  BY <1>1 DEF Init, ItemClicks
<1>7. \A u \in Users : \A c \in Categories : affinity[u][c] = NoCell /\ UserClicks(u, c) = {}
  BY <1>1 DEF Init, UserClicks
<1> QED
  BY <1>5, <1>6, <1>7 DEF DecayInv

LEMMA DecaySame == ASSUME DecayInv, UNCHANGED <<heat, affinity, log>> PROVE DecayInv'
<1>1. (\A n : TsOf(n)' = TsOf(n)) /\ \A S : (InOrder(S)' <=> InOrder(S)) /\ Due(S)' = Due(S)
  BY DEF TsOf, InOrder, Due
<1>2. \A cell, S : CellHolds(cell, S)' <=> CellHolds(cell, S)
  BY <1>1 DEF CellHolds
<1>3. \A i : ItemClicks(i)' = ItemClicks(i)
  BY DEF ItemClicks
<1>4. \A u, c : UserClicks(u, c)' = UserClicks(u, c)
  BY DEF UserClicks
<1> QED
  BY <1>2, <1>3, <1>4 DEF DecayInv

LEMMA DecayStep == CacheInv /\ RestTypeOK /\ RestTypeOK' /\ DecayInv /\ [Next]_vars => DecayInv'
<1> SUFFICES ASSUME CacheInv, RestTypeOK, RestTypeOK', DecayInv, [Next]_vars PROVE DecayInv'
  OBVIOUS
<1>1. ASSUME NEW e \in Events, Deliver(e) PROVE DecayInv'
  <2>1. CASE UNCHANGED featureVars
    BY <2>1, DecaySame DEF featureVars
  <2>2. CASE \E category \in Categories \cup {Unknown} : Upsert(e, category)
    BY <1>1, <2>2, DeliverIs, UpsertDecays
  <2> QED
    BY <1>1, <2>1, <2>2, DeliverIs
<1>2. CASE Restart \/ LoadMetadata \/ LoadPopularity \/ Tick \/ UNCHANGED vars
  <2>1. UNCHANGED <<heat, affinity, log>>
    BY <1>2 DEF Restart, LoadMetadata, LoadPopularity, Tick, vars, featureVars
  <2> QED
    BY <2>1, DecaySame
<1> QED
  BY <1>1, <1>2 DEF Next

\* A decayed score is never more than its clicks are worth together, in
\* whatever order retries and redeliveries bring them, and exactly that when
\* they come in the order of their times (decayed_score, decayed_hash_score).
THEOREM DecaysAreHonest == Spec => []DecayHonest
<1>1. DecayInv => DecayHonest
  BY DEF DecayInv, DecayHonest, CellHolds, Honest, InOrder, ItemClicks, UserClicks
<1> QED
  BY <1>1, CacheInvariance, RestInit, RestStep, DecayInit, DecayStep, PTL DEF Spec

-----------------------------------------------------------------------------
(* The cap of global:popular.                                              *)

Sets == [Items -> Nat \cup {Missing}]
Listed(set) == {i \in Items : set[i] # Missing}
Dropped(set) == {i \in Listed(set) : Cardinality(Listed(set)) - Cardinality(Below(set, i)) > PopularMax}

LEMMA CapIs ==
  ASSUME NEW set \in Sets
  PROVE  /\ \A i \in Items : Capped(set)[i] = IF i \in Dropped(set) THEN Missing ELSE set[i]
         /\ Listed(Capped(set)) = Listed(set) \ Dropped(set)
<1>1. \A i \in Items : Capped(set)[i] = IF Cardinality(Listed(set)) - Cardinality(Below(set, i)) > PopularMax
                                        THEN Missing ELSE set[i]
  BY DEF Capped, Listed
<1>2. \A i \in Items : Capped(set)[i] = IF i \in Dropped(set) THEN Missing ELSE set[i]
  BY <1>1 DEF Dropped, Listed
<1> QED
  BY <1>2 DEF Dropped, Listed

\* The numbers the ranks are counted with.
LEMMA RanksAre ==
  ASSUME NEW set \in Sets
  PROVE  /\ IsFiniteSet(Listed(set)) /\ Cardinality(Listed(set)) \in Nat
         /\ \A i \in Items : /\ Below(set, i) \subseteq Listed(set)
                             /\ IsFiniteSet(Below(set, i)) /\ Cardinality(Below(set, i)) \in Nat
<1>1. IsFiniteSet(Items)
  BY UpsertAssumption
<1>2. IsFiniteSet(Listed(set)) /\ Cardinality(Listed(set)) \in Nat
  BY <1>1, FS_Subset, FS_CardinalityType DEF Listed
<1>3. ASSUME NEW i \in Items
      PROVE  /\ Below(set, i) \subseteq Listed(set)
             /\ IsFiniteSet(Below(set, i)) /\ Cardinality(Below(set, i)) \in Nat
  <2>1. Below(set, i) \subseteq Listed(set)
    BY DEF Below, Listed
  <2> QED
    BY <1>2, <2>1, FS_Subset, FS_CardinalityType
<1> QED
  BY <1>2, <1>3

\* Of two members one is below the other, and has the lower rank.
LEMMA RanksOrder ==
  ASSUME NEW set \in Sets, NEW i \in Listed(set), NEW j \in Items, i \in Below(set, j), j \in Listed(set)
  PROVE  Cardinality(Below(set, i)) < Cardinality(Below(set, j))
<1>1. Items \subseteq Nat /\ i \in Items
  BY UpsertAssumption DEF Listed
<1>2. set[i] \in Nat /\ set[j] \in Nat
  BY <1>1 DEF Sets, Listed
<1>3. Below(set, i) \subseteq Below(set, j)
  <2> SUFFICES ASSUME NEW k \in Below(set, i) PROVE k \in Below(set, j)
    OBVIOUS
  <2>1. k \in Items /\ k \in Nat /\ set[k] \in Nat
    BY <1>1 DEF Below, Sets
  <2> QED
    BY <1>1, <1>2, <2>1 DEF Below
<1>4. i \notin Below(set, i)
  BY <1>1, <1>2 DEF Below
<1>5. IsFiniteSet(Below(set, j)) /\ Cardinality(Below(set, j)) \in Nat /\ Cardinality(Below(set, i)) \in Nat
  BY <1>1, RanksAre
<1>6. Below(set, i) # Below(set, j)
  BY <1>4
<1> QED
  BY <1>3, <1>5, <1>6, FS_Subset

LEMMA RanksDiffer ==
  ASSUME NEW set \in Sets, NEW i \in Listed(set), NEW j \in Listed(set), i # j
  PROVE  Cardinality(Below(set, i)) # Cardinality(Below(set, j))
<1>1. Items \subseteq Nat /\ i \in Items /\ j \in Items
  BY UpsertAssumption DEF Listed
<1>2. set[i] \in Nat /\ set[j] \in Nat /\ i \in Nat /\ j \in Nat
  BY <1>1 DEF Sets, Listed
<1>3. i \in Below(set, j) \/ j \in Below(set, i)
  BY <1>1, <1>2 DEF Below, Listed
<1>4. Cardinality(Below(set, i)) \in Nat /\ Cardinality(Below(set, j)) \in Nat
  BY <1>1, RanksAre
<1> QED
  BY <1>1, <1>3, <1>4, RanksOrder

\* What the cap keeps is worth no less than what it drops.
LEMMA CapKeepsTheBest ==
  ASSUME NEW set \in Sets, NEW i \in Listed(set) \ Dropped(set), NEW j \in Dropped(set)
  PROVE  set[j] <= set[i]
<1>1. j \in Listed(set) /\ i \in Items /\ j \in Items
  BY DEF Dropped, Listed
<1>2. set[i] \in Nat /\ set[j] \in Nat
  BY <1>1 DEF Sets, Listed
<1> SUFFICES ASSUME set[i] < set[j] PROVE FALSE
  BY <1>2
<1>3. i \in Below(set, j)
  BY <1>1 DEF Below, Listed
<1>4. Cardinality(Below(set, i)) < Cardinality(Below(set, j))
  BY <1>1, <1>3, RanksOrder
<1>5. /\ Cardinality(Below(set, i)) \in Nat /\ Cardinality(Below(set, j)) \in Nat
      /\ Cardinality(Listed(set)) \in Nat /\ PopularMax \in Nat
  BY <1>1, RanksAre, Numbers
<1> QED
  BY <1>4, <1>5 DEF Dropped

\* The cap never cuts below its limit.
LEMMA CapFills ==
  ASSUME NEW set \in Sets, Dropped(set) # {}
  PROVE  Cardinality(Listed(Capped(set))) >= PopularMax
<1> DEFINE L == Listed(set)
           D == Dropped(set)
           rank == [i \in D |-> Cardinality(Below(set, i))]
<1>1. IsFiniteSet(L) /\ Cardinality(L) \in Nat /\ PopularMax \in Nat /\ D \subseteq L /\ L \subseteq Items
  BY RanksAre, Numbers DEF Dropped, Listed
<1>2. PICK size \in Nat : size = Cardinality(L)
  BY <1>1
<1>3. \A i \in D : Cardinality(Below(set, i)) \in Nat /\ size - Cardinality(Below(set, i)) > PopularMax
  BY <1>1, <1>2, RanksAre DEF Dropped
<1>4. PICK n \in Nat : n = size - PopularMax
  BY <1>1, <1>3
<1>5. rank \in [D -> 0 .. n - 1]
  BY <1>1, <1>3, <1>4
<1>6. \A i, j \in D : rank[i] = rank[j] => i = j
  BY <1>1, RanksDiffer
<1>7. rank \in Injection(D, 0 .. n - 1)
  BY <1>5, <1>6 DEF Injection, IsInjective
<1>8. IsFiniteSet(0 .. n - 1) /\ Cardinality(0 .. n - 1) = n
  <2>1. 0 \in Int /\ n - 1 \in Int /\ (IF 0 > n - 1 THEN 0 ELSE n - 1 - 0 + 1) = n
    OBVIOUS
  <2> QED
    BY <2>1, FS_Interval
<1>9. IsFiniteSet(D) /\ Cardinality(D) <= n
  BY <1>7, <1>8, FS_Injection
<1>10. Cardinality(D) \in Nat
  BY <1>9, FS_CardinalityType
<1> HIDE DEF L, D, rank
<1>11. Cardinality(L \ D) = Cardinality(L) - Cardinality(L \cap D) /\ L \cap D = D
  BY <1>1, <1>9, FS_Difference
<1>12. Listed(Capped(set)) = L \ D
  BY CapIs DEF L, D
<1> QED
  BY <1>1, <1>2, <1>4, <1>9, <1>10, <1>11, <1>12

\* A set that is too long loses a member.
LEMMA CapDrops ==
  ASSUME NEW set \in Sets, Cardinality(Listed(set)) > PopularMax
  PROVE  Dropped(set) # {}
<1>1. /\ Cardinality(Listed(set)) \in Nat /\ PopularMax \in Nat /\ Listed(set) \subseteq Items
      /\ \A i \in Items : Cardinality(Below(set, i)) \in Nat /\ Below(set, i) \subseteq Listed(set)
  BY RanksAre, Numbers DEF Listed
<1> DEFINE R == {Cardinality(Below(set, i)) : i \in Listed(set)}
<1>2. R \subseteq Nat
  BY <1>1
<1>3. Listed(set) # {}
  BY <1>1, FS_EmptySet
<1>4. PICK n \in R : \A m \in R : n <= m
  BY <1>2, <1>3, LeastNumber
<1>5. PICK i \in Listed(set) : n = Cardinality(Below(set, i))
  BY <1>4
<1>6. Below(set, i) = {}
  <2> SUFFICES ASSUME NEW j \in Below(set, i) PROVE FALSE
    OBVIOUS
  <2>1. j \in Listed(set)
    BY <1>1
  <2>2. Cardinality(Below(set, j)) < Cardinality(Below(set, i))
    BY <1>1, <2>1, RanksOrder
  <2>3. PICK r \in R : r = Cardinality(Below(set, j))
    BY <2>1
  <2>4. n \in Nat /\ r \in Nat /\ n <= r
    BY <1>2, <1>4
  <2> QED
    BY <1>5, <2>2, <2>3, <2>4
<1>7. Cardinality(Below(set, i)) = 0
  BY <1>6, FS_EmptySet
<1>8. i \in Dropped(set)
  BY <1>1, <1>7 DEF Dropped
<1> QED
  BY <1>8

\* Until the pipeline seeds it.  A click is missing only from a full set.
CapInv ==
    ~seeded =>
        /\ \A i \in Items : popular[i] \in {Missing, Worth(heat[i])}
        /\ (\E j \in Items : popular[j] = Missing /\ heat[j] # NoCell) =>
              Cardinality(Listed(popular)) >= PopularMax
        /\ InOrder(DOMAIN log) =>
              \A i, j \in Items :
                  popular[i] # Missing /\ popular[j] = Missing => Worth(heat[j]) <= popular[i]

\* The surrogate of an item does not fall when its clicks come in order.
LEMMA WorthRises ==
  ASSUME RestTypeOK, DecayInv, NEW e \in Events, NEW category \in Categories \cup {Unknown},
         Upsert(e, category), Click[e].ts <= now, InOrder(DOMAIN log)'
  PROVE  Worth(heat[Click[e].item]) <= Worth(Clicked(heat[Click[e].item], Click[e].ts))
<1> DEFINE k == Click[e].item
           t == Click[e].ts
<1>1. k \in Items /\ t \in Nat /\ t <= Horizon
  BY ClickTyped, Numbers DEF RestTypeOK
<1>2. PICK N : N = Len(log) + 1
  OBVIOUS
<1>3. /\ N \in Nat /\ DOMAIN log = 1 .. N - 1 /\ DOMAIN log' = DOMAIN log \cup {N}
      /\ \A n \in DOMAIN log : log'[n] = log[n]
      /\ log'[N] = [event |-> e, category |-> category]
  <2>1. Len(log) \in Nat /\ DOMAIN log = 1 .. Len(log)
    BY DEF RestTypeOK
  <2>2. N \in Nat /\ DOMAIN log = 1 .. N - 1
    BY <1>2, <2>1
  <2> QED
    BY <1>2, <2>2, LogGrows
<1>4. \A n \in DOMAIN log : TsOf(n) <= t
  <2>1. TsOf(N)' = t
    BY <1>3 DEF TsOf
  <2>2. \A n \in DOMAIN log : TsOf(n)' = TsOf(n)
    BY <1>3 DEF TsOf
  <2>3. \A n \in DOMAIN log : n \in DOMAIN log' /\ N \in DOMAIN log' /\ n <= N
    BY <1>3
  <2> QED
    BY <2>1, <2>2, <2>3 DEF InOrder
<1>5. /\ heat[k] \in Cells
      /\ heat[k].ts = 0 \/ \E n \in ItemClicks(k) : heat[k].ts = TsOf(n)
  BY <1>1 DEF DecayInv, CellHolds
<1>6. heat[k].ts <= t
  BY <1>1, <1>4, <1>5 DEF ItemClicks
<1> QED
  BY <1>1, <1>5, <1>6, InTime

LEMMA UpsertCaps ==
  ASSUME RestTypeOK, DecayInv, CapInv, NEW e \in Events, NEW category \in Categories \cup {Unknown},
         Upsert(e, category), Click[e].ts <= now, UNCHANGED seeded
  PROVE  CapInv'
<1> SUFFICES ASSUME ~seeded PROVE CapInv'
  BY DEF CapInv
<1>1. PICK k \in Items, t \in Nat : k = Click[e].item /\ t = Click[e].ts
  BY ClickTyped
<1>2. PICK w \in Nat : w = Worth(Clicked(heat[k], t))
  BY <1>1, DecayedTyped DEF RestTypeOK
<1>3. popular \in Sets /\ heat \in [Items -> Cells] /\ \A i \in Items : Worth(heat[i]) \in Nat
  BY DecayedTyped DEF RestTypeOK, Sets
<1>4. PICK set \in Sets : set = [popular EXCEPT ![k] = w]
  BY <1>3 DEF Sets
<1>5. /\ popular' = Capped(set)
      /\ heat' = [heat EXCEPT ![k] = Clicked(heat[k], t)]
  BY <1>1, <1>2, <1>4 DEF Upsert
<1>6. /\ set[k] = w /\ heat'[k] = Clicked(heat[k], t)
      /\ \A i \in Items \ {k} : set[i] = popular[i] /\ heat'[i] = heat[i]
  BY <1>3, <1>4, <1>5 DEF Sets
<1>7. /\ \A i \in Items : popular'[i] = IF i \in Dropped(set) THEN Missing ELSE set[i]
      /\ Listed(popular)' = Listed(set) \ Dropped(set)
  BY <1>5, CapIs DEF Listed
<1>8. Worth(heat[k])' = w /\ \A i \in Items \ {k} : Worth(heat[i])' = Worth(heat[i])
  BY <1>2, <1>6 DEF Worth
<1>9. \A i \in Items : set[i] \in {Missing, Worth(heat[i])'}
  BY <1>6, <1>8 DEF CapInv
<1>10. \A i \in Items : popular'[i] \in {Missing, Worth(heat[i])'}
  BY <1>7, <1>9
<1>11. Listed(set) = Listed(popular) \cup {k} /\ w # Missing
  BY <1>2, <1>6 DEF Listed, Missing
<1>12. /\ IsFiniteSet(Listed(popular)) /\ Cardinality(Listed(popular)) \in Nat
       /\ IsFiniteSet(Listed(set)) /\ Cardinality(Listed(set)) \in Nat /\ PopularMax \in Nat
  BY <1>3, RanksAre, Numbers
<1>13. ASSUME NEW j \in Items, popular'[j] = Missing, heat'[j] # NoCell
       PROVE  Cardinality(Listed(popular)') >= PopularMax
  <2>1. CASE Dropped(set) # {}
    <3>1. Listed(popular)' = Listed(Capped(set))
      BY <1>5 DEF Listed
    <3> QED
      BY <2>1, <3>1, CapFills
  <2>2. CASE Dropped(set) = {}
    <3>1. set[j] = Missing
      BY <1>7, <1>13, <2>2
    <3>2. j # k
      BY <1>6, <1>11, <3>1
    <3>3. popular[j] = Missing /\ heat[j] # NoCell
      BY <1>6, <1>13, <3>1, <3>2
    <3>4. Cardinality(Listed(popular)) >= PopularMax
      BY <3>3 DEF CapInv
    <3>5. Cardinality(Listed(popular)) <= Cardinality(Listed(set))
      BY <1>11, <1>12, FS_Subset
    <3>6. Listed(popular)' = Listed(set)
      BY <1>7, <2>2
    <3> QED
      BY <1>12, <3>4, <3>5, <3>6
  <2> QED
    BY <2>1, <2>2
<1>14. ASSUME InOrder(DOMAIN log)', NEW i \in Items, NEW j \in Items,
              popular'[i] # Missing, popular'[j] = Missing
       PROVE  Worth(heat[j])' <= popular'[i]
  <2>1. InOrder(DOMAIN log)
    <3>1. /\ DOMAIN log \subseteq DOMAIN log' /\ \A n \in DOMAIN log : log'[n] = log[n]
      BY LogGrows
    <3> QED
      BY <1>14, <3>1 DEF InOrder, TsOf
  <2>2. /\ i \in Listed(set) \ Dropped(set) /\ popular'[i] = set[i]
    BY <1>7, <1>14 DEF Listed
  <2>3. CASE j \in Dropped(set)
    <3>1. set[j] <= set[i]
      BY <2>2, <2>3, CapKeepsTheBest
    <3>2. set[j] = Worth(heat[j])'
      BY <1>9, <2>3 DEF Dropped, Listed
    <3> QED
      BY <2>2, <3>1, <3>2
  <2>4. CASE j \notin Dropped(set)
    <3>1. set[j] = Missing /\ j # k
      BY <1>6, <1>7, <1>11, <1>14, <2>4
    <3>2. popular[j] = Missing /\ Worth(heat[j])' = Worth(heat[j])
      BY <1>6, <1>8, <3>1
    <3>3. CASE i # k
      <4>1. popular[i] # Missing /\ popular'[i] = popular[i]
        BY <1>6, <2>2, <3>3 DEF Listed
      <4> QED
        BY <2>1, <3>2, <4>1 DEF CapInv
    <3>4. CASE i = k /\ popular[k] # Missing
      <4>1. Worth(heat[j]) <= popular[k] /\ popular[k] = Worth(heat[k])
        BY <2>1, <3>2, <3>4 DEF CapInv
      <4>2. Worth(heat[k]) <= w
        BY <1>1, <1>2, <1>14, WorthRises
      <4> QED
        BY <1>2, <1>3, <1>6, <2>2, <3>2, <3>4, <4>1, <4>2
    <3>5. CASE i = k /\ popular[k] = Missing
      <4>1. CASE heat[j] = NoCell
        <5>1. Worth(NoCell) = 0
          <6>1. 2 ^ 0 \in Nat
            BY PowerPositive
          <6> QED
            BY <6>1 DEF Worth, NoCell
        <5> QED
          BY <1>2, <1>6, <2>2, <3>2, <3>5, <4>1, <5>1
      <4>2. CASE heat[j] # NoCell
        <5>1. Cardinality(Listed(popular)) >= PopularMax
          BY <3>2, <4>2 DEF CapInv
        <5>2. k \notin Listed(popular)
          BY <3>5 DEF Listed
        <5>3. Cardinality(Listed(set)) = Cardinality(Listed(popular)) + 1
          BY <1>11, <1>12, <5>2, FS_AddElement
        <5>4. PICK m \in Dropped(set) : TRUE
          BY <1>12, <5>1, <5>3, CapDrops
        <5>5. m # k /\ m \in Items /\ set[m] # Missing
          BY <2>2, <3>5, <5>4 DEF Dropped, Listed
        <5>6. popular[m] = set[m]
          BY <1>6, <5>5
        <5>7. Worth(heat[j]) <= popular[m]
          BY <2>1, <3>2, <5>5, <5>6 DEF CapInv
        <5>8. set[m] <= set[i]
          BY <2>2, <5>4, CapKeepsTheBest
        <5>9. set[m] \in Nat /\ set[i] \in Nat
          BY <1>6, <2>2, <3>5, <5>5 DEF Sets
        <5> QED
          BY <1>3, <2>2, <3>2, <5>6, <5>7, <5>8, <5>9
      <4> QED
        BY <4>1, <4>2
    <3> QED
      BY <3>3, <3>4, <3>5
  <2> QED
    BY <2>3, <2>4
<1> QED
  BY <1>10, <1>13, <1>14 DEF CapInv

LEMMA CapInit == Init => CapInv
<1> SUFFICES ASSUME Init PROVE CapInv
  OBVIOUS
<1>1. \A i \in Items : popular[i] = Missing /\ heat[i] = NoCell
  BY DEF Init
<1> QED
  BY <1>1 DEF CapInv

LEMMA CapSame == ASSUME CapInv, UNCHANGED <<popular, heat, log, seeded>> PROVE CapInv'
BY DEF CapInv, Listed, InOrder, TsOf, Worth

LEMMA CapStep == CacheInv /\ RestTypeOK /\ DecayInv /\ CapInv /\ [Next]_vars => CapInv'
<1> SUFFICES ASSUME CacheInv, RestTypeOK, DecayInv, CapInv, [Next]_vars PROVE CapInv'
  OBVIOUS
<1>1. ASSUME NEW e \in Events, Deliver(e) PROVE CapInv'
  <2>1. CASE UNCHANGED featureVars
    BY <1>1, <2>1, DeliverIs, CapSame DEF featureVars
  <2>2. CASE \E category \in Categories \cup {Unknown} : Upsert(e, category)
    BY <1>1, <2>2, DeliverIs, UpsertCaps
  <2> QED
    BY <1>1, <2>1, <2>2, DeliverIs
<1>2. CASE LoadPopularity
  BY <1>2 DEF LoadPopularity, CapInv
<1>3. CASE Restart \/ LoadMetadata \/ Tick \/ UNCHANGED vars
  <2>1. UNCHANGED <<popular, heat, log, seeded>>
    BY <1>3 DEF Restart, LoadMetadata, Tick, vars, featureVars
  <2> QED
    BY <2>1, CapSame
<1> QED
  BY <1>1, <1>2, <1>3 DEF Next

\* Until the data pipeline seeds it, global:popular holds the surrogates of the
\* items it lists, and of clicks that come in the order of their times its cap
\* drops none that is worth more than one it keeps (ZREMRANGEBYRANK).  Nothing
\* is said of a bootstrapped deployment, whose counts have another scale.
THEOREM CapKeepsTheHottest == Spec => []CapKeepsHottest
<1>1. CapInv => CapKeepsHottest
  BY DEF CapInv, CapKeepsHottest, InOrder
<1> QED
  BY <1>1, CacheInvariance, RestInit, RestStep, DecayInit, DecayStep, CapInit, CapStep, PTL DEF Spec
=============================================================================
