--------------------------- MODULE InferenceProofs ---------------------------
(***************************************************************************)
(* Proofs about Inference, for every table of keywords and templates and   *)
(* every hash: what the loop over templates finds is the first best one,   *)
(* when fit is counted word by word and not bucket by bucket.              *)
(***************************************************************************)
EXTENDS Inference, FiniteSetTheorems, TLAPS

-----------------------------------------------------------------------------
(* Sums over finite sets. *)

\* The recursive function SumFunction works with: it takes away one element at
\* a time, whichever CHOOSE gives.
One(s) == CHOOSE x \in s : TRUE
IsSum(sum, f, S) ==
  sum = [s \in SUBSET S |-> IF s = {} THEN 0 ELSE f[One(s)] + sum[s \ {One(s)}]]

\* Induction on the naturals, on sets: what holds at 0 and goes on holds
\* everywhere.
LEMMA NatSetInduction ==
  ASSUME NEW S \in SUBSET Nat, 0 \in S, \A n \in S : n + 1 \in S
  PROVE  S = Nat
<1> DEFINE T == Nat \ S
           R == OpToRel(<, Nat)
<1> SUFFICES ASSUME T # {} PROVE FALSE
  OBVIOUS
<1>1. IsWellFoundedOn(R, Nat)
  BY NatLessThanWellFounded
<1>2. \E x \in T : \A y \in T : ~ (<<y, x>> \in R)
  <2> HIDE DEF T, R
  <2>1. T \subseteq Nat
    BY DEF T
  <2> QED
    BY <2>1, <1>1, WFMin
<1>3. PICK x \in T : \A y \in T : ~ (<<y, x>> \in R)
  BY <1>2
<1>4. x \in Nat /\ x # 0 /\ x - 1 \in Nat
  OBVIOUS
<1>5. x - 1 \in S
  <2>1. SUFFICES ASSUME x - 1 \in T PROVE FALSE
    BY <1>4
  <2>2. <<x - 1, x>> \in R
    BY <1>4 DEF OpToRel
  <2> QED
    BY <2>1, <2>2, <1>3
<1>6. (x - 1) + 1 \in S
  BY <1>5
<1> QED
  BY <1>6, <1>4

\* A set of places that is not empty has a last one.
LEMMA LastOne ==
  ASSUME NEW n \in Nat, NEW S \in SUBSET (1 .. n), S # {}
  PROVE  \E m \in S : \A k \in S : m >= k
<1> DEFINE T == {l \in Nat : (\E m \in S : m >= n - l) => \E m \in S : \A k \in S : m >= k}
<1>1. 0 \in T
  OBVIOUS
<1>2. ASSUME NEW l \in T PROVE l + 1 \in T
  <2> SUFFICES ASSUME NEW m \in S, m >= n - (l + 1)
               PROVE  \E h \in S : \A k \in S : h >= k
    OBVIOUS
  <2>1. CASE \E h \in S : h >= n - l
    BY <2>1, <1>2
  <2>2. CASE ~ \E h \in S : h >= n - l
    <3>1. \A k \in S : m >= k
      BY <2>2
    <3> QED
      BY <3>1
  <2> QED
    BY <2>1, <2>2
<1>3. T = Nat
  <2> HIDE DEF T
  <2>1. T \in SUBSET Nat
    BY DEF T
  <2> QED
    BY <2>1, <1>1, <1>2, NatSetInduction
<1>4. \E m \in S : m >= n - n
  <2> HIDE DEF T
  <2>1. PICK m \in S : TRUE
    OBVIOUS
  <2>2. m \in 1 .. n
    BY <2>1
  <2>3. m >= n - n
    BY <2>2
  <2> QED
    BY <2>3
<1>5. n \in T
  <2> HIDE DEF T
  <2> QED
    BY <1>3
<1> QED
  BY <1>4, <1>5

\* What holds of a set when it holds of all smaller ones holds of every subset
\* of a finite set.
LEMMA SmallerFirst ==
  ASSUME NEW S, IsFiniteSet(S), NEW Q \in SUBSET SUBSET S,
         \A s \in SUBSET S : (\A t \in SUBSET s : t # s => t \in Q) => s \in Q
  PROVE  Q = SUBSET S
<1> DEFINE B == (SUBSET S) \ Q
           R == StrictSubsetOrdering(S)
<1> SUFFICES ASSUME B # {} PROVE FALSE
  OBVIOUS
<1>1. IsWellFoundedOn(R, FiniteSubsetsOf(S))
  BY FS_StrictSubsetOrderingWellFounded
<1>2. FiniteSubsetsOf(S) = SUBSET S
  BY FS_FiniteSubsetsOfFinite
<1>3. \E s \in B : \A t \in B : ~ (<<t, s>> \in R)
  <2> HIDE DEF B, R
  <2>1. B \subseteq SUBSET S
    BY DEF B
  <2> QED
    BY <2>1, <1>1, <1>2, WFMin
<1>4. PICK s \in B : \A t \in B : ~ (<<t, s>> \in R)
  BY <1>3
<1>5. ASSUME NEW t \in SUBSET s, t # s PROVE t \in Q
  <2>1. t \in SUBSET S /\ <<t, s>> \in R
    BY <1>5 DEF StrictSubsetOrdering
  <2> QED
    BY <2>1, <1>4
<1> QED
  BY <1>4, <1>5

\* What holds of the empty set, and goes on holding when an element is added,
\* holds of every subset of a finite set.
LEMMA SubsetInduction ==
  ASSUME NEW S, IsFiniteSet(S), NEW Q \in SUBSET SUBSET S, {} \in Q,
         \A s \in SUBSET S : \A x \in s : s \ {x} \in Q => s \in Q
  PROVE  Q = SUBSET S
<1>1. ASSUME NEW s \in SUBSET S, \A t \in SUBSET s : t # s => t \in Q PROVE s \in Q
  <2>1. CASE s = {}
    BY <2>1
  <2>2. CASE s # {}
    <3>1. PICK x \in s : TRUE
      BY <2>2
    <3>2. s \ {x} \in SUBSET s /\ s \ {x} # s
      BY <3>1
    <3> QED
      BY <3>1, <3>2, <1>1
  <2> QED
    BY <2>1, <2>2
<1> QED
  BY <1>1, SmallerFirst

\* There is such a function: level by level, on the subsets of up to n elements.
LEMMA SumExists ==
  ASSUME NEW S, IsFiniteSet(S), NEW f
  PROVE  \E sum : IsSum(sum, f, S)
<1> DEFINE Upto(n) == {s \in SUBSET S : Cardinality(s) <= n}
           Level(g, n) == g = [s \in Upto(n) |->
                                 IF s = {} THEN 0 ELSE f[One(s)] + g[s \ {One(s)}]]
           Good == {n \in Nat : \E g : Level(g, n)}
<1>1. \A s \in SUBSET S : IsFiniteSet(s) /\ Cardinality(s) \in Nat
  BY FS_Subset, FS_CardinalityType
<1>2. \A s \in SUBSET S : s # {} =>
        /\ One(s) \in s
        /\ s \ {One(s)} \in SUBSET S
        /\ Cardinality(s \ {One(s)}) = Cardinality(s) - 1
  <2> TAKE s \in SUBSET S
  <2> HAVE s # {}
  <2>1. One(s) \in s
    BY DEF One
  <2> QED
    BY <2>1, <1>1, FS_RemoveElement
<1>3. 0 \in Good
  <2>1. Upto(0) = {{}}
    BY <1>1, FS_EmptySet
  <2>2. Level([s \in {{}} |-> 0], 0)
    BY <2>1
  <2> QED
    BY <2>2
<1>4. ASSUME NEW n \in Good PROVE n + 1 \in Good
  <2>1. PICK g : Level(g, n)
    BY <1>4
  <2> DEFINE h == [s \in Upto(n + 1) |->
                     IF s = {} THEN 0 ELSE f[One(s)] + g[s \ {One(s)}]]
  <2>2. ASSUME NEW s \in Upto(n) PROVE s \in Upto(n + 1) /\ h[s] = g[s]
    <3>1. s \in Upto(n + 1)
      BY <1>1
    <3>2. g[s] = IF s = {} THEN 0 ELSE f[One(s)] + g[s \ {One(s)}]
      BY <2>1, Zenon
    <3>3. h[s] = IF s = {} THEN 0 ELSE f[One(s)] + g[s \ {One(s)}]
      BY <3>1, Zenon
    <3> QED
      BY <3>1, <3>2, <3>3
  <2>3. ASSUME NEW s \in Upto(n + 1), s # {} PROVE s \ {One(s)} \in Upto(n)
    BY <1>1, <1>2, <2>3
  <2>4. ASSUME NEW s \in Upto(n + 1)
        PROVE  (IF s = {} THEN 0 ELSE f[One(s)] + g[s \ {One(s)}])
                 = (IF s = {} THEN 0 ELSE f[One(s)] + h[s \ {One(s)}])
    <3>1. CASE s = {}
      BY <3>1
    <3>2. CASE s # {}
      <4>1. h[s \ {One(s)}] = g[s \ {One(s)}]
        BY <3>2, <2>3, <2>2
      <4> HIDE DEF h, Upto
      <4> QED
        BY <4>1, <3>2
    <3> QED
      BY <3>1, <3>2
  <2>5. h = [s \in Upto(n + 1) |-> IF s = {} THEN 0 ELSE f[One(s)] + h[s \ {One(s)}]]
    <3> HIDE DEF Upto
    <3> QED
      BY <2>4, Zenon
  <2>6. Level(h, n + 1)
    BY <2>5
  <2> HIDE DEF h, Level
  <2> QED
    BY <2>6
<1>5. Good = Nat
  <2> HIDE DEF Good
  <2>1. Good \in SUBSET Nat
    BY DEF Good
  <2> QED
    BY <2>1, <1>3, <1>4, NatSetInduction
<1>6. Cardinality(S) \in Good
  BY <1>5, <1>1
<1>7. PICK sum : Level(sum, Cardinality(S))
  BY <1>6
<1>8. Upto(Cardinality(S)) = SUBSET S
  BY FS_Subset
<1> QED
  BY <1>7, <1>8, Zenon DEF IsSum

\* The order in which a sum is taken does not matter: any element can be the
\* last one.
LEMMA AnyOrder ==
  ASSUME NEW S, IsFiniteSet(S), NEW f \in [S -> Int], NEW sum, IsSum(sum, f, S)
  PROVE  /\ sum[{}] = 0
         /\ \A s \in SUBSET S : sum[s] \in Int
         /\ \A s \in SUBSET S : \A x \in s : sum[s] = f[x] + sum[s \ {x}]
<1> DEFINE P(s) == sum[s] \in Int /\ \A x \in s : sum[s] = f[x] + sum[s \ {x}]
           Q == {s \in SUBSET S : P(s)}
<1>1. \A s \in SUBSET S : sum[s] = IF s = {} THEN 0 ELSE f[One(s)] + sum[s \ {One(s)}]
  BY Zenon DEF IsSum
<1>2. \A s \in SUBSET S : s # {} => One(s) \in s
  BY DEF One
<1>3. sum[{}] = 0
  BY <1>1
<1>4. ASSUME NEW s \in SUBSET S, \A t \in SUBSET s : t # s => t \in Q PROVE s \in Q
  <2>0. ASSUME NEW x \in s PROVE P(s \ {x}) /\ f[x] \in Int
    <3>1. s \ {x} \in SUBSET s /\ s \ {x} # s
      BY <2>0
    <3> QED
      BY <3>1, <1>4, <2>0
  <2>1. CASE s = {}
    BY <2>1, <1>3
  <2>2. ASSUME s # {} PROVE P(s)
    <3> DEFINE y == One(s)
    <3>1. y \in s /\ sum[s] = f[y] + sum[s \ {y}]
      BY <1>1, <1>2, <2>2
    <3> HIDE DEF y
    <3>2. sum[s] \in Int
      BY <3>1, <2>0
    <3>3. ASSUME NEW x \in s, x # y PROVE sum[s] = f[x] + sum[s \ {x}]
      <4>1. x \in s \ {y} /\ y \in s \ {x} /\ (s \ {x}) \ {y} = (s \ {y}) \ {x}
        BY <3>3, <3>1
      <4> DEFINE rest == sum[(s \ {y}) \ {x}]
      <4>2. sum[s \ {y}] = f[x] + rest
        BY <4>1, <3>1, <2>0
      <4>3. sum[s \ {x}] = f[y] + rest
        BY <4>1, <2>0
      <4>4. rest \in Int
        <5>1. (s \ {y}) \ {x} \in SUBSET s /\ (s \ {y}) \ {x} # s
          BY <4>1
        <5> QED
          BY <5>1, <1>4
      <4> HIDE DEF rest
      <4>5. f[x] \in Int /\ f[y] \in Int
        BY <2>0, <3>1
      <4> QED
        BY <4>2, <4>3, <4>4, <4>5, <3>1
    <3> QED
      BY <3>1, <3>2, <3>3
  <2> QED
    BY <2>1, <2>2
<1>5. Q = SUBSET S
  <2> HIDE DEF Q
  <2>1. Q \in SUBSET SUBSET S
    BY DEF Q
  <2> QED
    BY <2>1, <1>4, SmallerFirst
<1> QED
  BY <1>3, <1>5

\* Sums over two sets of two functions agree on what the two have in common.
LEMMA SameSum ==
  ASSUME NEW S, IsFiniteSet(S), NEW f \in [S -> Int], NEW sum, IsSum(sum, f, S),
         NEW T \in SUBSET S, NEW g \in [T -> Int], NEW tum, IsSum(tum, g, T),
         \A x \in T : f[x] = g[x]
  PROVE  tum[T] = sum[T]
<1> DEFINE Q == {s \in SUBSET T : tum[s] = sum[s]}
<1>1. IsFiniteSet(T)
  BY FS_Subset
<1>2. sum[{}] = 0 /\ \A s \in SUBSET T : \A x \in s : sum[s] = f[x] + sum[s \ {x}]
  BY AnyOrder
<1>3. tum[{}] = 0 /\ \A s \in SUBSET T : \A x \in s : tum[s] = g[x] + tum[s \ {x}]
  BY <1>1, AnyOrder
<1>4. {} \in Q
  BY <1>2, <1>3
<1>5. ASSUME NEW s \in SUBSET T, NEW x \in s, s \ {x} \in Q PROVE s \in Q
  BY <1>2, <1>3, <1>5
<1>6. Q = SUBSET T
  <2> HIDE DEF Q
  <2>1. Q \in SUBSET SUBSET T
    BY DEF Q
  <2> QED
    BY <2>1, <1>1, <1>4, <1>5, SubsetInduction
<1> QED
  BY <1>6

\* SumFunction is the last value of such a function.
LEMMA SumIsSum ==
  ASSUME NEW S, IsFiniteSet(S), NEW f \in [S -> Int]
  PROVE  \E sum : IsSum(sum, f, S) /\ SumFunction(f) = sum[S]
<1> DEFINE c == CHOOSE sum : IsSum(sum, f, S)
<1>1. IsSum(c, f, S)
  BY SumExists
<1>2. SumFunction(f) = c[S]
  <2>1. DOMAIN f = S
    OBVIOUS
  <2> QED
    BY <2>1 DEF SumFunction, SumFunctionOnSet, FoldFunctionOnSet, MapThenFoldSet, IsSum, One
<1> QED
  BY <1>1, <1>2

Without(f, x) == [y \in DOMAIN f \ {x} |-> f[y]]

\* A sum is that of the rest and one of its terms, whichever.
LEMMA SumSplit ==
  ASSUME NEW S, IsFiniteSet(S), NEW f \in [S -> Int], NEW x \in S
  PROVE  /\ SumFunction(Without(f, x)) \in Int
         /\ SumFunction(f) = f[x] + SumFunction(Without(f, x))
<1> DEFINE g == Without(f, x)
           T == S \ {x}
<1>1. g \in [T -> Int] /\ T \in SUBSET S /\ \A y \in T : f[y] = g[y]
  BY DEF Without
<1>2. IsFiniteSet(T)
  BY <1>1, FS_Subset
<1> HIDE DEF g
<1>3. PICK sum : IsSum(sum, f, S) /\ SumFunction(f) = sum[S]
  BY SumIsSum
<1>4. PICK tum : IsSum(tum, g, T) /\ SumFunction(g) = tum[T]
  BY <1>1, <1>2, SumIsSum
<1>5. tum[T] = sum[T]
  BY <1>1, <1>3, <1>4, SameSum
<1>6. sum[S] = f[x] + sum[T] /\ sum[T] \in Int
  <2>1. S \in SUBSET S /\ T \in SUBSET S
    OBVIOUS
  <2>2. /\ \A s \in SUBSET S : sum[s] \in Int
        /\ \A s \in SUBSET S : \A y \in s : sum[s] = f[y] + sum[s \ {y}]
    BY <1>3, AnyOrder
  <2> QED
    BY <2>1, <2>2
<1> QED
  BY <1>3, <1>4, <1>5, <1>6 DEF g

\* The sum of nothing, and the types of sums.
LEMMA SumEmpty ==
  ASSUME NEW f \in [{} -> Int]
  PROVE  SumFunction(f) = 0
<1>1. IsFiniteSet({})
  BY FS_EmptySet
<1>2. PICK sum : IsSum(sum, f, {}) /\ SumFunction(f) = sum[{}]
  BY <1>1, SumIsSum
<1> QED
  BY <1>1, <1>2, AnyOrder

LEMMA SumType ==
  ASSUME NEW S, IsFiniteSet(S), NEW f \in [S -> Nat]
  PROVE  SumFunction(f) \in Nat
<1>1. f \in [S -> Int]
  OBVIOUS
<1>2. PICK sum : IsSum(sum, f, S) /\ SumFunction(f) = sum[S]
  BY <1>1, SumIsSum
<1> DEFINE Q == {s \in SUBSET S : sum[s] \in Nat}
<1>3. sum[{}] = 0 /\ \A s \in SUBSET S : \A x \in s : sum[s] = f[x] + sum[s \ {x}]
  BY <1>1, <1>2, AnyOrder
<1>4. {} \in Q
  BY <1>3
<1>5. ASSUME NEW s \in SUBSET S, NEW x \in s, s \ {x} \in Q PROVE s \in Q
  <2>1. sum[s] = f[x] + sum[s \ {x}]
    BY <1>3
  <2>2. f[x] \in Nat /\ sum[s \ {x}] \in Nat
    BY <1>5
  <2> QED
    BY <2>1, <2>2
<1>6. Q = SUBSET S
  <2> HIDE DEF Q
  <2>1. Q \in SUBSET SUBSET S
    BY DEF Q
  <2> QED
    BY <2>1, <1>4, <1>5, SubsetInduction
<1> QED
  BY <1>2, <1>6

-----------------------------------------------------------------------------
(* Adding a word: what its bucket, the score and the norm gain. *)

\* The elements of a sequence.
LEMMA Elements ==
  ASSUME NEW D, NEW s \in Seq(D)
  PROVE  Len(s) \in Nat /\ \A n \in 1 .. Len(s) : s[n] \in D
OBVIOUS

WordsOfTemplate == [word : Keywords, weight : Nat]

\* The types of the tables.
LEMMA Tables ==
  /\ IsFiniteSet(Buckets)
  /\ \A words \in SUBSET Keywords :
       /\ IsFiniteSet(words)
       /\ Features(words) \in [Buckets -> Nat]
  /\ Weights \in [1 .. Len(Templates) -> [Buckets -> Nat]]
  /\ Len(Templates) \in Nat
<1>1. IsFiniteSet(Buckets)
  <2>1. 0 \in Int /\ 31 \in Int
    OBVIOUS
  <2> QED
    BY <2>1, FS_Interval DEF Buckets
<1>2. ASSUME NEW words \in SUBSET Keywords
      PROVE  IsFiniteSet(words) /\ Features(words) \in [Buckets -> Nat]
  <2>1. IsFiniteSet(words)
    BY InferenceAssumption, FS_Subset
  <2>2. ASSUME NEW b \in Buckets PROVE Cardinality({w \in words : hash_keyword[w] = b}) \in Nat
    BY <2>1, FS_Subset, FS_CardinalityType
  <2> QED
    BY <2>1, <2>2 DEF Features
<1>3. Len(Templates) \in Nat
  BY InferenceAssumption
<1>4. ASSUME NEW t \in 1 .. Len(Templates), NEW b \in Buckets
      PROVE  LET ws == Templates[t].words
                 ns == {n \in 1 .. Len(ws) : hash_keyword[ws[n].word] = b}
             IN  (IF ns = {} THEN 0 ELSE ws[Max(ns)].weight) \in Nat
  <2> DEFINE ws == Templates[t].words
             ns == {n \in 1 .. Len(ws) : hash_keyword[ws[n].word] = b}
  <2>1. Templates[t] \in [name : STRING, words : Seq(WordsOfTemplate)]
    BY InferenceAssumption, Elements DEF WordsOfTemplate
  <2>2. ws \in Seq(WordsOfTemplate)
    BY <2>1
  <2> HIDE DEF ws
  <2>3. Len(ws) \in Nat /\ \A n \in 1 .. Len(ws) : ws[n].weight \in Nat
    <3>1. Len(ws) \in Nat /\ \A n \in 1 .. Len(ws) : ws[n] \in WordsOfTemplate
      BY <2>2, Elements
    <3> QED
      BY <3>1 DEF WordsOfTemplate
  <2>4. ASSUME ns # {} PROVE Max(ns) \in ns
    <3>1. ns \in SUBSET (1 .. Len(ws)) /\ ns # {}
      BY <2>4
    <3> HIDE DEF ns
    <3>2. \E m \in ns : \A n \in ns : m >= n
      BY <3>1, <2>3, LastOne
    <3> QED
      BY <3>2 DEF Max
  <2>5. ns \subseteq 1 .. Len(ws)
    OBVIOUS
  <2> HIDE DEF ns
  <2>6. (IF ns = {} THEN 0 ELSE ws[Max(ns)].weight) \in Nat
    BY <2>3, <2>4, <2>5
  <2> QED
    BY <2>6 DEF ns, ws
<1>5. Weights \in [1 .. Len(Templates) -> [Buckets -> Nat]]
  BY <1>4 DEF Weights
<1> QED
  BY <1>1, <1>2, <1>3, <1>5

\* A word adds one to its bucket.
LEMMA OneWordMore ==
  ASSUME NEW words \in SUBSET Keywords, NEW w \in words
  PROVE  \A b \in Buckets :
           Features(words)[b] = Features(words \ {w})[b] + IF b = hash_keyword[w] THEN 1 ELSE 0
<1> TAKE b \in Buckets
<1> DEFINE C == {v \in words : hash_keyword[v] = b}
           D == {v \in words \ {w} : hash_keyword[v] = b}
<1>1. Features(words)[b] = Cardinality(C) /\ Features(words \ {w})[b] = Cardinality(D)
  BY DEF Features
<1>2. IsFiniteSet(D) /\ Cardinality(D) \in Nat
  <2>1. IsFiniteSet(words)
    BY Tables
  <2>2. D \in SUBSET words
    OBVIOUS
  <2> HIDE DEF D
  <2> QED
    BY <2>1, <2>2, FS_Subset, FS_CardinalityType
<1>3. CASE b = hash_keyword[w]
  <2>1. C = D \cup {w} /\ w \notin D
    BY <1>3
  <2> HIDE DEF C, D
  <2>2. Cardinality(C) = Cardinality(D) + 1
    BY <2>1, <1>2, FS_AddElement
  <2> QED
    BY <2>2, <1>1, <1>3
<1>4. CASE b # hash_keyword[w]
  <2>1. C = D
    BY <1>4
  <2> HIDE DEF C, D
  <2> QED
    BY <2>1, <1>1, <1>2, <1>4
<1> QED
  BY <1>3, <1>4

\* Two sums over the buckets whose terms differ in one of them.
LEMMA OneTermMore ==
  ASSUME NEW f \in [Buckets -> Int], NEW g \in [Buckets -> Int], NEW c \in Buckets,
         \A b \in Buckets : b # c => f[b] = g[b]
  PROVE  SumFunction(f) = SumFunction(g) + (f[c] - g[c])
<1>1. Without(f, c) = Without(g, c)
  BY DEF Without
<1>2. /\ SumFunction(Without(f, c)) \in Int
      /\ SumFunction(f) = f[c] + SumFunction(Without(f, c))
  BY Tables, SumSplit
<1>3. SumFunction(g) = g[c] + SumFunction(Without(g, c))
  BY Tables, SumSplit
<1> QED
  BY <1>1, <1>2, <1>3

\* The score of a text is its fit, and the square of its norm the number of
\* pairs of its words in one bucket.
LEMMA ScoreGrows ==
  ASSUME NEW words \in SUBSET Keywords, NEW w \in words, NEW g \in [Buckets -> Nat]
  PROVE  /\ Dot(Features(words \ {w}), g) \in Nat
         /\ Dot(Features(words), g) = Dot(Features(words \ {w}), g) + g[hash_keyword[w]]
<1> DEFINE F == Features(words)
           G == Features(words \ {w})
           c == hash_keyword[w]
           f == [b \in Buckets |-> F[b] * g[b]]
           h == [b \in Buckets |-> G[b] * g[b]]
<1>1. c \in Buckets
  BY InferenceAssumption
<1>2. F \in [Buckets -> Nat] /\ G \in [Buckets -> Nat]
  <2>1. words \ {w} \in SUBSET Keywords
    OBVIOUS
  <2> QED
    BY <2>1, Tables
<1>3. \A b \in Buckets : F[b] = G[b] + IF b = c THEN 1 ELSE 0
  BY OneWordMore
<1>4. Dot(F, g) = SumFunction(f) /\ Dot(G, g) = SumFunction(h)
  BY DEF Dot
<1> HIDE DEF F, G, c
<1>5. \A m, n \in Nat : m * n \in Nat /\ (m + 1) * n = m * n + n
  OBVIOUS
<1>6. f \in [Buckets -> Int] /\ h \in [Buckets -> Int] /\ h \in [Buckets -> Nat]
  BY <1>2, <1>5
<1>7. \A b \in Buckets : b # c => f[b] = h[b]
  BY <1>2, <1>3
<1>8. f[c] = h[c] + g[c] /\ h[c] \in Nat /\ g[c] \in Nat
  <2>1. G[c] \in Nat /\ g[c] \in Nat /\ F[c] = G[c] + 1
    BY <1>1, <1>2, <1>3
  <2>2. F[c] * g[c] = G[c] * g[c] + g[c] /\ G[c] * g[c] \in Nat
    BY <2>1, <1>5
  <2> QED
    BY <2>1, <2>2, <1>1
<1> HIDE DEF f, h
<1>9. SumFunction(h) \in Nat
  BY <1>6, SumType, Tables
<1>10. SumFunction(f) = SumFunction(h) + (f[c] - h[c])
  BY <1>1, <1>6, <1>7, OneTermMore
<1> QED
  BY <1>4, <1>8, <1>9, <1>10 DEF F, G, c

LEMMA NormGrows ==
  ASSUME NEW words \in SUBSET Keywords, NEW w \in words
  PROVE  LET F == Features(words)
             G == Features(words \ {w})
             n == G[hash_keyword[w]]
         IN  n \in Nat /\ Dot(G, G) \in Nat /\ Dot(F, F) = Dot(G, G) + (n + n + 1)
<1> DEFINE F == Features(words)
           G == Features(words \ {w})
           c == hash_keyword[w]
           n == G[c]
           f == [b \in Buckets |-> F[b] * F[b]]
           h == [b \in Buckets |-> G[b] * G[b]]
<1>1. c \in Buckets
  BY InferenceAssumption
<1>2. F \in [Buckets -> Nat] /\ G \in [Buckets -> Nat]
  <2>1. words \ {w} \in SUBSET Keywords
    OBVIOUS
  <2> QED
    BY <2>1, Tables
<1>3. \A b \in Buckets : F[b] = G[b] + IF b = c THEN 1 ELSE 0
  BY OneWordMore
<1>4. Dot(F, F) = SumFunction(f) /\ Dot(G, G) = SumFunction(h)
  BY DEF Dot
<1> HIDE DEF F, G, c
<1>5. \A m \in Nat : m * m \in Nat /\ (m + 1) * (m + 1) = m * m + (m + m + 1)
  OBVIOUS
<1>6. f \in [Buckets -> Int] /\ h \in [Buckets -> Int] /\ h \in [Buckets -> Nat]
  BY <1>2, <1>5
<1>7. \A b \in Buckets : b # c => f[b] = h[b]
  BY <1>2, <1>3
<1>8. f[c] = h[c] + (n + n + 1) /\ h[c] \in Nat /\ n \in Nat
  <2>1. n \in Nat /\ F[c] = n + 1
    BY <1>1, <1>2, <1>3
  <2>2. h[c] = n * n /\ f[c] = F[c] * F[c]
    BY <1>1
  <2> HIDE DEF n, f, h
  <2>3. F[c] * F[c] = n * n + (n + n + 1) /\ n * n \in Nat
    BY <2>1, <1>5
  <2> QED
    BY <2>1, <2>2, <2>3
<1> HIDE DEF f, h
<1>9. SumFunction(h) \in Nat
  BY <1>6, SumType, Tables
<1>10. SumFunction(f) = SumFunction(h) + (f[c] - h[c])
  BY <1>1, <1>6, <1>7, OneTermMore
<1> HIDE DEF n
<1>11. Dot(F, F) = Dot(G, G) + (n + n + 1) /\ Dot(G, G) \in Nat
  BY <1>4, <1>8, <1>9, <1>10
<1> QED
  BY <1>8, <1>11 DEF F, G, c, n

\* The pairs that a word adds are those with itself and, either way round, with
\* the other words of its bucket.
LEMMA PairsGrow ==
  ASSUME NEW words \in SUBSET Keywords, NEW w \in words
  PROVE  LET n == Features(words \ {w})[hash_keyword[w]]
         IN  Norm2(words \ {w}) \in Nat /\ Norm2(words) = Norm2(words \ {w}) + (n + n + 1)
<1> DEFINE rest == words \ {w}
           c == hash_keyword[w]
           Pairs(S) == {p \in S \X S : hash_keyword[p[1]] = hash_keyword[p[2]]}
           C == {v \in rest : hash_keyword[v] = c}
           D == C \cup {w}
           n == Features(rest)[c]
<1>1. c \in Buckets /\ rest \in SUBSET Keywords
  BY InferenceAssumption
<1>2. IsFiniteSet(rest) /\ IsFiniteSet(words)
  BY <1>1, Tables
<1>3. n = Cardinality(C) /\ n \in Nat /\ IsFiniteSet(C)
  <2>1. C \in SUBSET rest
    OBVIOUS
  <2>2. n = Cardinality(C)
    BY <1>1 DEF Features
  <2> HIDE DEF C, n, rest
  <2> QED
    BY <2>1, <2>2, <1>2, FS_Subset, FS_CardinalityType
<1>4. IsFiniteSet(D) /\ Cardinality(D) = n + 1
  <2>1. w \notin C
    OBVIOUS
  <2> HIDE DEF C
  <2> QED
    BY <2>1, <1>3, FS_AddElement
<1>5. /\ IsFiniteSet({w} \X D) /\ Cardinality({w} \X D) = n + 1
      /\ IsFiniteSet(C \X {w}) /\ Cardinality(C \X {w}) = n
  <2>1. IsFiniteSet({w}) /\ Cardinality({w}) = 1
    BY FS_Singleton
  <2> HIDE DEF C, D, n
  <2>2. IsFiniteSet({w} \X D) /\ Cardinality({w} \X D) = 1 * (n + 1)
    BY <2>1, <1>4, FS_Product
  <2>3. IsFiniteSet(C \X {w}) /\ Cardinality(C \X {w}) = n * 1
    BY <2>1, <1>3, FS_Product
  <2> QED
    BY <2>2, <2>3, <1>3
<1>6. IsFiniteSet(Pairs(rest)) /\ Cardinality(Pairs(rest)) \in Nat
  <2>1. Pairs(rest) \in SUBSET (rest \X rest)
    OBVIOUS
  <2>2. IsFiniteSet(rest \X rest)
    BY <1>2, FS_Product
  <2> HIDE DEF Pairs
  <2> QED
    BY <2>1, <2>2, FS_Subset, FS_CardinalityType
<1>7. Pairs(words) = (Pairs(rest) \cup ({w} \X D)) \cup (C \X {w})
  OBVIOUS
<1>8. /\ Pairs(rest) \cap ({w} \X D) = {}
      /\ (Pairs(rest) \cup ({w} \X D)) \cap (C \X {w}) = {}
  OBVIOUS
<1> DEFINE A == {w} \X D
           B == C \X {w}
           P == Pairs(rest)
<1>9. Cardinality(Pairs(words)) = Cardinality(P) + (n + 1) + n
  <2>1. /\ IsFiniteSet(A) /\ Cardinality(A) = n + 1
        /\ IsFiniteSet(B) /\ Cardinality(B) = n
        /\ IsFiniteSet(P) /\ Cardinality(P) \in Nat
        /\ Pairs(words) = (P \cup A) \cup B
        /\ P \cap A = {} /\ (P \cup A) \cap B = {}
    BY <1>5, <1>6, <1>7, <1>8, Zenon
  <2>a. n \in Nat /\ Cardinality(P) \in Nat
    BY <1>3, <1>6
  <2> HIDE DEF Pairs, C, D, n, rest, A, B, P
  <2>2. Cardinality({}) = 0
    BY FS_EmptySet
  <2>3. IsFiniteSet(P \cup A) /\ Cardinality(P \cup A) = Cardinality(P) + (n + 1)
    <3>1. /\ IsFiniteSet(P \cup A)
          /\ Cardinality(P \cup A) = Cardinality(P) + Cardinality(A) - Cardinality(P \cap A)
      BY <2>1, FS_Union
    <3>2. Cardinality(A) = n + 1 /\ Cardinality(P \cap A) = 0
      BY <2>1, <2>2
    <3> QED
      BY <3>1, <3>2, <2>a
  <2>4. Cardinality((P \cup A) \cup B) = Cardinality(P \cup A) + n
    <3>1. Cardinality((P \cup A) \cup B) =
            Cardinality(P \cup A) + Cardinality(B) - Cardinality((P \cup A) \cap B)
      BY <2>1, <2>3, FS_Union
    <3>2. Cardinality(B) = n /\ Cardinality((P \cup A) \cap B) = 0
      BY <2>1, <2>2
    <3> QED
      BY <3>1, <3>2, <2>3, <2>a
  <2> QED
    BY <2>1, <2>3, <2>4
<1>10. Norm2(words) = Cardinality(Pairs(words)) /\ Norm2(rest) = Cardinality(Pairs(rest))
  BY DEF Norm2
<1> HIDE DEF Pairs, C, D, n
<1>11. Norm2(words) = Norm2(rest) + (n + n + 1) /\ Norm2(rest) \in Nat
  BY <1>3, <1>6, <1>9, <1>10
<1> QED
  BY <1>11 DEF n, rest, c

\* The loop's scores are fits, and the norm of its threshold is Norm2's.
LEMMA ScoreIsFit ==
  ASSUME NEW words \in SUBSET Keywords
  PROVE  /\ Dot(Features(words), Features(words)) = Norm2(words)
         /\ Norm2(words) \in Nat
         /\ \A t \in 1 .. Len(Templates) :
              Score(words, t) = Fit(words, t) /\ Fit(words, t) \in Nat
<1> DEFINE P(S) == /\ Dot(Features(S), Features(S)) = Norm2(S)
                   /\ Norm2(S) \in Nat
                   /\ \A t \in 1 .. Len(Templates) :
                        Score(S, t) = Fit(S, t) /\ Fit(S, t) \in Nat
           Q == {S \in SUBSET words : P(S)}
<1>1. IsFiniteSet(words)
  BY Tables
<1>2. {} \in Q
  <2>1. {} \in SUBSET Keywords
    OBVIOUS
  <2>2. \A b \in Buckets : Features({})[b] = 0
    <3> TAKE b \in Buckets
    <3>1. {v \in {} : hash_keyword[v] = b} = {}
      OBVIOUS
    <3> QED
      BY <3>1, FS_EmptySet DEF Features
  <2> DEFINE zero == [b \in Buckets |-> 0]
  <2>3. SumFunction(zero) = 0
    <3>1. zero \in [Buckets -> Int]
      OBVIOUS
    <3>2. PICK sum : IsSum(sum, zero, Buckets) /\ SumFunction(zero) = sum[Buckets]
      BY <3>1, Tables, SumIsSum
    <3>3. sum[{}] = 0 /\ \A s \in SUBSET Buckets : \A x \in s : sum[s] = zero[x] + sum[s \ {x}]
      BY <3>1, <3>2, Tables, AnyOrder
    <3> DEFINE Z == {s \in SUBSET Buckets : sum[s] = 0}
    <3>4. {} \in Z
      BY <3>3
    <3>5. ASSUME NEW s \in SUBSET Buckets, NEW x \in s, s \ {x} \in Z PROVE s \in Z
      BY <3>3, <3>5
    <3>6. Z = SUBSET Buckets
      <4> HIDE DEF Z
      <4>1. Z \in SUBSET SUBSET Buckets
        BY DEF Z
      <4> QED
        BY <4>1, <3>4, <3>5, Tables, SubsetInduction
    <3> QED
      BY <3>2, <3>6
  <2>4. ASSUME NEW g \in [Buckets -> Nat] PROVE Dot(Features({}), g) = 0
    <3>1. [b \in Buckets |-> Features({})[b] * g[b]] = zero
      BY <2>2
    <3> QED
      BY <3>1, <2>3 DEF Dot
  <2>5. Norm2({}) = 0
    <3>1. {p \in {} \X {} : hash_keyword[p[1]] = hash_keyword[p[2]]} = {}
      OBVIOUS
    <3> QED
      BY <3>1, FS_EmptySet DEF Norm2
  <2>6. ASSUME NEW t \in 1 .. Len(Templates) PROVE Fit({}, t) = 0 /\ Score({}, t) = 0
    <3>1. [w \in {} |-> Weights[t][hash_keyword[w]]] \in [{} -> Int]
      OBVIOUS
    <3>2. Weights[t] \in [Buckets -> Nat]
      BY Tables
    <3> QED
      BY <3>1, <3>2, <2>4, SumEmpty DEF Fit, Score
  <2>7. Dot(Features({}), Features({})) = 0
    BY <2>1, <2>4, Tables
  <2> QED
    BY <2>5, <2>6, <2>7
<1>3. ASSUME NEW S \in SUBSET words, NEW w \in S, S \ {w} \in Q PROVE S \in Q
  <2> DEFINE R == S \ {w}
             n == Features(R)[hash_keyword[w]]
  <2>1. S \in SUBSET Keywords /\ R \in SUBSET Keywords /\ P(R)
    BY <1>3
  <2>2. n \in Nat /\ Dot(Features(S), Features(S)) = Dot(Features(R), Features(R)) + (n + n + 1)
    BY <2>1, NormGrows
  <2>3. Norm2(S) = Norm2(R) + (n + n + 1)
    BY <2>1, PairsGrow
  <2>4. ASSUME NEW t \in 1 .. Len(Templates)
        PROVE  Score(S, t) = Fit(S, t) /\ Fit(S, t) \in Nat
    <3> DEFINE f == [v \in S |-> Weights[t][hash_keyword[v]]]
               g == [v \in R |-> Weights[t][hash_keyword[v]]]
    <3>1. Weights[t] \in [Buckets -> Nat] /\ \A v \in S : hash_keyword[v] \in Buckets
      BY <2>1, Tables, InferenceAssumption
    <3>2. f \in [S -> Int] /\ f[w] = Weights[t][hash_keyword[w]] /\ f[w] \in Nat
      BY <3>1
    <3>3. Without(f, w) = g
      BY DEF Without
    <3>4. Fit(S, t) = SumFunction(f) /\ Fit(R, t) = SumFunction(g)
      BY DEF Fit
    <3> HIDE DEF f, g
    <3>5. SumFunction(f) = f[w] + SumFunction(g)
      BY <2>1, <3>2, <3>3, Tables, SumSplit
    <3>6. Score(S, t) = Score(R, t) + Weights[t][hash_keyword[w]]
      BY <2>1, <3>1, ScoreGrows DEF Score
    <3>7. Score(R, t) = Fit(R, t) /\ Fit(R, t) \in Nat
      BY <2>1
    <3> QED
      BY <3>2, <3>4, <3>5, <3>6, <3>7
  <2> HIDE DEF n, R
  <2>5. Dot(Features(S), Features(S)) = Norm2(S) /\ Norm2(S) \in Nat
    BY <2>1, <2>2, <2>3
  <2> QED
    BY <2>4, <2>5
<1>4. Q = SUBSET words
  <2> HIDE DEF Q
  <2>1. Q \in SUBSET SUBSET words
    BY DEF Q
  <2> QED
    BY <2>1, <1>1, <1>2, <1>3, SubsetInduction
<1>5. words \in Q
  BY <1>4
<1> QED
  BY <1>5

-----------------------------------------------------------------------------
(* The loop. *)

\* best_idx is the first of the best templates that were scored.
BestSoFar ==
  \/ i = 1 /\ best_score = -1 /\ best_idx = 0
  \/ /\ best_idx \in 1 .. i - 1
     /\ best_score = Score(input.words, best_idx)
     /\ \A u \in 1 .. i - 1 : Score(input.words, u) <= best_score
     /\ \A u \in 1 .. best_idx - 1 : Score(input.words, u) < best_score

\* A name of its own, for the SMT solver has none for the empty string.
Answered == answer # ""

\* A text that took the loop is answered at its end, with what it found.
Decided ==
  Answered /\ input.direct = "none" =>
    /\ i = Len(Templates) + 1
    /\ answer = IF best_idx > 0 /\ Activated(input.words, best_score)
                THEN Templates[best_idx].name ELSE "none"

LoopInv ==
  /\ input \in Inputs
  /\ i \in 1 .. Len(Templates) + 1
  /\ BestSoFar
  /\ Decided

\* The scores of a text of the inputs.
LEMMA ScoresOfInputs ==
  ASSUME input \in Inputs
  PROVE  /\ input.words \in SUBSET Keywords
         /\ \A t \in 1 .. Len(Templates) : Score(input.words, t) \in Nat
<1>1. input.words \in SUBSET Keywords
  BY InferenceAssumption
<1> QED
  BY <1>1, ScoreIsFit

LEMMA LoopInvInductive == LoopInv /\ [Next]_vars => LoopInv'
<1> SUFFICES ASSUME LoopInv, [Next]_vars PROVE LoopInv'
  OBVIOUS
<1>0. PICK L \in Nat : L = Len(Templates)
  BY Tables
<1> DEFINE score(t) == Score(input.words, t)
<1>a. i \in 1 .. L + 1
  BY <1>0 DEF LoopInv
<1>b. i \in Int /\ 1 <= i /\ i <= L + 1
  BY <1>a
<1>1. CASE Direct
  BY <1>1 DEF LoopInv, BestSoFar, Decided, Direct
<1>2. CASE ScoreTemplate
  <2>0. i <= L /\ i' = i + 1 /\ input' = input
    BY <1>0, <1>2, Zenon DEF ScoreTemplate
  <2>a. ~ Answered'
    BY <1>2, Zenon DEF ScoreTemplate, Answered
  <2>1. /\ i \in 1 .. L /\ i' - 1 = i /\ i' \in 1 .. L + 1
        /\ 1 .. i' - 1 = 1 .. i
    BY <2>0, <1>b
  <2>2. IF score(i) > best_score
        THEN best_score' = score(i) /\ best_idx' = i
        ELSE best_score' = best_score /\ best_idx' = best_idx
    BY <1>2, Zenon DEF ScoreTemplate
  <2>3. \A t \in 1 .. L : score(t) \in Nat
    BY <1>0, ScoresOfInputs DEF LoopInv
  <2>4. BestSoFar
    BY DEF LoopInv
  <2>5. BestSoFar'
    <3> HIDE DEF score
    <3>0. \A u \in 1 .. i : u \in 1 .. L /\ (u = i \/ u \in 1 .. i - 1)
      BY <2>1
    <3>1. i \in 1 .. i /\ \A u \in 1 .. i - 1 : u \in 1 .. i
      BY <2>1
    <3>2. \A u \in 1 .. i : score(u) \in Nat
      BY <3>0, <2>3
    <3>3. CASE i = 1 /\ best_score = -1 /\ best_idx = 0
      <4>1. best_score' = score(1) /\ best_idx' = 1
        BY <2>2, <3>2, <3>3
      <4>2. 1 .. i = {1} /\ 1 .. 1 - 1 = {}
        BY <3>3
      <4>3. /\ best_idx' \in 1 .. i' - 1
            /\ best_score' = score(best_idx')
            /\ \A u \in 1 .. i' - 1 : score(u) <= best_score'
            /\ \A u \in 1 .. best_idx' - 1 : score(u) < best_score'
        BY <4>1, <4>2, <3>2, <3>3, <2>1
      <4> QED
        BY <4>3, <2>0 DEF BestSoFar, score
    <3>4. CASE /\ best_idx \in 1 .. i - 1
               /\ best_score = score(best_idx)
               /\ \A u \in 1 .. i - 1 : score(u) <= best_score
               /\ \A u \in 1 .. best_idx - 1 : score(u) < best_score
      <4>0. best_score \in Nat /\ score(i) \in Nat
        BY <3>1, <3>2, <3>4
      <4>1. CASE score(i) > best_score
        <5>1. best_score' = score(i) /\ best_idx' = i
          BY <2>2, <4>1
        <5>2. \A u \in 1 .. i - 1 : score(u) < score(i)
          BY <4>0, <4>1, <3>1, <3>2, <3>4
        <5>3. \A u \in 1 .. i : score(u) <= score(i)
          BY <5>2, <3>0, <3>1, <3>2
        <5>4. /\ best_idx' \in 1 .. i' - 1
              /\ best_score' = score(best_idx')
              /\ \A u \in 1 .. i' - 1 : score(u) <= best_score'
              /\ \A u \in 1 .. best_idx' - 1 : score(u) < best_score'
          BY <5>1, <5>2, <5>3, <3>1, <2>1
        <5> QED
          BY <5>4, <2>0 DEF BestSoFar, score
      <4>2. CASE ~ (score(i) > best_score)
        <5>1. best_score' = best_score /\ best_idx' = best_idx
          BY <2>2, <4>2
        <5>2. \A u \in 1 .. i : score(u) <= best_score
          <6>1. score(i) <= best_score
            BY <4>0, <4>2
          <6> QED
            BY <6>1, <3>0, <3>4
        <5>3. best_idx \in 1 .. i
          BY <3>1, <3>4
        <5>4. /\ best_idx' \in 1 .. i' - 1
              /\ best_score' = score(best_idx')
              /\ \A u \in 1 .. i' - 1 : score(u) <= best_score'
              /\ \A u \in 1 .. best_idx' - 1 : score(u) < best_score'
          BY <5>1, <5>2, <5>3, <3>4, <2>1
        <5> QED
          BY <5>4, <2>0 DEF BestSoFar, score
      <4> QED
        BY <4>1, <4>2
    <3> QED
      BY <2>4, <3>3, <3>4 DEF BestSoFar, score
  <2> QED
    BY <1>0, <2>0, <2>a, <2>1, <2>5 DEF LoopInv, Decided
<1>3. CASE Decide
  <2>0. i > L
    BY <1>0, <1>3, Zenon DEF Decide
  <2>1. i = L + 1
    BY <2>0, <1>b
  <2>2. BestSoFar'
    BY <1>3 DEF Decide, LoopInv, BestSoFar
  <2>3. Decided'
    BY <1>0, <1>3, <2>1, Zenon DEF Decide, Decided
  <2> QED
    BY <1>3, <2>2, <2>3 DEF Decide, LoopInv
<1>4. CASE UNCHANGED vars
  <2>1. Answered' => Answered
    BY <1>4, Zenon DEF vars, Answered
  <2> QED
    BY <1>4, <2>1 DEF LoopInv, BestSoFar, Decided, vars
<1> QED
  BY <1>1, <1>2, <1>3, <1>4 DEF Next

\* What the loop found is the first best template.
LEMMA FoundIsFirstBest == LoopInv => DecisionIsFirstBest
<1> SUFFICES ASSUME LoopInv, Answered, input.direct = "none"
             PROVE  IF FirstBest(input.words) = {} THEN answer = "none"
                    ELSE \A t \in FirstBest(input.words) : answer = Templates[t].name
  BY Zenon DEF DecisionIsFirstBest, Answered
<1>0. PICK L \in Nat : L = Len(Templates)
  BY Tables
<1> DEFINE fit(t) == Fit(input.words, t)
           norm == Norm2(input.words)
<1>1. input.words \in SUBSET Keywords
  BY ScoresOfInputs DEF LoopInv
<1>2. /\ \A t \in 1 .. L : Score(input.words, t) = fit(t) /\ fit(t) \in Nat
      /\ norm \in Nat
      /\ \A s : Activated(input.words, s) <=> s > 0 /\ s * s > 9 * norm
  BY <1>0, <1>1, ScoreIsFit DEF Activated
<1>3. /\ i = L + 1
      /\ answer = IF best_idx > 0 /\ Activated(input.words, best_score)
                  THEN Templates[best_idx].name ELSE "none"
  BY <1>0 DEF LoopInv, Decided
<1>4. \A t : t \in FirstBest(input.words) <=>
              /\ t \in 1 .. L
              /\ \A u \in 1 .. L : fit(u) <= fit(t)
              /\ \A u \in 1 .. t - 1 : fit(u) < fit(t)
              /\ fit(t) * fit(t) > 9 * norm
  BY <1>0 DEF FirstBest
<1> HIDE DEF fit, norm
<1>5. CASE i = 1 /\ best_score = -1 /\ best_idx = 0
  <2>1. 1 .. L = {}
    BY <1>0, <1>3, <1>5
  <2>2. FirstBest(input.words) = {}
    BY <1>4, <2>1
  <2>3. answer = "none"
    BY <1>3, <1>5
  <2> QED
    BY <2>2, <2>3
<1>6. CASE /\ best_idx \in 1 .. i - 1
           /\ best_score = Score(input.words, best_idx)
           /\ \A u \in 1 .. i - 1 : Score(input.words, u) <= best_score
           /\ \A u \in 1 .. best_idx - 1 : Score(input.words, u) < best_score
  <2>0. i - 1 = L
    BY <1>3
  <2>1. PICK b \in 1 .. L : b = best_idx
    BY <2>0, <1>6
  <2>2. /\ best_score = fit(b) /\ fit(b) \in Nat
        /\ \A u \in 1 .. L : fit(u) <= fit(b)
    BY <1>2, <1>6, <2>0, <2>1
  <2>3. \A u \in 1 .. b - 1 : fit(u) < fit(b)
    <3> TAKE u \in 1 .. b - 1
    <3>1. u \in 1 .. L
      OBVIOUS
    <3> QED
      BY <3>1, <1>2, <1>6, <2>1, <2>2
  \* No other template is first and best.
  <2>4. ASSUME NEW t \in FirstBest(input.words) PROVE t = b
    <3>1. /\ t \in 1 .. L /\ fit(t) \in Nat
          /\ fit(b) <= fit(t) /\ fit(t) <= fit(b)
          /\ b \in 1 .. t - 1 => fit(b) < fit(t)
          /\ t \in 1 .. b - 1 => fit(t) < fit(b)
      BY <1>2, <1>4, <2>1, <2>2, <2>3
    <3>2. b \notin 1 .. t - 1 /\ t \notin 1 .. b - 1
      BY <3>1, <2>2
    <3> QED
      BY <3>1, <3>2
  <2>5. Activated(input.words, best_score) <=> fit(b) * fit(b) > 9 * norm
    <3>1. fit(b) = 0 => ~ (fit(b) * fit(b) > 9 * norm)
      <4>1. 0 * 0 = 0 /\ \A m \in Nat : ~ (0 > 9 * m)
        OBVIOUS
      <4> QED
        BY <4>1, <1>2
    <3>2. fit(b) > 0 \/ fit(b) = 0
      BY <2>2
    <3> QED
      BY <3>1, <3>2, <1>2, <2>2
  <2>6. CASE Activated(input.words, best_score)
    <3>1. b \in FirstBest(input.words)
      BY <1>4, <2>1, <2>2, <2>3, <2>5, <2>6
    <3>2. answer = Templates[b].name
      BY <1>3, <2>1, <2>6
    <3> QED
      BY <3>1, <3>2, <2>4
  <2>7. CASE ~ Activated(input.words, best_score)
    <3>1. FirstBest(input.words) = {}
      <4>1. SUFFICES ASSUME NEW t \in FirstBest(input.words) PROVE FALSE
        OBVIOUS
      <4>2. fit(b) * fit(b) > 9 * norm
        BY <1>4, <2>4
      <4> QED
        BY <4>2, <2>5, <2>7
    <3>2. answer = "none"
      BY <1>3, <2>7
    <3> QED
      BY <3>1, <3>2
  <2> QED
    BY <2>6, <2>7
<1> QED
  BY <1>5, <1>6 DEF LoopInv, BestSoFar

\* The loop over templates answers with the first best template whenever that
\* fits more than the threshold, and with none otherwise, whatever the tables
\* and whichever words the hash throws together.
THEOREM ClassifierIsSound == Spec => []DecisionIsFirstBest
<1>1. Init => LoopInv
  <2> HAVE Init
  <2>1. 1 \in 1 .. Len(Templates) + 1
    BY Tables
  <2>2. ~ Answered
    BY Zenon DEF Init, Answered
  <2>3. input \in Inputs /\ i = 1 /\ best_score = -1 /\ best_idx = 0
    BY Zenon DEF Init
  <2> QED
    BY <2>1, <2>2, <2>3 DEF LoopInv, BestSoFar, Decided
<1>2. LoopInv /\ [Next]_vars => LoopInv'
  BY LoopInvInductive
<1>3. LoopInv => DecisionIsFirstBest
  BY FoundIsFirstBest
<1> QED
  BY <1>1, <1>2, <1>3, PTL DEF Spec
=============================================================================
