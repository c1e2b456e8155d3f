---------------------------- MODULE DataLemmas ----------------------------
(* Facts about naturals, sequences and finite sets that the proofs about   *)
(* the components share: the least element of a set of naturals, removal   *)
(* from a sequence, and sums and products over a finite set.  The latter   *)
(* are proved without induction: of the subsets for which a claim fails,   *)
(* one is smallest, and it cannot be.                                      *)
EXTENDS Integers, SequencesExt, SequenceTheorems,
        FiniteSetTheorems, WellFoundedInduction, TLAPS

(* A set of naturals that is not empty has a least element, which Min      *)
(* returns: the index arithmetic of the cache's scans rests on it.         *)
LEMMA MinOfNaturals ==
  ASSUME NEW T, T \subseteq Nat, T # {}
  PROVE  Min(T) \in T /\ \A y \in T : Min(T) <= y
<1>1. PICK x \in T : \A y \in T : ~ (<<y, x>> \in OpToRel(<, Nat))
  BY WFMin, NatLessThanWellFounded
<1>2. \A y \in T : x <= y
  <2> SUFFICES ASSUME NEW y \in T PROVE x <= y
    OBVIOUS
  <2>1. ~ (y < x)
    BY <1>1 DEF OpToRel
  <2>2. x \in Nat /\ y \in Nat
    OBVIOUS
  <2> QED BY <2>1, <2>2
<1> QED BY <1>1, <1>2 DEF Min

(* Among finitely many indices there is one at which f is greatest.        *)
LEMMA MaximumExists ==
  ASSUME NEW n \in Nat, NEW I, I \subseteq 1 .. n, I # {},
         NEW f, \A i \in I : f[i] \in Int
  PROVE  \E i \in I : \A j \in I : f[j] <= f[i]
<1> DEFINE Greatest(k) == \E i \in I \cap (1 .. k) :
                              \A j \in I \cap (1 .. k) : f[j] <= f[i]
           T == {k \in 0 .. n : I \cap (1 .. k) # {} /\ ~ Greatest(k)}
<1>1. I \cap (1 .. n) = I
  OBVIOUS
<1>2. ASSUME T # {} PROVE FALSE
  <2>1. T \subseteq Nat
    OBVIOUS
  <2>2. PICK k \in T : \A y \in T : k <= y
    <3> HIDE DEF T
    <3> QED BY <1>2, <2>1, MinOfNaturals
  <2>3. k \in 0 .. n /\ I \cap (1 .. k) # {} /\ ~ Greatest(k)
    OBVIOUS
  <2>4. k \in 1 .. n
    BY <2>3
  <2>5. k - 1 \in 0 .. n /\ k - 1 \notin T
    BY <2>2, <2>4
  <2>6. I \cap (1 .. k - 1) = {} \/ Greatest(k - 1)
    BY <2>5
  <2>7. 1 .. k = (1 .. k - 1) \cup {k}
    BY <2>4
  <2>8. CASE k \notin I
    <3>1. I \cap (1 .. k) = I \cap (1 .. k - 1)
      BY <2>7, <2>8
    <3> QED BY <2>3, <2>6, <3>1
  <2>9. CASE k \in I
    <3>1. CASE I \cap (1 .. k - 1) = {}
      <4>1. I \cap (1 .. k) = {k}
        BY <2>7, <2>9, <3>1
      <4> QED BY <2>3, <2>9, <4>1
    <3>2. CASE Greatest(k - 1)
      <4>1. PICK i \in I \cap (1 .. k - 1) :
                   \A j \in I \cap (1 .. k - 1) : f[j] <= f[i]
        BY <3>2
      <4>2. I \cap (1 .. k) = (I \cap (1 .. k - 1)) \cup {k}
        BY <2>7, <2>9
      <4>3. CASE f[k] <= f[i]
        <5>1. \A j \in I \cap (1 .. k) : f[j] <= f[i]
          BY <4>1, <4>2, <4>3
        <5>2. i \in I \cap (1 .. k)
          BY <4>2
        <5> QED BY <2>3, <5>1, <5>2
      <4>4. CASE ~ (f[k] <= f[i])
        <5>1. \A j \in I \cap (1 .. k) : f[j] <= f[k]
          BY <2>9, <4>1, <4>2, <4>4
        <5>2. k \in I \cap (1 .. k)
          BY <4>2
        <5> QED BY <2>3, <5>1, <5>2
      <4> QED BY <4>3, <4>4
    <3> QED BY <2>6, <3>1, <3>2
  <2> QED BY <2>8, <2>9
<1>3. n \notin T
  BY <1>2
<1>4. Greatest(n)
  <2>1. n \in 0 .. n
    OBVIOUS
  <2> QED BY <1>1, <1>3, <2>1
<1> QED BY <1>1, <1>4

(* Removing the element at i shortens a sequence by one and moves what     *)
(* follows it one place to the front, as Vec::remove does.                 *)
LEMMA RemoveAtProperties ==
  ASSUME NEW S, NEW s \in Seq(S), NEW i \in 1 .. Len(s)
  PROVE  /\ RemoveAt(s, i) \in Seq(S)
         /\ Len(RemoveAt(s, i)) = Len(s) - 1
         /\ \A j \in 1 .. Len(s) - 1 :
               RemoveAt(s, i)[j] = IF j < i THEN s[j] ELSE s[j + 1]
<1> DEFINE front == SubSeq(s, 1, i - 1)
           back  == SubSeq(s, i + 1, Len(s))
<1>1. Len(s) \in Nat /\ i \in Int /\ i - 1 \in Int /\ i + 1 \in Int
  BY LenProperties
<1>2. /\ front \in Seq(S)
      /\ Len(front) = i - 1
      /\ \A j \in 1 .. i - 1 : front[j] = s[j]
  <2>1. \A j \in 1 .. i - 1 : s[j] \in S
    BY ElementOfSeq, <1>1
  <2>2. /\ front \in Seq(S)
        /\ Len(front) = IF 1 <= i - 1 THEN (i - 1) - 1 + 1 ELSE 0
        /\ \A j \in 1 .. (i - 1) - 1 + 1 : front[j] = s[1 + j - 1]
    BY <2>1, <1>1, SubSeqProperties
  <2> QED BY <2>2, <1>1
<1>3. /\ back \in Seq(S)
      /\ Len(back) = Len(s) - i
      /\ \A j \in 1 .. Len(s) - i : back[j] = s[i + j]
  <2>1. \A j \in i + 1 .. Len(s) : s[j] \in S
    BY ElementOfSeq, <1>1
  <2>2. /\ back \in Seq(S)
        /\ Len(back) = IF i + 1 <= Len(s) THEN Len(s) - (i + 1) + 1 ELSE 0
        /\ \A j \in 1 .. Len(s) - (i + 1) + 1 : back[j] = s[(i + 1) + j - 1]
    BY <2>1, <1>1, SubSeqProperties
  <2> QED BY <2>2, <1>1
<1>4. RemoveAt(s, i) = front \o back
  BY DEF RemoveAt
<1> HIDE DEF front, back
<1>5. /\ front \o back \in Seq(S)
      /\ Len(front \o back) = Len(front) + Len(back)
      /\ \A j \in 1 .. Len(front) + Len(back) :
            (front \o back)[j] = IF j <= Len(front) THEN front[j]
                                 ELSE back[j - Len(front)]
  BY <1>2, <1>3, ConcatProperties
<1>6. Len(front) + Len(back) = Len(s) - 1
  BY <1>1, <1>2, <1>3
<1>7. ASSUME NEW j \in 1 .. Len(s) - 1
      PROVE  (front \o back)[j] = IF j < i THEN s[j] ELSE s[j + 1]
  <2>1. CASE j < i
    BY <2>1, <1>1, <1>2, <1>5, <1>6
  <2>2. CASE ~ (j < i)
    <3>1. j - (i - 1) \in 1 .. Len(s) - i
      BY <2>2, <1>1
    <3>2. back[j - (i - 1)] = s[i + (j - (i - 1))]
      BY <3>1, <1>3
    <3>3. i + (j - (i - 1)) = j + 1
      BY <1>1
    <3> QED BY <2>2, <3>2, <3>3, <1>1, <1>2, <1>5, <1>6
  <2> QED BY <2>1, <2>2
<1> QED BY <1>4, <1>5, <1>6, <1>7

-----------------------------------------------------------------------------
(* An element of a set: the one a fold over the set takes first.          *)
Pick(s) == CHOOSE x \in s : TRUE

(* If some subset of a finite set is bad, then one is of which no element  *)
(* can be taken away without making it good.                               *)
LEMMA LeastSubset ==
  ASSUME NEW S, IsFiniteSet(S), NEW Bad, Bad \subseteq SUBSET S, Bad # {}
  PROVE  \E s \in Bad : \A x \in s : s \ {x} \notin Bad
<1> DEFINE sizes == {Cardinality(s) : s \in Bad}
<1>1. \A s \in SUBSET S : IsFiniteSet(s) /\ Cardinality(s) \in Nat
  BY FS_Subset, FS_CardinalityType
<1>2. Min(sizes) \in sizes /\ \A n \in sizes : Min(sizes) <= n
  <2>1. sizes \subseteq Nat /\ sizes # {}
    BY <1>1
  <2> HIDE DEF sizes
  <2> QED BY <2>1, MinOfNaturals
<1>3. PICK s \in Bad : Cardinality(s) = Min(sizes)
  BY <1>2
<1>4. \A x \in s : Cardinality(s \ {x}) = Cardinality(s) - 1
  BY <1>1, FS_RemoveElement
<1>5. ASSUME NEW x \in s, s \ {x} \in Bad PROVE FALSE
  <2>1. Cardinality(s \ {x}) \in sizes
    BY <1>5
  <2>2. Cardinality(s) \in Nat
    BY <1>1
  <2> HIDE DEF sizes
  <2> QED BY <1>2, <1>3, <1>4, <2>1, <2>2
<1> QED BY <1>5

(* A fold at s: the base, or a step from the fold of what is left of s.    *)
FoldStep(fold, base, step, s) ==
    fold[s] = IF s = {} THEN base ELSE step[<<Pick(s), fold[s \ {Pick(s)}]>>]

(* Over a finite set there is a fold: it exists for subsets of up to n     *)
(* elements, and extends to those of n + 1.                                *)
LEMMA FoldExists ==
  ASSUME NEW S, IsFiniteSet(S), NEW base \in Int, NEW step \in [S \X Int -> Int]
  PROVE  \E fold \in [SUBSET S -> Int] :
            \A s \in SUBSET S : FoldStep(fold, base, step, s)
<1> USE DEF FoldStep
<1> DEFINE Good(n) == \E fold \in [SUBSET S -> Int] :
                         \A s \in SUBSET S : Cardinality(s) <= n => FoldStep(fold, base, step, s)
           Bad == {n \in Nat : ~ Good(n)}
<1>1. \A s \in SUBSET S : IsFiniteSet(s) /\ Cardinality(s) \in Nat
  BY FS_Subset, FS_CardinalityType
<1>2. \A s \in SUBSET S : s # {} => /\ Pick(s) \in s /\ Pick(s) \in S
                                    /\ s \ {Pick(s)} \in SUBSET S
                                    /\ Cardinality(s \ {Pick(s)}) = Cardinality(s) - 1
  BY <1>1, FS_RemoveElement DEF Pick
<1>3. Good(0)
  <2>1. \A s \in SUBSET S : Cardinality(s) <= 0 => s = {}
    BY <1>1, FS_EmptySet
  <2>2. [s \in SUBSET S |-> base] \in [SUBSET S -> Int]
    OBVIOUS
  <2> QED BY <2>1, <2>2
<1>4. ASSUME NEW n \in Nat, Good(n) PROVE Good(n + 1)
  <2>1. PICK fold \in [SUBSET S -> Int] :
           \A s \in SUBSET S : Cardinality(s) <= n => FoldStep(fold, base, step, s)
    BY <1>4
  <2> DEFINE more == [s \in SUBSET S |->
                        IF Cardinality(s) <= n THEN fold[s]
                        ELSE step[<<Pick(s), fold[s \ {Pick(s)}]>>]]
  <2>2. \A s \in SUBSET S : ~ (Cardinality(s) <= n) => s # {}
    <3>1. Cardinality({}) <= n
      BY FS_EmptySet
    <3> QED BY <3>1
  <2>3. more \in [SUBSET S -> Int]
    BY <1>2, <2>2
  <2>4. ASSUME NEW s \in SUBSET S, Cardinality(s) <= n + 1 PROVE FoldStep(more, base, step, s)
    <3>1. CASE s = {}
      <4>1. Cardinality(s) <= n
        BY <3>1, FS_EmptySet
      <4> QED BY <2>1, <3>1, <4>1
    <3>2. CASE s # {}
      <4>1. s \ {Pick(s)} \in SUBSET S /\ Cardinality(s \ {Pick(s)}) <= n
        BY <1>1, <1>2, <2>4, <3>2
      <4>2. more[s \ {Pick(s)}] = fold[s \ {Pick(s)}]
        BY <4>1
      <4>3. more[s] = step[<<Pick(s), fold[s \ {Pick(s)}]>>]
        BY <2>1, <3>2
      <4> QED BY <3>2, <4>2, <4>3
    <3> QED BY <3>1, <3>2
  <2> QED BY <2>3, <2>4
<1>5. Bad = {}
  <2> SUFFICES ASSUME Bad # {} PROVE FALSE
    OBVIOUS
  <2>1. PICK n \in Bad : \A m \in Bad : n <= m
    <3>1. Bad \subseteq Nat
      OBVIOUS
    <3> HIDE DEF Bad
    <3> QED BY <3>1, MinOfNaturals
  <2>2. n \in Nat /\ n # 0 /\ ~ Good(n)
    <3> HIDE DEF Good
    <3> QED BY <1>3
  <2>3. n - 1 \in Nat /\ n - 1 \notin Bad /\ (n - 1) + 1 = n
    <3> HIDE DEF Good
    <3> QED BY <2>1, <2>2
  <2> HIDE DEF Good
  <2> QED BY <1>4, <2>2, <2>3
<1>6. Good(Cardinality(S))
  <2>1. Cardinality(S) \in Nat
    BY FS_CardinalityType
  <2> HIDE DEF Good
  <2> QED BY <1>5, <2>1
<1>7. \A s \in SUBSET S : Cardinality(s) <= Cardinality(S)
  BY FS_Subset
<1> QED BY <1>6, <1>7

(* A sum over a finite set of naturals, as MapThenSumSet forms it. *)
SumEquation(term, S, sum) ==
    sum = [s \in SUBSET S |-> IF s = {} THEN 0
                              ELSE term[Pick(s)] + sum[s \ {Pick(s)}]]

(* A sum of naturals is a natural and at least each of its terms. *)
LEMMA SumOfNaturals ==
  ASSUME NEW S, IsFiniteSet(S), NEW term \in [S -> Nat],
         NEW sum, SumEquation(term, S, sum)
  PROVE  /\ sum[S] \in Nat
         /\ \A x \in S : term[x] <= sum[S]
         /\ S = {} => sum[S] = 0
         /\ \A x : S = {x} => sum[S] = term[x]
<1> DEFINE Right(s) == sum[s] \in Nat /\ \A x \in s : term[x] <= sum[s]
           Bad == {s \in SUBSET S : ~ Right(s)}
<1>1. /\ sum[{}] = 0
      /\ \A s \in SUBSET S : s # {} => /\ Pick(s) \in s
                                       /\ s \ {Pick(s)} \in SUBSET S
                                       /\ sum[s] = term[Pick(s)] + sum[s \ {Pick(s)}]
  BY DEF SumEquation, Pick
<1>2. ASSUME Bad # {} PROVE FALSE
  <2>1. PICK s \in Bad : \A x \in s : s \ {x} \notin Bad
    <3>1. Bad \subseteq SUBSET S
      OBVIOUS
    <3> HIDE DEF Bad
    <3> QED BY <1>2, <3>1, LeastSubset
  <2>2. s \in SUBSET S /\ ~ Right(s)
    OBVIOUS
  <2>3. s # {}
    <3>1. Right({})
      BY <1>1
    <3> HIDE DEF Right
    <3> QED BY <2>2, <3>1
  <2> DEFINE first == Pick(s)
             rest == sum[s \ {first}]
  <2>4. first \in s /\ s \ {first} \in SUBSET S
    BY <1>1, <2>2, <2>3
  <2>5. sum[s] = term[first] + rest
    BY <1>1, <2>2, <2>3
  <2>6. Right(s \ {first})
    BY <2>1, <2>4
  <2>7. rest \in Nat /\ \A x \in s \ {first} : term[x] <= rest
    BY <2>6
  <2>8. term[first] \in Nat /\ \A x \in s : term[x] \in Nat
    BY <2>2, <2>4
  <2> HIDE DEF first, rest
  <2>9. sum[s] \in Nat
    BY <2>5, <2>7, <2>8
  <2>10. ASSUME NEW x \in s PROVE term[x] <= sum[s]
    BY <2>5, <2>7, <2>8
  <2> QED BY <2>2, <2>9, <2>10
<1>3. Right(S)
  <2>1. S \in SUBSET S
    OBVIOUS
  <2> HIDE DEF Right
  <2> QED BY <1>2, <2>1
<1>4. ASSUME NEW x, S = {x} PROVE sum[S] = term[x]
  <2>1. Pick(S) = x /\ S \ {Pick(S)} = {} /\ term[x] \in Nat
    BY <1>4 DEF Pick
  <2> QED BY <1>1, <1>4, <2>1
<1> QED BY <1>1, <1>3, <1>4

(* There is such a sum. *)
LEMMA SumExists ==
  ASSUME NEW S, IsFiniteSet(S), NEW term \in [S -> Nat]
  PROVE  \E sum : SumEquation(term, S, sum)
<1> DEFINE step == [p \in S \X Int |-> term[p[1]] + p[2]]
<1>1. step \in [S \X Int -> Int] /\ 0 \in Int
  OBVIOUS
<1>2. PICK sum \in [SUBSET S -> Int] : \A s \in SUBSET S :
         FoldStep(sum, 0, step, s)
  <2> HIDE DEF step
  <2> QED BY <1>1, FoldExists
<1>3. \A s \in SUBSET S : s # {} => <<Pick(s), sum[s \ {Pick(s)}]>> \in S \X Int
  BY DEF Pick
<1>4. \A s \in SUBSET S :
         sum[s] = IF s = {} THEN 0 ELSE term[Pick(s)] + sum[s \ {Pick(s)}]
  BY <1>2, <1>3 DEF FoldStep
<1> QED BY <1>4 DEF SumEquation

(* A product over a finite set of numbers, as ProductSet forms it.         *)
ProductEquation(S, product) ==
    product = [s \in SUBSET S |-> IF s = {} THEN 1
                                  ELSE Pick(s) * product[s \ {Pick(s)}]]

(* There is such a product. *)
LEMMA ProductExists ==
  ASSUME NEW S, IsFiniteSet(S), S \subseteq Int
  PROVE  \E product : ProductEquation(S, product)
<1> DEFINE step == [p \in S \X Int |-> p[1] * p[2]]
<1>1. step \in [S \X Int -> Int] /\ 1 \in Int
  <2>1. \A p \in S \X Int : p[1] \in Int /\ p[2] \in Int
    OBVIOUS
  <2>2. \A p \in S \X Int : p[1] * p[2] \in Int
    BY <2>1
  <2> QED BY <2>2
<1>2. PICK product \in [SUBSET S -> Int] : \A s \in SUBSET S :
         FoldStep(product, 1, step, s)
  <2> HIDE DEF step
  <2> QED BY <1>1, FoldExists
<1>3. \A s \in SUBSET S : s # {} => <<Pick(s), product[s \ {Pick(s)}]>> \in S \X Int
  <2>1. \A s \in SUBSET S : s # {} => Pick(s) \in S /\ s \ {Pick(s)} \in SUBSET S
    BY DEF Pick
  <2> QED BY <1>2, <2>1
<1>4. \A s \in SUBSET S :
         product[s] = IF s = {} THEN 1 ELSE Pick(s) * product[s \ {Pick(s)}]
  BY <1>2, <1>3 DEF FoldStep
<1> QED BY <1>4 DEF ProductEquation

(* A product of positive numbers is a positive multiple of each of them. *)
LEMMA ProductOfPositives ==
  ASSUME NEW S, IsFiniteSet(S), S \subseteq Nat \ {0},
         NEW product, ProductEquation(S, product)
  PROVE  /\ product[S] \in Nat \ {0}
         /\ \A x \in S : \E q \in Nat \ {0} : product[S] = x * q
<1> DEFINE Right(s) == /\ product[s] \in Nat \ {0}
                       /\ \A x \in s : \E q \in Nat \ {0} : product[s] = x * q
           Bad == {s \in SUBSET S : ~ Right(s)}
<1>1. /\ product[{}] = 1
      /\ \A s \in SUBSET S : s # {} => /\ Pick(s) \in s
                                       /\ s \ {Pick(s)} \in SUBSET S
                                       /\ product[s] = Pick(s) * product[s \ {Pick(s)}]
  BY DEF ProductEquation, Pick
<1>2. ASSUME Bad # {} PROVE FALSE
  <2>1. PICK s \in Bad : \A x \in s : s \ {x} \notin Bad
    <3>1. Bad \subseteq SUBSET S
      OBVIOUS
    <3> HIDE DEF Bad
    <3> QED BY <1>2, <3>1, LeastSubset
  <2>2. s \in SUBSET S /\ ~ Right(s)
    OBVIOUS
  <2>3. s # {}
    <3>1. Right({})
      BY <1>1
    <3> HIDE DEF Right
    <3> QED BY <2>2, <3>1
  <2> DEFINE first == Pick(s)
             rest == product[s \ {Pick(s)}]
  <2>4. first \in s /\ first \in Nat \ {0} /\ s \ {first} \in SUBSET S
    BY <1>1, <2>2, <2>3
  <2>5. product[s] = first * rest
    BY <1>1, <2>2, <2>3
  <2>6. Right(s \ {first})
    BY <2>1, <2>4
  <2>7. rest \in Nat \ {0}
    BY <2>6
  <2>8. \A x \in s \ {first} : \E q \in Nat \ {0} : rest = x * q
    BY <2>6
  <2>9. product[s] \in Nat \ {0}
    <3> HIDE DEF first, rest
    <3>1. \A m, n \in Nat \ {0} : m * n \in Nat \ {0}
      OBVIOUS
    <3> QED BY <2>4, <2>5, <2>7, <3>1
  <2>10. ASSUME NEW x \in s PROVE \E q \in Nat \ {0} : product[s] = x * q
    <3>1. CASE x = first
      BY <2>5, <2>7, <3>1
    <3>2. CASE x # first
      <4>1. PICK q \in Nat \ {0} : rest = x * q
        BY <2>8, <3>2
      <4>2. x \in Nat
        BY <2>2
      <4> HIDE DEF first, rest
      <4>3. \A a, b, c \in Nat : a * (b * c) = b * (a * c)
        OBVIOUS
      <4>4. product[s] = x * (first * q)
        BY <2>4, <2>5, <4>1, <4>2, <4>3
      <4>5. first * q \in Nat \ {0}
        <5>1. \A m, n \in Nat \ {0} : m * n \in Nat \ {0}
          OBVIOUS
        <5> QED BY <2>4, <4>1, <5>1
      <4> QED BY <4>4, <4>5
    <3> QED BY <3>1, <3>2
  <2> QED BY <2>2, <2>9, <2>10
<1>3. Right(S)
  BY <1>2
<1> QED BY <1>3

(* A product grows with its factors. *)
LEMMA ProductOfLess ==
  ASSUME NEW a \in Nat, NEW b \in Nat, NEW c \in Nat, NEW d \in Nat, a <= b, c <= d
  PROVE  a * c <= b * d
<1>1. \A n \in Nat : a * n <= b * n
  OBVIOUS
<1>2. \A n \in Nat : n * c <= n * d
  OBVIOUS
<1>3. a * c \in Nat /\ a * d \in Nat /\ b * d \in Nat
  OBVIOUS
<1> QED BY <1>1, <1>2, <1>3

(* Two shares of a common multiple s of m outweigh s / m, unless the       *)
(* excesses of their divisors over m multiply to the square of m or more.  *)
LEMMA TwoSharesOutweighOne ==
  ASSUME NEW m \in Nat \ {0}, NEW x \in Nat, NEW y \in Nat, x * y < m * m,
         NEW p \in Nat \ {0}, NEW q \in Nat \ {0}, NEW s \in Nat,
         (m + x) * p = m * s, (m + y) * q = m * s
  PROVE  s < p + q
<1> SUFFICES ASSUME p + q <= s PROVE FALSE
  OBVIOUS
<1>1. \A a, b, c \in Nat : a <= b => c * a <= c * b
  OBVIOUS
<1>2. m * (p + q) <= m * s
  BY <1>1
<1>3. m * q <= x * p
  <2>1. m * (p + q) = m * p + m * q /\ (m + x) * p = m * p + x * p
    OBVIOUS
  <2>2. m * p \in Nat /\ m * q \in Nat /\ x * p \in Nat
    OBVIOUS
  <2> QED BY <1>2, <2>1, <2>2
<1>4. m * p <= y * q
  <2>1. m * (p + q) = m * p + m * q /\ (m + y) * q = m * q + y * q
    OBVIOUS
  <2>2. m * p \in Nat /\ m * q \in Nat /\ y * q \in Nat
    OBVIOUS
  <2> QED BY <1>2, <2>1, <2>2
<1>5. (m * q) * (m * p) <= (x * p) * (y * q)
  <2>1. m * q \in Nat /\ m * p \in Nat /\ x * p \in Nat /\ y * q \in Nat
    OBVIOUS
  <2> QED BY ONLY <1>3, <1>4, <2>1, ProductOfLess
<1>6. (m * m) * (p * q) <= (x * y) * (p * q)
  <2>1. \A a, b, c, d \in Nat : (a * c) * (b * d) = (a * b) * (d * c)
    OBVIOUS
  <2>2. (m * q) * (m * p) = (m * m) * (p * q) /\ (x * p) * (y * q) = (x * y) * (q * p)
    BY <2>1
  <2>3. q * p = p * q
    OBVIOUS
  <2> QED BY ONLY <1>5, <2>2, <2>3
<1>7. p * q \in Nat /\ p * q > 0 /\ m * m \in Nat /\ x * y \in Nat
  OBVIOUS
<1>8. \A a, b, c \in Nat : a < b /\ c > 0 => a * c < b * c
  OBVIOUS
<1>9. (x * y) * (p * q) < (m * m) * (p * q)
  BY ONLY <1>7, <1>8, x * y < m * m
<1>10. (x * y) * (p * q) \in Nat /\ (m * m) * (p * q) \in Nat
  BY ONLY <1>7
<1> QED BY ONLY <1>6, <1>9, <1>10
=============================================================================
