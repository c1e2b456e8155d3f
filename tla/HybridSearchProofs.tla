------------------------- MODULE HybridSearchProofs -------------------------
(***************************************************************************)
(* Proofs about HybridSearch and RankedSearch, for any table, any filters  *)
(* and any limit.  That the search returns what Retrieval says of it rests *)
(* on Scanned: the lists and the map built so far are those of some        *)
(* passes, with one row for each customer that was found.  That the        *)
(* re-ranking keeps the best rests on the order being total and stable: a  *)
(* candidate is outranked by those before it and by no other.  That what   *)
(* both passes found comes first rests on the score being a sum of shares  *)
(* of a common multiple, and on how long the two lists can be.             *)
(***************************************************************************)
EXTENDS RankedSearch, DataLemmas

(* The smaller of two numbers. *)
LEMMA MinOfTwo ==
  ASSUME NEW m \in Nat, NEW n \in Nat
  PROVE  Min({m, n}) = IF n < m THEN n ELSE m
<1>1. Min({m, n}) \in {m, n} /\ \A y \in {m, n} : Min({m, n}) <= y
  <2>1. {m, n} \subseteq Nat /\ {m, n} # {}
    OBVIOUS
  <2> QED BY <2>1, MinOfNaturals
<1> QED BY <1>1

-----------------------------------------------------------------------------
(* A list of the elements of a finite set has each of them once. *)
LEMMA Listed ==
  ASSUME NEW S, IsFiniteSet(S), NEW list \in SetToSeqs(S)
  PROVE  /\ Cardinality(S) \in Nat
         /\ list \in [1 .. Cardinality(S) -> S]
         /\ list \in Seq(S)
         /\ Len(list) = Cardinality(S)
         /\ \A i, j \in 1 .. Cardinality(S) : list[i] = list[j] => i = j
         /\ ToSet(list) = S
<1>1. Cardinality(S) \in Nat
  BY FS_CardinalityType
<1>2. /\ list \in [1 .. Cardinality(S) -> S]
      /\ \A i, j \in 1 .. Cardinality(S) : list[i] = list[j] => i = j
  BY DEF SetToSeqs
<1>3. list \in Seq(S) /\ Len(list) = Cardinality(S)
  BY <1>1, <1>2
<1>4. list \in Injection(1 .. Cardinality(S), S)
  BY <1>2 DEF Injection, IsInjective
<1>5. Cardinality(1 .. Cardinality(S)) = Cardinality(S)
  BY <1>1, FS_Interval
<1>6. list \in Surjection(1 .. Cardinality(S), S)
  BY <1>4, <1>5, FS_Injection
<1>7. ToSet(list) = S
  BY <1>2, <1>6 DEF Surjection, ToSet
<1> QED BY <1>1, <1>2, <1>3, <1>7

(* What a sequence holds after another is appended to it. *)
LEMMA ToSetConcat ==
  ASSUME NEW S, NEW s \in Seq(S), NEW t \in Seq(S)
  PROVE  ToSet(s \o t) = ToSet(s) \cup ToSet(t)
<1>1. /\ s \o t \in Seq(S)
      /\ Len(s \o t) = Len(s) + Len(t)
      /\ \A i \in 1 .. Len(s) + Len(t) :
            (s \o t)[i] = IF i <= Len(s) THEN s[i] ELSE t[i - Len(s)]
  BY ConcatProperties
<1>2. Len(s) \in Nat /\ Len(t) \in Nat /\ DOMAIN s = 1 .. Len(s) /\ DOMAIN t = 1 .. Len(t)
  OBVIOUS
<1>3. DOMAIN (s \o t) = 1 .. Len(s) + Len(t)
  BY <1>1
<1>4. \A i \in DOMAIN s : i \in DOMAIN (s \o t) /\ (s \o t)[i] = s[i]
  BY <1>1, <1>2, <1>3
<1>5. \A i \in DOMAIN t :
         Len(s) + i \in DOMAIN (s \o t) /\ (s \o t)[Len(s) + i] = t[i]
  <2> SUFFICES ASSUME NEW i \in DOMAIN t
               PROVE  Len(s) + i \in DOMAIN (s \o t) /\ (s \o t)[Len(s) + i] = t[i]
    OBVIOUS
  <2>1. Len(s) + i \in 1 .. Len(s) + Len(t) /\ ~ (Len(s) + i <= Len(s)) /\ (Len(s) + i) - Len(s) = i
    BY <1>2
  <2> QED BY <1>1, <1>3, <2>1
<1>6. \A i \in DOMAIN (s \o t) :
         (i \in DOMAIN s /\ (s \o t)[i] = s[i])
         \/ (i - Len(s) \in DOMAIN t /\ (s \o t)[i] = t[i - Len(s)])
  BY <1>1, <1>2, <1>3
<1>7. \A x \in ToSet(s \o t) : x \in ToSet(s) \cup ToSet(t)
  BY <1>6 DEF ToSet
<1>8. \A x \in ToSet(s) \cup ToSet(t) : x \in ToSet(s \o t)
  BY <1>4, <1>5 DEF ToSet
<1> QED BY <1>7, <1>8

(* The first m of a list without repetitions are m. *)
FirstOf(list, m) == {list[i] : i \in 1 .. m}

LEMMA FirstFew ==
  ASSUME NEW S, NEW n \in Nat, NEW list \in [1 .. n -> S],
         \A i, j \in 1 .. n : list[i] = list[j] => i = j,
         NEW m \in Nat, m <= n
  PROVE  IsFiniteSet(FirstOf(list, m)) /\ Cardinality(FirstOf(list, m)) = m
<1> DEFINE few == {list[i] : i \in 1 .. m}
           f == [i \in 1 .. m |-> list[i]]
<1>1. 1 .. m \subseteq 1 .. n
  OBVIOUS
<1>2. f \in Bijection(1 .. m, few)
  BY <1>1 DEF Bijection, Injection, Surjection, IsInjective
<1>3. IsFiniteSet(1 .. m) /\ Cardinality(1 .. m) = m
  BY FS_Interval
<1>4. ExistsBijection(1 .. m, few)
  BY <1>2 DEF ExistsBijection
<1>5. IsFiniteSet(few) /\ Cardinality(few) = m
  <2> HIDE DEF few, f
  <2> QED BY <1>3, <1>4, FS_Bijection
<1> QED BY <1>5 DEF FirstOf

LEMMA AllListed ==
  ASSUME NEW S, NEW n \in Nat, NEW list \in [1 .. n -> S],
         \A i, j \in 1 .. n : list[i] = list[j] => i = j
  PROVE  IsFiniteSet(ToSet(list)) /\ Cardinality(ToSet(list)) = n
<1>1. ToSet(list) = FirstOf(list, n)
  BY DEF ToSet, FirstOf
<1>2. n \in Nat /\ n <= n
  OBVIOUS
<1>3. IsFiniteSet(FirstOf(list, n)) /\ Cardinality(FirstOf(list, n)) = n
  BY ONLY <1>2, FirstFew, list \in [1 .. n -> S],
     \A i, j \in 1 .. n : list[i] = list[j] => i = j
<1> QED BY <1>1, <1>3

LEMMA BestFew ==
  ASSUME NEW S, IsFiniteSet(S), NEW list \in SetToSeqs(S)
  PROVE  Best(list) \in UpTo(SearchLimit, S)
<1> DEFINE n == Cardinality(S)
           m == IF n < SearchLimit THEN n ELSE SearchLimit
<1>1. n \in Nat /\ SearchLimit \in Nat /\ list \in [1 .. n -> S] /\ Len(list) = n
  BY Listed, RetrievalAssumption
<1>2. \A i, j \in 1 .. n : list[i] = list[j] => i = j
  BY Listed
<1>3. Min({SearchLimit, Len(list)}) = m
  BY <1>1, MinOfTwo
<1>4. Best(list) = FirstOf(list, m)
  BY <1>3 DEF Best, FirstOf
<1>5. Cardinality(FirstOf(list, m)) = m
  <2>1. m \in Nat /\ m <= n
    BY <1>1
  <2> HIDE DEF m, n
  <2> QED BY ONLY <1>1, <1>2, <2>1, FirstFew, ZenonT(30)
<1>6. Best(list) \subseteq S
  BY <1>1, <1>4 DEF FirstOf
<1> QED BY <1>4, <1>5, <1>6 DEF UpTo, kSubset

-----------------------------------------------------------------------------
(* Some rows have the ids that any of them has. *)
LEMMA IdsOfRows ==
  ASSUME NEW rows
  PROVE  /\ \A id : id \in Ids(rows) <=> \E row \in rows : row.kunnr = id
         /\ \A few : few \subseteq rows => Ids(few) \subseteq Ids(rows)
BY DEF Ids

LEMMA FiniteIds ==
  ASSUME NEW rows, IsFiniteSet(rows)
  PROVE  IsFiniteSet(Ids(rows))
<1> DEFINE f == [row \in rows |-> row.kunnr]
<1>1. f \in Surjection(rows, Ids(rows))
  BY DEF Surjection, Ids
<1> QED BY <1>1, FS_Surjection

(* The hits of a pass, each listed once: the last row of each id goes into *)
(* the map, one for each id that was hit.                                  *)
LEMMA LastHits ==
  ASSUME NEW rows, IsFiniteSet(rows), rows \subseteq Rows, NEW hits \in SetToSeqs(rows)
  PROVE  /\ IdsOf(hits) \in Seq(Ids(Rows)) /\ Len(IdsOf(hits)) = Len(hits)
         /\ ToSet(IdsOf(hits)) = Ids(rows)
         /\ LastOfEach(hits) \in OnePerId(rows)
<1> DEFINE n == Cardinality(rows)
<1>1. n \in Nat /\ hits \in [1 .. n -> rows] /\ Len(hits) = n /\ ToSet(hits) = rows
  BY Listed
<1> HIDE DEF n
<1>2. DOMAIN hits = 1 .. n
  BY <1>1
<1>3. IdsOf(hits) \in [1 .. n -> Ids(Rows)]
  BY <1>1, <1>2 DEF IdsOf, Ids
<1>4. IdsOf(hits) \in Seq(Ids(Rows)) /\ Len(IdsOf(hits)) = n
  BY <1>1, <1>3
<1>5. ToSet(IdsOf(hits)) = Ids(rows)
  BY <1>1, <1>2 DEF IdsOf, Ids, ToSet
<1>6. LastOfEach(hits) \subseteq rows
  BY <1>1, <1>2 DEF LastOfEach
<1>7. \A x, y \in LastOfEach(hits) : x.kunnr = y.kunnr => x = y
  <2> SUFFICES ASSUME NEW x \in LastOfEach(hits), NEW y \in LastOfEach(hits),
                      x.kunnr = y.kunnr
               PROVE  x = y
    OBVIOUS
  <2>1. PICK i \in 1 .. n : x = hits[i] /\ \A m \in 1 .. n : m > i => hits[m].kunnr # hits[i].kunnr
    BY <1>2 DEF LastOfEach
  <2>2. PICK j \in 1 .. n : y = hits[j] /\ \A m \in 1 .. n : m > j => hits[m].kunnr # hits[j].kunnr
    BY <1>2 DEF LastOfEach
  <2>3. ~ (j > i) /\ ~ (i > j)
    BY <2>1, <2>2
  <2>4. i = j
    BY <1>1, <2>3
  <2> QED BY <2>1, <2>2, <2>4
<1>8. ASSUME NEW row \in rows PROVE row.kunnr \in Ids(LastOfEach(hits))
  <2> DEFINE same == {i \in 1 .. n : hits[i].kunnr = row.kunnr}
             place == [i \in same |-> i]
  <2>1. same # {}
    BY <1>1, <1>2 DEF ToSet
  <2>2. PICK i \in same : \A j \in same : place[j] <= place[i]
    <3>1. same \subseteq 1 .. n /\ \A j \in same : place[j] \in Int
      BY <1>1
    <3> HIDE DEF same, place
    <3> QED BY <1>1, <2>1, <3>1, MaximumExists
  <2>3. \A m \in 1 .. n : m > i => hits[m].kunnr # hits[i].kunnr
    BY <1>1, <2>2
  <2>4. hits[i] \in LastOfEach(hits) /\ hits[i].kunnr = row.kunnr
    BY <1>2, <2>2, <2>3 DEF LastOfEach
  <2> QED BY <2>4 DEF Ids
<1>9. Ids(LastOfEach(hits)) = Ids(rows)
  BY <1>6, <1>8 DEF Ids
<1> QED BY <1>1, <1>4, <1>5, <1>6, <1>7, <1>9 DEF OnePerId

-----------------------------------------------------------------------------
(* The passes made so far: those for the filters to come found nothing yet. *)
ScansSoFar(scans) ==
    /\ scans \in [{0} \cup Positive(filters) -> SUBSET table]
    /\ scans[0] \in UpTo(SearchLimit, table)
    /\ \A i \in Positive(filters) :
          IF i < next THEN scans[i] \in UpTo(SearchLimit, Matching(table, {filters[i].term}))
                      ELSE scans[i] = {}

KeptSoFar(scans) ==
    {row \in Found(scans) :
        \E i \in DOMAIN scans :
            /\ row \in scans[i]
            /\ \A j \in i + 1 .. next - 1 : ~ Excluded(row, filters[j])}

Made(scans, chosen) ==
    /\ ScansSoFar(scans)
    /\ ToSet(dense) \cup ToSet(lexical) = Ids(Found(scans))
    /\ chosen \in OnePerId(Latest(scans))
    /\ kept = chosen \cap KeptSoFar(scans)

Scanned == pc = "filter" => \E scans, chosen : Made(scans, chosen)

AtStart == pc = "dense" => next = 1 /\ lexical = << >>

Finite == IsFiniteSet(table)

Distinct == \A i, j \in DOMAIN result : result[i] = result[j] => i = j

Outcome == pc \in {"done", "ranked"} => ToSet(result) \in SearchOutcomes(table, filters)

HybridInv == TypeOK /\ Finite /\ AtStart /\ Scanned /\ Outcome /\ Distinct

LEMMA FiltersSequence ==
  ASSUME TypeOK
  PROVE  /\ Len(filters) \in Nat /\ DOMAIN filters = 1 .. Len(filters)
         /\ next \in Nat /\ next >= 1 /\ next <= Len(filters) + 1
BY HybridAssumption DEF TypeOK

LEMMA InitHybrid == Init => HybridInv
<1> SUFFICES ASSUME Init PROVE HybridInv
  OBVIOUS
<1>1. Len(filters) \in Nat
  BY HybridAssumption DEF Init
<1>2. << >> \in Seq(Rows) /\ << >> \in Seq(Ids(Rows))
  OBVIOUS
<1>3. TypeOK
  BY <1>1, <1>2 DEF Init, TypeOK, Customers!Init
<1> QED BY <1>3 DEF Init, HybridInv, Finite, AtStart, Scanned, Outcome, Distinct

LEMMA DenseStep ==
  ASSUME HybridInv, DensePass
  PROVE  TypeOK' /\ Scanned' /\ UNCHANGED <<table, result>> /\ pc' = "filter"
<1>1. PICK near \in UpTo(SearchLimit, table) :
         \E hits \in SetToSeqs(near) : dense' = IdsOf(hits) /\ kept' = Extract({}, hits)
  BY DEF DensePass
<1>2. PICK hits \in SetToSeqs(near) : dense' = IdsOf(hits) /\ kept' = Extract({}, hits)
  BY <1>1
<1>3. near \subseteq table /\ near \subseteq Rows
  BY <1>1 DEF UpTo, kSubset, HybridInv, TypeOK
<1>4. IsFiniteSet(near)
  BY <1>3, FS_Subset DEF HybridInv, Finite
<1>5. /\ dense' \in Seq(Ids(Rows)) /\ ToSet(dense') = Ids(near)
      /\ LastOfEach(hits) \in OnePerId(near)
  BY <1>2, <1>3, <1>4, LastHits
<1>6. kept' = LastOfEach(hits) /\ kept' \subseteq near
  BY <1>2, <1>5 DEF Extract, OnePerId
<1>7. TypeOK'
  BY <1>3, <1>5, <1>6 DEF DensePass, HybridInv, TypeOK
<1> PICK scans : scans = [i \in {0} \cup Positive(filters) |-> IF i = 0 THEN near ELSE {}]
  OBVIOUS
<1>8. 0 \notin Positive(filters)
  BY FiltersSequence DEF Positive, HybridInv
<1>9. next = 1 /\ next' = 1 /\ filters' = filters /\ table' = table /\ lexical' = << >>
  BY DEF DensePass, HybridInv, AtStart
<1>10. \A i \in Positive(filters) : ~ (i < 1)
  BY FiltersSequence DEF Positive, HybridInv
<1>11. ScansSoFar(scans)'
  BY <1>1, <1>3, <1>8, <1>9, <1>10 DEF ScansSoFar
<1>12. Found(scans) = near
  BY <1>8 DEF Found
<1>13. ToSet(dense') \cup ToSet(lexical') = Ids(near)
  <2>1. ToSet(<< >>) = {}
    BY DEF ToSet
  <2> QED BY <1>5, <1>9, <2>1
<1>14. 0 \in DOMAIN scans /\ scans[0] = near /\ \A i \in DOMAIN scans : i # 0 => scans[i] = {}
  OBVIOUS
<1>15. KeptSoFar(scans)' = near
  <2>1. \A j \in 0 + 1 .. 1 - 1 : FALSE
    OBVIOUS
  <2> QED BY <1>9, <1>12, <1>14, <2>1 DEF KeptSoFar, Found
<1>16. Latest(scans) = near
  <2>1. \A j \in DOMAIN scans : j > 0 => Ids(scans[j]) = {}
    BY <1>14 DEF Ids
  <2> QED BY <1>12, <1>14, <2>1 DEF Latest
<1>17. Made(scans, LastOfEach(hits))'
  <2>1. kept' = LastOfEach(hits) \cap KeptSoFar(scans)'
    BY <1>6, <1>15
  <2>2. /\ ToSet(dense') \cup ToSet(lexical') = Ids(Found(scans))
        /\ LastOfEach(hits) \in OnePerId(Latest(scans))
    BY <1>5, <1>12, <1>13, <1>16
  <2> QED BY <1>11, <2>1, <2>2 DEF Made
<1> QED BY <1>7, <1>17 DEF DensePass, Scanned

LEMMA ExcludeStep ==
  ASSUME HybridInv, Exclude
  PROVE  TypeOK' /\ Scanned' /\ UNCHANGED <<table, result>> /\ pc' = "filter"
<1>1. /\ pc = "filter" /\ next <= Len(filters) /\ filters[next].negated
      /\ next' = next + 1 /\ UNCHANGED <<pc, table, filters, dense, lexical, result>>
      /\ kept' = {row \in kept : ~ Excluded(row, filters[next])}
  BY DEF Exclude, Pending
<1>2. TypeOK'
  BY <1>1, FiltersSequence DEF HybridInv, TypeOK
<1>3. PICK scans, chosen : Made(scans, chosen)
  BY <1>1 DEF HybridInv, Scanned
<1>4. next \notin Positive(filters) /\ Positive(filters) \subseteq Nat /\ next \in Nat /\ next >= 1
  BY <1>1, FiltersSequence DEF Positive, HybridInv
<1>5. \A i \in Positive(filters) : i < next' <=> i < next
  BY <1>1, <1>4
<1>6. ScansSoFar(scans)'
  BY <1>1, <1>3, <1>5 DEF Made, ScansSoFar
<1>7. DOMAIN scans = {0} \cup Positive(filters)
  BY <1>3 DEF Made, ScansSoFar
<1>8. \A i \in DOMAIN scans : \A row : row \in scans[i] => i < next
  <2>1. 0 < next
    BY <1>4
  <2>2. \A i \in Positive(filters) : \A row : row \in scans[i] => i < next
    BY <1>3 DEF Made, ScansSoFar
  <2> QED BY <1>7, <2>1, <2>2
<1>9. ASSUME NEW i \in DOMAIN scans, i < next
      PROVE  i + 1 .. next' - 1 = (i + 1 .. next - 1) \cup {next}
  BY <1>1, <1>4, <1>7, <1>9
<1>10. KeptSoFar(scans)' = {row \in KeptSoFar(scans) : ~ Excluded(row, filters[next])}
  BY <1>1, <1>8, <1>9 DEF KeptSoFar
<1>11. Made(scans, chosen)'
  BY <1>1, <1>3, <1>6, <1>10 DEF Made, Found, Latest
<1> QED BY <1>1, <1>2, <1>11 DEF Scanned

LEMMA MatchStep ==
  ASSUME HybridInv, Match
  PROVE  TypeOK' /\ Scanned' /\ UNCHANGED <<table, result>> /\ pc' = "filter"
<1> DEFINE terms == {filters[next].term}
<1>1. /\ pc = "filter" /\ next <= Len(filters) /\ ~ filters[next].negated
      /\ next' = next + 1 /\ UNCHANGED <<pc, table, filters, dense, result>>
  BY DEF Match, Pending
<1> PICK rows \in UpTo(SearchLimit, Matching(table, terms)) :
         \E hits \in SetToSeqs(rows) :
            lexical' = lexical \o IdsOf(hits) /\ kept' = Extract(kept, hits)
  BY DEF Match
<1>2. PICK hits \in SetToSeqs(rows) :
         lexical' = lexical \o IdsOf(hits) /\ kept' = Extract(kept, hits)
  OBVIOUS
<1>3. rows \subseteq table /\ rows \subseteq Rows
  BY <1>2 DEF UpTo, kSubset, Matching, HybridInv, TypeOK
<1>4. IsFiniteSet(rows)
  BY <1>3, FS_Subset DEF HybridInv, Finite
<1>5. /\ IdsOf(hits) \in Seq(Ids(Rows)) /\ ToSet(IdsOf(hits)) = Ids(rows)
      /\ LastOfEach(hits) \in OnePerId(rows)
  BY <1>3, <1>4, LastHits
<1>6. lexical \in Seq(Ids(Rows)) /\ LastOfEach(hits) \subseteq rows
  BY <1>5 DEF HybridInv, TypeOK, OnePerId
<1>7. lexical' \in Seq(Ids(Rows)) /\ kept' \subseteq kept \cup rows
  BY <1>2, <1>5, <1>6 DEF Extract
<1>8. next' \in 1 .. Len(filters) + 1
  BY <1>1, FiltersSequence DEF HybridInv
<1>9. TypeOK'
  BY <1>1, <1>2, <1>3, <1>5, <1>7, <1>8 DEF HybridInv, TypeOK
<1>10. ToSet(lexical') = ToSet(lexical) \cup Ids(rows)
  <2>1. ToSet(lexical \o IdsOf(hits)) = ToSet(lexical) \cup ToSet(IdsOf(hits))
    BY <1>5, <1>6, ToSetConcat
  <2> QED BY <1>2, <1>5, <2>1
<1>11. PICK scans, chosen : Made(scans, chosen)
  BY <1>1 DEF HybridInv, Scanned
<1>12. /\ DOMAIN scans = {0} \cup Positive(filters)
       /\ scans \in [{0} \cup Positive(filters) -> SUBSET table]
  BY <1>11 DEF Made, ScansSoFar
<1>13. next \in Positive(filters) /\ Positive(filters) \subseteq Nat \ {0} /\ next \in Nat \ {0}
  BY <1>1, FiltersSequence DEF Positive, HybridInv
<1> PICK more : more = [scans EXCEPT ![next] = rows]
  OBVIOUS
<1>14. /\ DOMAIN more = DOMAIN scans /\ more[next] = rows /\ scans[next] = {}
       /\ \A i \in DOMAIN scans : i # next => more[i] = scans[i]
  BY <1>11, <1>12, <1>13 DEF Made, ScansSoFar
<1>15. more \in [{0} \cup Positive(filters) -> SUBSET table]
  BY <1>3, <1>12
<1>16. ScansSoFar(more)'
  <2>1. \A i \in Positive(filters) : i < next' <=> i < next \/ i = next
    BY <1>1, <1>13
  <2>2. more[0] = scans[0]
    BY <1>12, <1>13, <1>14
  <2> QED BY <1>1, <1>2, <1>11, <1>12, <1>13, <1>14, <1>15, <2>1, <2>2
             DEF Made, ScansSoFar
<1>17. Found(more) = Found(scans) \cup rows
  BY <1>12, <1>13, <1>14 DEF Found
<1>18. KeptSoFar(more)' = KeptSoFar(scans) \cup rows
  <2>1. \A i \in DOMAIN scans : \A row : row \in scans[i] => i < next
    <3>1. 0 < next
      BY <1>13
    <3>2. \A i \in Positive(filters) : \A row : row \in scans[i] => i < next
      BY <1>11 DEF Made, ScansSoFar
    <3> QED BY <1>12, <3>1, <3>2
  <2>2. ASSUME NEW i \in DOMAIN scans, i < next
        PROVE  i + 1 .. next' - 1 = (i + 1 .. next - 1) \cup {next}
    BY <1>1, <1>12, <1>13, <2>2
  <2>3. next + 1 .. next' - 1 = {}
    BY <1>1, <1>13
  <2>4. \A row : ~ Excluded(row, filters[next])
    BY <1>1 DEF Excluded
  <2>5. \A row \in rows : row \in KeptSoFar(more)'
    BY <1>13, <1>14, <1>12, <1>17, <2>3 DEF KeptSoFar, Found
  <2>6. \A row \in KeptSoFar(scans) : row \in KeptSoFar(more)'
    <3> SUFFICES ASSUME NEW row \in KeptSoFar(scans) PROVE row \in KeptSoFar(more)'
      OBVIOUS
    <3>1. PICK i \in DOMAIN scans :
             row \in scans[i] /\ \A j \in i + 1 .. next - 1 : ~ Excluded(row, filters[j])
      BY DEF KeptSoFar
    <3>2. i < next /\ row \in more[i] /\ i \in DOMAIN more
      BY <1>14, <2>1, <3>1
    <3>3. \A j \in i + 1 .. next' - 1 : ~ Excluded(row, filters'[j])
      BY <1>1, <2>2, <2>4, <3>1, <3>2
    <3> QED BY <3>2, <3>3 DEF KeptSoFar, Found
  <2>7. \A row \in KeptSoFar(more)' : row \in KeptSoFar(scans) \cup rows
    <3> SUFFICES ASSUME NEW row \in KeptSoFar(more)', row \notin rows
                 PROVE  row \in KeptSoFar(scans)
      OBVIOUS
    <3>1. PICK i \in DOMAIN more :
             row \in more[i] /\ \A j \in i + 1 .. next' - 1 : ~ Excluded(row, filters'[j])
      BY DEF KeptSoFar
    <3>2. i \in DOMAIN scans /\ row \in scans[i] /\ i < next
      BY <1>14, <2>1, <3>1
    <3>3. \A j \in i + 1 .. next - 1 : ~ Excluded(row, filters[j])
      BY <1>1, <2>2, <3>1, <3>2
    <3> QED BY <3>2, <3>3 DEF KeptSoFar, Found
  <2> QED BY <2>5, <2>6, <2>7
<1> DEFINE latest == {row \in chosen : row.kunnr \notin Ids(rows)} \cup LastOfEach(hits)
<1>19. Latest(more) = {row \in Latest(scans) : row.kunnr \notin Ids(rows)} \cup rows
  <2>1. \A i \in Positive(filters) : i > next => scans[i] = {}
    <3>1. \A i \in Positive(filters) : ~ (i < next) => scans[i] = {}
      BY <1>11 DEF Made, ScansSoFar
    <3>2. \A i \in Nat, n \in Nat : i > n => ~ (i < n)
      OBVIOUS
    <3> QED BY <1>13, <3>1, <3>2
  <2>2. \A i \in DOMAIN more : i > next => more[i] = {}
    BY <1>12, <1>13, <1>14, <2>1
  <2>3. ASSUME NEW row \in rows PROVE row \in Latest(more)
    <3>1. row \in more[next] /\ next \in DOMAIN more
      BY <1>12, <1>13, <1>14
    <3>2. \A j \in DOMAIN more : j > next => row.kunnr \notin Ids(more[j])
      BY <2>2 DEF Ids
    <3> QED BY <3>1, <3>2 DEF Latest, Found
  <2>4. ASSUME NEW row \in Latest(scans), row.kunnr \notin Ids(rows)
        PROVE  row \in Latest(more)
    <3>1. PICK i \in DOMAIN scans :
             row \in scans[i] /\ \A j \in DOMAIN scans : j > i => row.kunnr \notin Ids(scans[j])
      BY DEF Latest
    <3>2. i # next
      BY <1>14, <3>1
    <3>3. row \in more[i] /\ i \in DOMAIN more
      BY <1>14, <3>1, <3>2
    <3>4. \A j \in DOMAIN more : j > i => row.kunnr \notin Ids(more[j])
      BY <1>14, <2>4, <3>1
    <3> QED BY <3>3, <3>4 DEF Latest, Found
  <2>5. ASSUME NEW row \in Latest(more), row \notin rows
        PROVE  row \in Latest(scans) /\ row.kunnr \notin Ids(rows)
    <3>1. PICK i \in DOMAIN more :
             row \in more[i] /\ \A j \in DOMAIN more : j > i => row.kunnr \notin Ids(more[j])
      BY DEF Latest
    <3>2. i \in DOMAIN scans /\ i # next /\ row \in scans[i]
      BY <1>14, <2>5, <3>1
    <3>3. i < next
      BY <1>12, <1>13, <2>2, <3>1, <3>2
    <3>4. row.kunnr \notin Ids(rows)
      BY <1>12, <1>13, <1>14, <3>1, <3>3
    <3>5. \A j \in DOMAIN scans : j > i => row.kunnr \notin Ids(scans[j])
      <4>1. Ids(scans[next]) = {}
        BY <1>14 DEF Ids
      <4> QED BY <1>14, <3>1, <4>1
    <3> QED BY <3>2, <3>4, <3>5 DEF Latest, Found
  <2> QED BY <2>3, <2>4, <2>5
<1>20. latest \in OnePerId(Latest(more))
  <2>1. /\ chosen \subseteq Latest(scans) /\ Ids(chosen) = Ids(Latest(scans))
        /\ \A x, y \in chosen : x.kunnr = y.kunnr => x = y
    BY <1>11 DEF Made, OnePerId
  <2>2. /\ LastOfEach(hits) \subseteq rows /\ Ids(LastOfEach(hits)) = Ids(rows)
        /\ \A x, y \in LastOfEach(hits) : x.kunnr = y.kunnr => x = y
    BY <1>5 DEF OnePerId
  <2>3. latest \subseteq Latest(more)
    BY <1>19, <2>1, <2>2
  <2>4. \A row \in LastOfEach(hits) : row.kunnr \in Ids(rows)
    BY <2>2 DEF Ids
  <2>5. \A x, y \in latest : x.kunnr = y.kunnr => x = y
    BY <2>1, <2>2, <2>4
  <2>6. \A row \in Latest(more) : row.kunnr \in Ids(latest)
    <3> SUFFICES ASSUME NEW row \in Latest(more) PROVE row.kunnr \in Ids(latest)
      OBVIOUS
    <3>1. CASE row.kunnr \in Ids(rows)
      <4>1. PICK last \in LastOfEach(hits) : last.kunnr = row.kunnr
        BY <2>2, <3>1, IdsOfRows
      <4> QED BY <4>1 DEF Ids
    <3>2. CASE row.kunnr \notin Ids(rows)
      <4>1. row \in Latest(scans)
        BY <1>19, <3>2 DEF Ids
      <4>2. PICK one \in chosen : one.kunnr = row.kunnr
        BY <2>1, <4>1, IdsOfRows
      <4> QED BY <3>2, <4>2 DEF Ids
    <3> QED BY <3>1, <3>2
  <2>7. Ids(latest) = Ids(Latest(more))
    BY <2>3, <2>6 DEF Ids
  <2> HIDE DEF latest
  <2> QED BY <2>3, <2>5, <2>7 DEF OnePerId
<1>21. kept' = latest \cap (KeptSoFar(scans) \cup rows)
  <2>1. kept' = {row \in kept : row.kunnr \notin Ids(rows)} \cup LastOfEach(hits)
    BY <1>2, <1>5 DEF Extract
  <2>2. kept = chosen \cap KeptSoFar(scans)
    BY <1>11 DEF Made
  <2>3. \A row \in rows : row.kunnr \in Ids(rows)
    BY DEF Ids
  <2> QED BY <1>6, <2>1, <2>2, <2>3
<1>22. Made(more, latest)'
  <2>1. Ids(Found(more)) = Ids(Found(scans)) \cup Ids(rows)
    BY <1>17 DEF Ids
  <2>2. ToSet(dense') \cup ToSet(lexical') = Ids(Found(more))
    BY <1>1, <1>10, <1>11, <2>1 DEF Made
  <2> HIDE DEF latest
  <2> QED BY <1>16, <1>18, <1>20, <1>21, <2>2 DEF Made, Found, Latest
<1> QED BY <1>1, <1>9, <1>22 DEF Scanned

LEMMA FuseStep ==
  ASSUME HybridInv, Fuse
  PROVE  TypeOK' /\ Outcome' /\ Distinct' /\ table' = table /\ pc' = "done"
<1>1. pc = "filter" /\ next = Len(filters) + 1 /\ pc' = "done"
      /\ kept' = kept \ ToSet(result') /\ UNCHANGED <<table, filters, next, dense, lexical>>
  BY FiltersSequence DEF Fuse, HybridInv
<1>2. PICK scans, chosen : Made(scans, chosen)
  BY <1>1 DEF HybridInv, Scanned
<1>3. ToSet(dense) \cup ToSet(lexical) = Ids(Found(scans))
  BY <1>2 DEF Made
<1>4. PICK fused \in SetToSeqs(Ids(Found(scans))) :
         \E ids \in SetToSeqs(Best(fused) \cap Ids(kept)) :
            result' = [i \in DOMAIN ids |-> Chunk(ids[i])]
  BY <1>3 DEF Fuse, Ranking
<1> PICK ids \in SetToSeqs(Best(fused) \cap Ids(kept)) :
         result' = [i \in DOMAIN ids |-> Chunk(ids[i])]
  BY <1>4
<1>5. Found(scans) \subseteq table /\ table \subseteq Rows
  BY <1>2 DEF Found, Made, ScansSoFar, HybridInv, TypeOK
<1>6. IsFiniteSet(Ids(Found(scans)))
  <2>1. IsFiniteSet(Found(scans))
    BY <1>5, FS_Subset DEF HybridInv, Finite
  <2> QED BY <2>1, FiniteIds
<1>7. Best(fused) \in UpTo(SearchLimit, Ids(Found(scans)))
  BY <1>6, BestFew
<1> DEFINE few == Best(fused) \cap Ids(kept)
           n == Cardinality(few)
<1>8. Best(fused) \subseteq Ids(Found(scans))
  BY <1>7 DEF UpTo, kSubset
<1>9. IsFiniteSet(few)
  BY <1>6, <1>8, FS_Subset
<1>10. /\ n \in Nat /\ ids \in [1 .. n -> few] /\ DOMAIN ids = 1 .. n /\ ToSet(ids) = few
       /\ \A i, j \in 1 .. n : ids[i] = ids[j] => i = j
  BY <1>4, <1>9, Listed
<1> HIDE DEF n
<1>11. \A id \in few : Chunk(id) \in kept /\ Chunk(id).kunnr = id
  <2> SUFFICES ASSUME NEW id \in few PROVE Chunk(id) \in kept /\ Chunk(id).kunnr = id
    OBVIOUS
  <2>1. \E row \in kept : row.kunnr = id
    BY DEF Ids
  <2> QED BY <2>1 DEF Chunk
<1> HIDE DEF few
<1>12. DOMAIN result' = 1 .. n /\ \A i \in 1 .. n : result'[i] = Chunk(ids[i]) /\ ids[i] \in few
  BY <1>4, <1>10
<1>13. Distinct'
  BY <1>10, <1>11, <1>12 DEF Distinct
<1>14. TypeOK'
  <2>1. result' \in [1 .. n -> Rows]
    BY <1>4, <1>10, <1>11, <1>12 DEF HybridInv, TypeOK
  <2>2. result' \in Seq(Rows)
    BY <1>10, <2>1
  <2> QED BY <1>1, <2>2 DEF HybridInv, TypeOK
<1>15. /\ Positive(filters) \subseteq 1 .. Len(filters)
       /\ \A i \in Positive(filters) : i < next
  BY <1>1, FiltersSequence DEF Positive, HybridInv
<1>16. scans \in Scans(table, filters)
  BY <1>2, <1>15 DEF Scans, Made, ScansSoFar
<1>17. kept = chosen \cap Kept(scans, filters) /\ chosen \in OnePerId(Latest(scans))
  <2>1. next - 1 = Len(filters)
    BY <1>1, FiltersSequence DEF HybridInv
  <2> QED BY <1>2, <2>1 DEF Made, KeptSoFar, Kept
<1>18. ToSet(result') = {row \in chosen \cap Kept(scans, filters) : row.kunnr \in Best(fused)}
  <2>1. \A x, y \in kept : x.kunnr = y.kunnr => x = y
    BY <1>17 DEF OnePerId
  <2>2. ASSUME NEW row \in kept, row.kunnr \in Best(fused)
        PROVE  row \in ToSet(result')
    <3>1. row.kunnr \in few
      BY <2>2 DEF few, Ids
    <3>2. PICK i \in 1 .. n : ids[i] = row.kunnr
      BY <1>10, <3>1 DEF ToSet
    <3>3. result'[i] = row
      BY <1>11, <1>12, <2>1, <3>1, <3>2
    <3> QED BY <1>12, <3>3 DEF ToSet
  <2>3. ASSUME NEW row \in ToSet(result')
        PROVE  row \in kept /\ row.kunnr \in Best(fused)
    <3>1. PICK i \in 1 .. n : result'[i] = row
      BY <1>12 DEF ToSet
    <3>2. row = Chunk(ids[i]) /\ ids[i] \in few
      BY <1>12, <3>1
    <3> QED BY <1>11, <3>2 DEF few
  <2> QED BY <1>17, <2>2, <2>3
<1>19. Outcome'
  BY <1>1, <1>7, <1>16, <1>17, <1>18 DEF Outcome, SearchOutcomes
<1> QED BY <1>1, <1>13, <1>14, <1>19

(* The steps of the search, and those of the re-ranking, keep it all. *)
LEMMA HybridKept ==
  ASSUME HybridInv, Next \/ (\E stage \in {"ranked", "failed"} : Becomes(stage))
  PROVE  HybridInv'
<1> USE DEF HybridInv
<1>1. CASE OpenFails
  BY <1>1 DEF OpenFails, TypeOK, Finite, AtStart, Scanned, Outcome, Distinct
<1>2. CASE DensePass
  BY <1>2, DenseStep DEF Finite, AtStart, Outcome, Distinct
<1>3. CASE Exclude
  BY <1>3, ExcludeStep DEF Finite, AtStart, Outcome, Distinct
<1>4. CASE Match
  BY <1>4, MatchStep DEF Finite, AtStart, Outcome, Distinct
<1>5. CASE Fuse
  BY <1>5, FuseStep DEF Finite, AtStart, Scanned
<1>6. CASE Stop
  BY <1>6 DEF Stop, vars, TypeOK, Finite, AtStart, Scanned, Outcome, Distinct
<1>7. CASE \E stage \in {"ranked", "failed"} : Becomes(stage)
  BY <1>7 DEF Becomes, TypeOK, Finite, AtStart, Scanned, Outcome, Distinct
<1> QED BY <1>1, <1>2, <1>3, <1>4, <1>5, <1>6, <1>7 DEF Next

LEMMA RankingSteps ==
  NextRanked => Next \/ (\E stage \in {"ranked", "failed"} : Becomes(stage))
BY DEF NextRanked, SearchStep, SkipRanking, Rerank, RerankFails

LEMMA HybridStep ==
  ASSUME HybridInv, [NextRanked]_<<vars, rankingVars>>
  PROVE  HybridInv'
<1> SUFFICES ASSUME UNCHANGED <<vars, rankingVars>> PROVE HybridInv'
  BY HybridKept, RankingSteps
<1>1. vars' = vars
  OBVIOUS
<1>2. TypeOK' /\ Finite' /\ AtStart' /\ Outcome' /\ Distinct'
  BY <1>1 DEF vars, HybridInv, TypeOK, Finite, AtStart, Outcome, Distinct
<1>3. Scanned'
  BY <1>1 DEF vars, HybridInv, Scanned, Made, ScansSoFar, KeptSoFar, Found, Latest
<1> QED BY <1>2, <1>3 DEF HybridInv

LEMMA HybridAlways == SpecRanked => []HybridInv
<1>1. InitRanked => HybridInv
  BY InitHybrid DEF InitRanked
<1>2. HybridInv /\ [NextRanked]_<<vars, rankingVars>> => HybridInv'
  BY HybridStep
<1> QED BY <1>1, <1>2, PTL DEF SpecRanked

(* Type correctness of the search, for any table, filters and limit.       *)
THEOREM HybridTypeCorrect == SpecRanked => []TypeOK
<1>1. HybridInv => TypeOK
  BY DEF HybridInv
<1> QED BY <1>1, HybridAlways, PTL

(* The search returns, as a set, what Retrieval describes: the semantic    *)
(* pipeline, which is checked against that description, may rely on it.    *)
THEOREM ResultDescribed == SpecRanked => []ResultAsDescribed
<1>1. HybridInv => ResultAsDescribed
  BY DEF HybridInv, Outcome, ResultAsDescribed
<1> QED BY <1>1, HybridAlways, PTL

(* Whatever the search returns, a row that is excluded is only there       *)
(* because a later positive filter found it again.                         *)
THEOREM ExcludedFoundAgain == SpecRanked => []ExcludedOnlyIfFoundAgain
<1>1. HybridInv => ExcludedOnlyIfFoundAgain
  <2> SUFFICES ASSUME HybridInv, pc = "done", NEW row \in ToSet(result),
                      NEW i \in DOMAIN filters, Excluded(row, filters[i])
               PROVE  \E j \in i + 1 .. Len(filters) :
                         ~ filters[j].negated /\ filters[j].term \in Sentence(row)
    BY DEF ExcludedOnlyIfFoundAgain
  <2>1. PICK scans \in Scans(table, filters) : row \in Kept(scans, filters)
    <3>1. PICK scans \in Scans(table, filters) :
             \E chosen, few : ToSet(result) =
                {x \in chosen \cap Kept(scans, filters) : x.kunnr \in few}
      BY DEF HybridInv, Outcome, SearchOutcomes
    <3> QED BY <3>1
  <2>2. PICK k \in DOMAIN scans :
           row \in scans[k] /\ \A j \in k + 1 .. Len(filters) : ~ Excluded(row, filters[j])
    BY <2>1 DEF Kept
  <2>3. i \in 1 .. Len(filters) /\ Len(filters) \in Nat
    BY FiltersSequence DEF HybridInv
  <2>4. k \in {0} \cup Positive(filters) /\ Positive(filters) \subseteq 1 .. Len(filters)
    BY <2>1, FiltersSequence DEF Scans, Positive, HybridInv
  <2>5. i \notin k + 1 .. Len(filters) /\ k \in Int
    BY <2>2, <2>3, <2>4
  <2>6. i <= k
    BY <2>3, <2>5
  <2>7. k \in Positive(filters) /\ ~ filters[k].negated /\ filters[i].negated
    BY <2>3, <2>4, <2>6 DEF Positive, Excluded
  <2>8. k \in i + 1 .. Len(filters)
    <3>1. k # i
      BY <2>7
    <3> QED BY <2>3, <2>4, <2>6, <2>7, <3>1
  <2>9. row \in Matching(table, {filters[k].term})
    BY <2>1, <2>2, <2>7 DEF Scans, UpTo, kSubset
  <2> QED BY <2>7, <2>8, <2>9 DEF Matching
<1> QED BY <1>1, HybridAlways, PTL

-----------------------------------------------------------------------------
(* The larger of two numbers. *)
LEMMA MaxOfTwo ==
  ASSUME NEW m \in Nat, NEW n \in Nat
  PROVE  Max({m, n}) = IF n < m THEN m ELSE n
<1>1. \E x \in {m, n} : \A y \in {m, n} : x >= y
  <2>1. CASE n < m
    BY <2>1
  <2>2. CASE ~ (n < m)
    BY <2>2
  <2> QED BY <2>1, <2>2
<1>2. Max({m, n}) \in {m, n} /\ \A y \in {m, n} : Max({m, n}) >= y
  BY <1>1 DEF Max
<1> QED BY <1>2

(* The longer list. *)
LEMMA LongestList ==
  ASSUME TypeOK
  PROVE  /\ Len(dense) \in Nat /\ Len(lexical) \in Nat /\ Longest \in Nat
         /\ Len(dense) <= Longest /\ Len(lexical) <= Longest
<1>1. Len(dense) \in Nat /\ Len(lexical) \in Nat
  BY DEF TypeOK
<1> QED BY <1>1, MaxOfTwo DEF Longest

(* The common denominator is a multiple of each of the denominators. *)
LEMMA CommonMultiple ==
  ASSUME TypeOK
  PROVE  /\ Denominator \in Nat \ {0}
         /\ \A rank \in 1 .. Longest :
               \E q \in Nat \ {0} : Denominator = (FusionK + rank) * q
<1> DEFINE S == {FusionK + rank : rank \in 1 .. Longest}
<1>1. FusionK \in Nat /\ Longest \in Nat
  BY HybridAssumption, LongestList
<1>2. S \subseteq Nat \ {0} /\ S \subseteq Int
  BY <1>1
<1>3. IsFiniteSet(S)
  <2>1. S \subseteq 0 .. FusionK + Longest
    BY <1>1
  <2>2. IsFiniteSet(0 .. FusionK + Longest)
    BY <1>1, FS_Interval
  <2> HIDE DEF S
  <2> QED BY <2>1, <2>2, FS_Subset
<1> DEFINE product == CHOOSE g : ProductEquation(S, g)
<1>4. Denominator = product[S]
  BY DEF Denominator, ProductSet, FoldSet, MapThenFoldSet, ProductEquation, Pick
<1>5. ProductEquation(S, product)
  <2> HIDE DEF S
  <2> QED BY <1>2, <1>3, ProductExists
<1>6. /\ product[S] \in Nat \ {0}
      /\ \A x \in S : \E q \in Nat \ {0} : product[S] = x * q
  <2> HIDE DEF S, product
  <2> QED BY <1>2, <1>3, <1>5, ProductOfPositives
<1> QED
  <2>1. \A rank \in 1 .. Longest : FusionK + rank \in S
    OBVIOUS
  <2> HIDE DEF S, product
  <2> QED BY <1>4, <1>6, <2>1

(* What a place in a list is worth. *)
Worth(rank) == Denominator \div (FusionK + rank)

(* A list gives an id what its place is worth; if it has several, at least *)
(* what each of them is.                                                   *)
LEMMA ScoreOfPlaces ==
  ASSUME TypeOK, NEW list \in {dense, lexical}, NEW id
  PROVE  /\ ScoreIn(list, id) \in Nat
         /\ IsFiniteSet(Places(list, id))
         /\ Places(list, id) \subseteq 1 .. Longest
         /\ \A i \in Places(list, id) : Worth(i) <= ScoreIn(list, id)
         /\ Places(list, id) = {} => ScoreIn(list, id) = 0
         /\ \A i : Places(list, id) = {i} => ScoreIn(list, id) = Worth(i)
<1> DEFINE S == Places(list, id)
           term == [i \in S |-> Worth(i)]
           Raw(g) == g = [s \in SUBSET S |-> IF s = {} THEN 0
                               ELSE Denominator \div (FusionK + Pick(s)) + g[s \ {Pick(s)}]]
           sum == CHOOSE g : Raw(g)
<1>1. FusionK \in Nat /\ Longest \in Nat /\ Len(list) \in Nat /\ Len(list) <= Longest
  BY HybridAssumption, LongestList
<1>2. S \subseteq 1 .. Len(list)
  BY DEF Places, TypeOK
<1>3. S \subseteq 1 .. Longest
  BY <1>1, <1>2
<1>4. IsFiniteSet(S)
  <2>1. IsFiniteSet(1 .. Longest)
    BY <1>1, FS_Interval
  <2> HIDE DEF S
  <2> QED BY <1>3, <2>1, FS_Subset
<1>5. term \in [S -> Nat]
  <2>1. \A i \in 1 .. Longest : FusionK + i \in Nat \ {0}
    BY <1>1
  <2>2. \A m \in Nat, n \in Nat \ {0} : m \div n \in Nat
    OBVIOUS
  <2>3. \A i \in 1 .. Longest : Worth(i) \in Nat
    BY <2>1, <2>2, CommonMultiple DEF Worth
  <2> HIDE DEF S
  <2> QED BY <1>3, <2>3
<1>6. ScoreIn(list, id) = sum[S]
  BY DEF ScoreIn, MapThenSumSet, MapThenFoldSet, Pick
<1>7. \A g : Raw(g) <=> SumEquation(term, S, g)
  <2>1. \A s \in SUBSET S : s # {} => Pick(s) \in S
    BY DEF Pick
  <2>2. \A s \in SUBSET S : s # {} => term[Pick(s)] = Denominator \div (FusionK + Pick(s))
    BY <2>1 DEF Worth
  <2> HIDE DEF S, term
  <2> QED BY <2>2 DEF SumEquation
<1>8. SumEquation(term, S, sum)
  <2>1. \E g : SumEquation(term, S, g)
    <3> HIDE DEF S, term
    <3> QED BY <1>4, <1>5, SumExists
  <2>2. \E g : Raw(g)
    <3> HIDE DEF S, term, Raw
    <3> QED BY <1>7, <2>1
  <2>3. Raw(sum)
    <3> HIDE DEF S, term, Raw
    <3> QED BY <2>2
  <2> HIDE DEF S, term, Raw, sum
  <2> QED BY <1>7, <2>3
<1>9. /\ sum[S] \in Nat
      /\ \A x \in S : term[x] <= sum[S]
      /\ S = {} => sum[S] = 0
      /\ \A x : S = {x} => sum[S] = term[x]
  <2> HIDE DEF S, term, Raw, sum
  <2> QED BY <1>4, <1>5, <1>8, SumOfNaturals
<1>10. \A i \in S : term[i] = Worth(i)
  OBVIOUS
<1> QED
  <2> HIDE DEF term, Raw, sum
  <2> QED BY <1>3, <1>4, <1>6, <1>9, <1>10

(* How long the two lists may be for two places, even the last of each, to *)
(* be worth more than one, even the first: 1/(k + d) + 1/(k + l) > 1/(k+1). *)
ListsFit == (Len(dense) - 1) * (Len(lexical) - 1) < (FusionK + 1) * (FusionK + 1)

(* Then what both passes found scores more than anything found once.       *)
LEMMA DualOutscores ==
  ASSUME TypeOK, ListsFit, NEW x, NEW y,
         x \in ToSet(dense) \cap ToSet(lexical), Hits(y) = 1
  PROVE  Score(x) \in Nat /\ Score(y) \in Nat /\ Score(y) < Score(x)
<1>1. FusionK \in Nat /\ Longest \in Nat /\ Denominator \in Nat \ {0}
  BY HybridAssumption, LongestList, CommonMultiple
<1>2. \A i \in 1 .. Longest : Worth(i) \in Nat
  <2>1. \A m \in Nat, n \in Nat \ {0} : m \div n \in Nat
    OBVIOUS
  <2> QED BY <1>1, <2>1 DEF Worth
<1>3. PICK a \in Places(dense, x) : TRUE
  BY DEF ToSet, Places
<1>4. PICK b \in Places(lexical, x) : TRUE
  BY DEF ToSet, Places
<1>5. /\ a \in 1 .. Longest /\ b \in 1 .. Longest
      /\ ScoreIn(dense, x) \in Nat /\ Worth(a) <= ScoreIn(dense, x)
      /\ ScoreIn(lexical, x) \in Nat /\ Worth(b) <= ScoreIn(lexical, x)
  BY <1>3, <1>4, ScoreOfPlaces
<1>6. \E c \in 1 .. Longest : Score(y) = Worth(c)
  <2>1. /\ IsFiniteSet(Places(dense, y)) /\ IsFiniteSet(Places(lexical, y))
        /\ Places(dense, y) \subseteq 1 .. Longest /\ Places(lexical, y) \subseteq 1 .. Longest
    BY ScoreOfPlaces
  <2>2. Cardinality(Places(dense, y)) \in Nat /\ Cardinality(Places(lexical, y)) \in Nat
    BY <2>1, FS_CardinalityType
  <2>3. Cardinality(Places(dense, y)) + Cardinality(Places(lexical, y)) = 1
    BY DEF Hits
  <2>4. CASE Cardinality(Places(dense, y)) = 1 /\ Cardinality(Places(lexical, y)) = 0
    <3>1. Places(lexical, y) = {} /\ \E c : Places(dense, y) = {c}
      BY <2>1, <2>4, FS_EmptySet, FS_Singleton
    <3>2. PICK c : Places(dense, y) = {c}
      BY <3>1
    <3>3. ScoreIn(dense, y) = Worth(c) /\ ScoreIn(lexical, y) = 0 /\ c \in 1 .. Longest
      BY <2>1, <3>1, <3>2, ScoreOfPlaces
    <3> QED BY <1>2, <3>3 DEF Score
  <2>5. CASE Cardinality(Places(dense, y)) = 0 /\ Cardinality(Places(lexical, y)) = 1
    <3>1. Places(dense, y) = {} /\ \E c : Places(lexical, y) = {c}
      BY <2>1, <2>5, FS_EmptySet, FS_Singleton
    <3>2. PICK c : Places(lexical, y) = {c}
      BY <3>1
    <3>3. ScoreIn(lexical, y) = Worth(c) /\ ScoreIn(dense, y) = 0 /\ c \in 1 .. Longest
      BY <2>1, <3>1, <3>2, ScoreOfPlaces
    <3> QED BY <1>2, <3>3 DEF Score
  <2> QED BY <2>2, <2>3, <2>4, <2>5
<1>7. PICK c \in 1 .. Longest : Score(y) = Worth(c)
  BY <1>6
<1>8. Worth(c) < Worth(a) + Worth(b)
  <2> DEFINE m == FusionK + 1
  <2>1. PICK p \in Nat \ {0} : Denominator = (FusionK + a) * p
    BY <1>5, CommonMultiple
  <2>2. PICK q \in Nat \ {0} : Denominator = (FusionK + b) * q
    BY <1>5, CommonMultiple
  <2>3. PICK r \in Nat \ {0} : Denominator = (FusionK + c) * r
    BY <1>7, CommonMultiple
  <2>4. PICK s \in Nat \ {0} : Denominator = m * s
    <3>1. 1 \in 1 .. Longest
      BY <1>1, <1>5
    <3> QED BY <3>1, CommonMultiple
  <2>5. \A i \in 1 .. Longest, share \in Nat :
           Denominator = (FusionK + i) * share => Worth(i) = share
    <3>1. \A n \in Nat \ {0}, share \in Nat : (n * share) \div n = share
      OBVIOUS
    <3>2. \A i \in 1 .. Longest : FusionK + i \in Nat \ {0}
      BY <1>1
    <3> QED BY <3>1, <3>2 DEF Worth
  <2>6. Worth(a) = p /\ Worth(b) = q /\ Worth(c) = r
    BY <1>5, <1>7, <2>1, <2>2, <2>3, <2>5
  <2>7. /\ m \in Nat \ {0} /\ a - 1 \in Nat /\ b - 1 \in Nat
        /\ m + (a - 1) = FusionK + a /\ m + (b - 1) = FusionK + b
    BY <1>1, <1>5
  <2>8. (a - 1) * (b - 1) < m * m
    <3>1. /\ Len(dense) - 1 \in Nat /\ Len(lexical) - 1 \in Nat
          /\ a - 1 <= Len(dense) - 1 /\ b - 1 <= Len(lexical) - 1
      BY <1>3, <1>4, <2>7 DEF Places, TypeOK
    <3>2. (a - 1) * (b - 1) <= (Len(dense) - 1) * (Len(lexical) - 1)
      BY ONLY <2>7, <3>1, ProductOfLess
    <3>3. /\ (a - 1) * (b - 1) \in Nat
          /\ (Len(dense) - 1) * (Len(lexical) - 1) \in Nat
          /\ m * m \in Nat
      <4>1. \A i, j \in Nat : i * j \in Nat
        OBVIOUS
      <4> HIDE DEF m
      <4> QED BY ONLY <2>7, <3>1, <4>1
    <3> QED BY ONLY <3>2, <3>3, ListsFit DEF ListsFit
  <2>9. s < p + q
    <3>1. (m + (a - 1)) * p = m * s /\ (m + (b - 1)) * q = m * s
      BY <2>1, <2>2, <2>4, <2>7
    <3> QED BY ONLY <2>7, <2>8, <3>1, p \in Nat \ {0}, q \in Nat \ {0}, s \in Nat \ {0},
               TwoSharesOutweighOne
  <2>10. r <= s
    <3> SUFFICES ASSUME s < r PROVE FALSE
      OBVIOUS
    <3>1. m <= FusionK + c /\ FusionK + c \in Nat
      BY <1>1, <1>7
    <3>2. s * m < r * m
      BY <2>7
    <3>3. r * m <= r * (FusionK + c)
      BY <2>7, <3>1
    <3>4. s * m = m * s /\ r * (FusionK + c) = (FusionK + c) * r
      BY <2>7, <3>1
    <3>5. s * m \in Nat /\ r * m \in Nat /\ r * (FusionK + c) \in Nat
      BY <2>7, <3>1
    <3> QED BY ONLY <2>3, <2>4, <3>2, <3>3, <3>4, <3>5
  <2> QED BY <2>6, <2>9, <2>10
<1> QED BY <1>2, <1>5, <1>7, <1>8 DEF Score

(* How long the lists may be by now, and how the result is ordered.        *)
Short ==
    /\ Len(dense) <= SearchLimit
    /\ Len(lexical) <= SearchLimit * (next - 1)

Sorted ==
    pc = "done" => \A i, j \in DOMAIN result : i < j => RanksBefore(result[i].kunnr, result[j].kunnr)

FusionInv == HybridInv /\ Short /\ Sorted

(* A pass finds no more rows than its limit. *)
LEMMA PassIsShort ==
  ASSUME NEW S, IsFiniteSet(S), S \subseteq Rows, NEW rows \in UpTo(SearchLimit, S),
         NEW hits \in SetToSeqs(rows)
  PROVE  /\ IdsOf(hits) \in Seq(Ids(Rows))
         /\ Len(IdsOf(hits)) \in Nat /\ Len(IdsOf(hits)) <= SearchLimit
<1>1. rows \subseteq S /\ IsFiniteSet(rows)
  BY FS_Subset DEF UpTo, kSubset
<1>2. Len(hits) = Cardinality(rows) /\ Cardinality(rows) \in Nat
  BY <1>1, Listed
<1>3. Cardinality(rows) = IF Cardinality(S) < SearchLimit THEN Cardinality(S) ELSE SearchLimit
  BY DEF UpTo, kSubset
<1>4. Cardinality(S) \in Nat /\ SearchLimit \in Nat
  BY FS_CardinalityType, RetrievalAssumption
<1>5. IdsOf(hits) \in Seq(Ids(Rows)) /\ Len(IdsOf(hits)) = Len(hits)
  BY <1>1, LastHits
<1> QED BY <1>2, <1>3, <1>4, <1>5

(* Each positive filter adds one pass to the lexical list. *)
LEMMA ShortStep ==
  ASSUME HybridInv, Short, Next \/ (\E stage \in {"ranked", "failed"} : Becomes(stage))
  PROVE  Short'
<1>1. /\ SearchLimit \in Nat /\ next \in Nat /\ next >= 1 /\ IsFiniteSet(table)
      /\ lexical \in Seq(Ids(Rows)) /\ Len(lexical) \in Nat
      /\ table \subseteq Rows
  BY RetrievalAssumption, FiltersSequence DEF HybridInv, TypeOK, Finite
<1>2. CASE UNCHANGED <<dense, lexical, next>>
  BY <1>2 DEF Short
<1>3. CASE DensePass
  <2>1. PICK near \in UpTo(SearchLimit, table) :
           \E hits \in SetToSeqs(near) : dense' = IdsOf(hits)
    BY <1>3 DEF DensePass
  <2>2. Len(dense') <= SearchLimit
    BY <1>1, <2>1, PassIsShort
  <2> QED BY <1>3, <2>2 DEF DensePass, Short
<1>4. CASE Exclude
  <2>1. next' = next + 1 /\ UNCHANGED <<dense, lexical>>
    BY <1>4 DEF Exclude
  <2>2. SearchLimit * (next - 1) <= SearchLimit * (next' - 1)
    <3>1. SearchLimit * (next' - 1) = SearchLimit * (next - 1) + SearchLimit
      BY <1>1, <2>1
    <3>2. SearchLimit * (next - 1) \in Nat
      BY <1>1
    <3> QED BY <1>1, <3>1, <3>2
  <2>3. SearchLimit * (next - 1) \in Nat /\ SearchLimit * (next' - 1) \in Nat
    BY <1>1, <2>1
  <2>4. Len(lexical) <= SearchLimit * (next - 1)
    BY DEF Short
  <2>5. Len(lexical) <= SearchLimit * (next' - 1)
    BY ONLY <1>1, <2>2, <2>3, <2>4
  <2> QED BY <2>1, <2>5 DEF Short
<1>5. CASE Match
  <2> DEFINE matching == Matching(table, {filters[next].term})
  <2> PICK rows \in UpTo(SearchLimit, matching) :
         \E hits \in SetToSeqs(rows) : lexical' = lexical \o IdsOf(hits)
    BY <1>5 DEF Match
  <2>1. PICK hits \in SetToSeqs(rows) : lexical' = lexical \o IdsOf(hits)
    OBVIOUS
  <2>2. matching \subseteq table /\ matching \subseteq Rows
    BY DEF Matching, HybridInv, TypeOK
  <2>3. IsFiniteSet(matching)
    BY <1>1, <2>2, FS_Subset
  <2>4. /\ IdsOf(hits) \in Seq(Ids(Rows)) /\ Len(IdsOf(hits)) \in Nat
        /\ Len(IdsOf(hits)) <= SearchLimit
    <3> HIDE DEF matching
    <3> QED BY <2>1, <2>2, <2>3, PassIsShort
  <2>7. Len(lexical') = Len(lexical) + Len(IdsOf(hits))
    BY <1>1, <2>1, <2>4, ConcatProperties
  <2>8. next' = next + 1 /\ dense' = dense
    BY <1>5 DEF Match
  <2>9. SearchLimit * (next' - 1) = SearchLimit * (next - 1) + SearchLimit
    BY <1>1, <2>8
  <2>10. SearchLimit * (next - 1) \in Nat
    BY <1>1
  <2>11. Len(lexical) <= SearchLimit * (next - 1)
    BY DEF Short
  <2>12. Len(lexical') <= SearchLimit * (next' - 1)
    BY ONLY <1>1, <2>4, <2>7, <2>9, <2>10, <2>11
  <2> QED BY <2>8, <2>12 DEF Short
<1> QED
  <2>1. OpenFails \/ Fuse \/ Stop \/ (\E stage \in {"ranked", "failed"} : Becomes(stage))
        => UNCHANGED <<dense, lexical, next>>
    BY DEF OpenFails, Fuse, Stop, vars, Becomes
  <2> QED BY <1>2, <1>3, <1>4, <1>5, <2>1 DEF Next

(* Ids are ranked by the two lists alone. *)
LEMMA RanksFromLists ==
  ASSUME UNCHANGED <<dense, lexical>>, NEW x, NEW y
  PROVE  RanksBefore(x, y)' <=> RanksBefore(x, y)
<1>1. dense' = dense /\ lexical' = lexical
  OBVIOUS
<1>2. Denominator' = Denominator
  BY <1>1 DEF Denominator, Longest
<1>3. ASSUME NEW id PROVE Score(id)' = Score(id)
  <2>1. ScoreIn(dense, id)' = ScoreIn(dense, id)
    BY <1>1, <1>2 DEF ScoreIn, Places, MapThenSumSet, MapThenFoldSet
  <2>2. ScoreIn(lexical, id)' = ScoreIn(lexical, id)
    BY <1>1, <1>2 DEF ScoreIn, Places, MapThenSumSet, MapThenFoldSet
  <2> QED BY <2>1, <2>2 DEF Score
<1> QED BY <1>3 DEF RanksBefore

(* The result is put in the order of the lists it was made from, and these *)
(* do not change after.                                                    *)
LEMMA SortedStep ==
  ASSUME Sorted, Next \/ (\E stage \in {"ranked", "failed"} : Becomes(stage))
  PROVE  Sorted'
<1>1. CASE Fuse
  <2>1. PICK few : \E ids \in Ranking(few \cap Ids(kept)) :
                      result' = [i \in DOMAIN ids |-> Chunk(ids[i])]
    BY <1>1 DEF Fuse
  <2> PICK ids \in Ranking(few \cap Ids(kept)) :
             result' = [i \in DOMAIN ids |-> Chunk(ids[i])]
    BY <2>1
  <2>2. /\ DOMAIN result' = DOMAIN ids
        /\ \A i \in DOMAIN ids : ids[i] \in Ids(kept)
        /\ \A i, j \in DOMAIN ids : i < j => RanksBefore(ids[i], ids[j])
    BY <2>1 DEF Ranking, SetToSeqs
  <2>3. \A i \in DOMAIN ids : result'[i].kunnr = ids[i]
    <3> SUFFICES ASSUME NEW i \in DOMAIN ids PROVE result'[i].kunnr = ids[i]
      OBVIOUS
    <3>1. \E row \in kept : row.kunnr = ids[i]
      BY <2>2, IdsOfRows
    <3>2. Chunk(ids[i]).kunnr = ids[i]
      BY <3>1 DEF Chunk
    <3> QED BY <2>1, <3>2
  <2>4. \A i, j \in DOMAIN result' : i < j => RanksBefore(result'[i].kunnr, result'[j].kunnr)
    BY <2>2, <2>3
  <2>5. UNCHANGED <<dense, lexical>>
    BY <1>1 DEF Fuse
  <2>6. \A x, y : RanksBefore(x, y)' <=> RanksBefore(x, y)
    BY <2>5, RanksFromLists
  <2> QED BY <2>4, <2>6 DEF Sorted
<1>2. CASE pc' # "done"
  BY <1>2 DEF Sorted
<1>3. CASE UNCHANGED vars
  <2>1. \A x, y : RanksBefore(x, y)' <=> RanksBefore(x, y)
    BY <1>3, RanksFromLists DEF vars
  <2> QED BY <1>3, <2>1 DEF Sorted, vars
<1> QED
  <2>1. OpenFails \/ DensePass \/ Exclude \/ Match
            \/ (\E stage \in {"ranked", "failed"} : Becomes(stage)) => pc' # "done"
    BY DEF OpenFails, DensePass, Exclude, Match, Pending, Becomes
  <2> QED BY <1>1, <1>2, <1>3, <2>1 DEF Next, Stop

LEMMA FusionAlways == SpecRanked => []FusionInv
<1>1. InitRanked => FusionInv
  <2> SUFFICES ASSUME InitRanked PROVE FusionInv
    OBVIOUS
  <2>1. Init /\ HybridInv
    BY InitHybrid DEF InitRanked
  <2>2. Len(dense) = 0 /\ Len(lexical) = 0 /\ next = 1 /\ pc = "dense"
    BY <2>1 DEF Init
  <2>3. SearchLimit \in Nat /\ SearchLimit * (1 - 1) = 0
    BY RetrievalAssumption
  <2> QED BY <2>1, <2>2, <2>3 DEF FusionInv, Short, Sorted
<1>2. FusionInv /\ [NextRanked]_<<vars, rankingVars>> => FusionInv'
  <2> SUFFICES ASSUME FusionInv, [NextRanked]_<<vars, rankingVars>> PROVE FusionInv'
    OBVIOUS
  <2>1. HybridInv'
    BY HybridStep DEF FusionInv
  <2>2. CASE NextRanked
    BY <2>1, <2>2, RankingSteps, ShortStep, SortedStep DEF FusionInv
  <2>3. CASE UNCHANGED <<vars, rankingVars>>
    <3>1. Stop \/ UNCHANGED vars
      BY <2>3
    <3>2. UNCHANGED <<pc, next, dense, lexical, result>>
      BY <2>3 DEF vars
    <3>3. \A x, y : RanksBefore(x, y)' <=> RanksBefore(x, y)
      BY <3>2, RanksFromLists
    <3> QED BY <2>1, <3>2, <3>3 DEF FusionInv, Short, Sorted
  <2> QED BY <2>2, <2>3
<1> QED BY <1>1, <1>2, PTL DEF SpecRanked

(* A result in the order of the scores has the dual matches first.         *)
LEMMA DualFirstIn ==
  ASSUME FusionInv, ListsFit
  PROVE  DualMatchesFirst
<1> SUFFICES ASSUME pc = "done",
                    NEW i \in DOMAIN result, NEW j \in DOMAIN result,
                    Hits(result[i].kunnr) = 1,
                    result[j].kunnr \in ToSet(dense) \cap ToSet(lexical)
             PROVE  j < i
  BY DEF DualMatchesFirst
<1>1. TypeOK /\ i \in Nat /\ j \in Nat
  BY DEF FusionInv, HybridInv, TypeOK
<1>2. /\ Score(result[i].kunnr) \in Nat /\ Score(result[j].kunnr) \in Nat
      /\ Score(result[i].kunnr) < Score(result[j].kunnr)
  BY <1>1, DualOutscores
<1>3. ~ RanksBefore(result[i].kunnr, result[j].kunnr)
  BY <1>2 DEF RanksBefore
<1>4. ~ (i < j)
  BY <1>3 DEF FusionInv, Sorted
<1>5. i # j
  BY <1>2
<1> QED BY <1>1, <1>4, <1>5

(* As long as the lists are not too long, what both passes found comes     *)
(* before all that was found once, for any k, table and filters.           *)
THEOREM DualFirstIfListsFit == SpecRanked => [](ListsFit => DualMatchesFirst)
<1>1. FusionInv => (ListsFit => DualMatchesFirst)
  BY DualFirstIn
<1> QED BY <1>1, FusionAlways, PTL

(* So few filters that the lists cannot grow too long: up to nine, for the *)
(* limit of 20 and the k of 60 the code searches with.                     *)
FewFilters ==
    \A list \in FilterLists :
        (SearchLimit - 1) * (SearchLimit * Len(list) - 1) < (FusionK + 1) * (FusionK + 1)

(* Then it always does. *)
THEOREM DualFirst ==
  ASSUME FewFilters
  PROVE  SpecRanked => []DualMatchesFirst
<1>1. FusionInv => DualMatchesFirst
  <2> SUFFICES ASSUME FusionInv PROVE DualMatchesFirst
    OBVIOUS
  <2>1. TypeOK
    BY DEF FusionInv, HybridInv
  <2>2. /\ SearchLimit \in Nat /\ FusionK \in Nat /\ Len(filters) \in Nat
        /\ next - 1 \in Nat /\ next - 1 <= Len(filters)
        /\ filters \in FilterLists
        /\ Len(dense) \in Nat /\ Len(lexical) \in Nat
        /\ DOMAIN dense = 1 .. Len(dense) /\ DOMAIN lexical = 1 .. Len(lexical)
    BY <2>1, RetrievalAssumption, HybridAssumption, FiltersSequence, LongestList
       DEF TypeOK
  <2>3. Len(dense) <= SearchLimit /\ Len(lexical) <= SearchLimit * (next - 1)
    BY DEF FusionInv, Short
  <2>4. SearchLimit * (next - 1) <= SearchLimit * Len(filters)
    <3>1. SearchLimit <= SearchLimit
      BY <2>2
    <3> QED BY ONLY <2>2, <3>1, ProductOfLess
  <2>5. SearchLimit * (next - 1) \in Nat /\ SearchLimit * Len(filters) \in Nat
    BY <2>2
  <2>6. Len(lexical) <= SearchLimit * Len(filters)
    BY ONLY <2>2, <2>3, <2>4, <2>5
  <2>7. CASE Len(dense) = 0 \/ Len(lexical) = 0
    <3>1. ToSet(dense) \cap ToSet(lexical) = {}
      BY <2>2, <2>7 DEF ToSet
    <3> QED BY <3>1 DEF DualMatchesFirst
  <2>8. CASE Len(dense) # 0 /\ Len(lexical) # 0
    <3>1. /\ Len(dense) - 1 \in Nat /\ Len(lexical) - 1 \in Nat
          /\ SearchLimit - 1 \in Nat /\ SearchLimit * Len(filters) - 1 \in Nat
          /\ Len(dense) - 1 <= SearchLimit - 1
          /\ Len(lexical) - 1 <= SearchLimit * Len(filters) - 1
      BY ONLY <2>2, <2>3, <2>5, <2>6, <2>8
    <3>2. (Len(dense) - 1) * (Len(lexical) - 1)
             <= (SearchLimit - 1) * (SearchLimit * Len(filters) - 1)
      BY ONLY <3>1, ProductOfLess
    <3>3. (SearchLimit - 1) * (SearchLimit * Len(filters) - 1)
             < (FusionK + 1) * (FusionK + 1)
      BY <2>2 DEF FewFilters
    <3>4. /\ (Len(dense) - 1) * (Len(lexical) - 1) \in Nat
          /\ (SearchLimit - 1) * (SearchLimit * Len(filters) - 1) \in Nat
          /\ (FusionK + 1) * (FusionK + 1) \in Nat
      <4>1. \A i, j \in Nat : i * j \in Nat
        OBVIOUS
      <4> QED BY ONLY <2>2, <3>1, <4>1
    <3>5. ListsFit
      BY ONLY <3>2, <3>3, <3>4 DEF ListsFit
    <3> QED BY <3>5, DualFirstIn
  <2> QED BY <2>7, <2>8
<1> QED BY <1>1, FusionAlways, PTL

-----------------------------------------------------------------------------
(* The re-ranking.  Of two candidates at most one outranks the other.      *)
LEMMA OutranksOrders ==
  ASSUME NEW given, NEW i \in Int, NEW j \in Int, given[i] \in Int, given[j] \in Int
  PROVE  Outranks(given, i, j) => i # j /\ ~ Outranks(given, j, i)
BY DEF Outranks

(* In an order of candidates by their scores, those that outrank the one   *)
(* at place k are the k - 1 before it.                                     *)
LEMMA OutrankedByThoseBefore ==
  ASSUME NEW n \in Nat, NEW given \in [1 .. n -> Int],
         NEW order \in [1 .. n -> 1 .. n],
         \A i, j \in 1 .. n : order[i] = order[j] => i = j,
         ToSet(order) = 1 .. n,
         \A i, j \in 1 .. n : i < j => Outranks(given, order[i], order[j]),
         NEW k \in 1 .. n
  PROVE  Cardinality({j \in 1 .. n : Outranks(given, j, order[k])}) = k - 1
<1>1. \A m \in 1 .. n : Outranks(given, order[m], order[k]) => m < k
  <2> SUFFICES ASSUME NEW m \in 1 .. n, Outranks(given, order[m], order[k]), ~ (m < k)
               PROVE  FALSE
    OBVIOUS
  <2>1. /\ order[m] \in 1 .. n /\ order[k] \in 1 .. n
        /\ given[order[m]] \in Int /\ given[order[k]] \in Int
    OBVIOUS
  <2>2. m = k \/ k < m
    OBVIOUS
  <2>3. order[m] = order[k] \/ Outranks(given, order[k], order[m])
    BY <2>2
  <2>4. order[m] \in Int /\ order[k] \in Int
    BY <2>1
  <2>5. order[m] # order[k] /\ ~ Outranks(given, order[k], order[m])
    BY <2>1, <2>4, OutranksOrders
  <2> QED BY <2>3, <2>5
<1>2. {j \in 1 .. n : Outranks(given, j, order[k])} = FirstOf(order, k - 1)
  <2>1. ASSUME NEW j \in 1 .. n, Outranks(given, j, order[k])
        PROVE  j \in FirstOf(order, k - 1)
    <3>1. PICK m \in 1 .. n : order[m] = j
      <4>1. j \in ToSet(order) /\ DOMAIN order = 1 .. n
        OBVIOUS
      <4> QED BY <4>1 DEF ToSet
    <3>2. m < k
      BY <1>1, <2>1, <3>1
    <3>3. m \in 1 .. k - 1
      BY <3>2
    <3> QED BY <3>1, <3>3 DEF FirstOf
  <2>2. ASSUME NEW j \in FirstOf(order, k - 1)
        PROVE  j \in 1 .. n /\ Outranks(given, j, order[k])
    <3>1. PICK m \in 1 .. k - 1 : j = order[m]
      BY DEF FirstOf
    <3>2. m \in 1 .. n /\ m < k
      OBVIOUS
    <3> QED BY <3>1, <3>2
  <2> QED BY <2>1, <2>2
<1>3. Cardinality(FirstOf(order, k - 1)) = k - 1
  <2>1. k - 1 \in Nat /\ k - 1 <= n
    OBVIOUS
  <2> QED BY <2>1, FirstFew
<1> QED BY <1>2, <1>3

(* A re-ranking with as many scores as candidates keeps the best of them.  *)
LEMMA BestOnes ==
  ASSUME HybridInv, top \in Nat,
         NEW given \in [1 .. Len(result) -> Int], Len(given) = Len(result),
         NEW best \in RerankByScores(result, given)
  PROVE  /\ Len(best) = Min({top, Len(result)})
         /\ DOMAIN best = 1 .. Len(best)
         /\ \A k \in DOMAIN best : \E i \in DOMAIN result :
               /\ best[k] = result[i]
               /\ Cardinality({j \in DOMAIN result : Outranks(given, j, i)}) = k - 1
         /\ ToSet(best) \in UpTo(top, ToSet(result))
<1> DEFINE n == Len(result)
           size == IF n < top THEN n ELSE top
<1>1. /\ n \in Nat /\ DOMAIN result = 1 .. n /\ result \in [1 .. n -> Rows]
      /\ \A i, j \in 1 .. n : result[i] = result[j] => i = j
  <2>1. result \in Seq(Rows)
    BY DEF HybridInv, TypeOK
  <2>2. n \in Nat /\ DOMAIN result = 1 .. n /\ result \in [1 .. n -> Rows]
    BY <2>1
  <2> QED BY <2>2 DEF HybridInv, Distinct
<1>2. Min({n, Len(given)}) = n /\ Min({top, n}) = size
  BY <1>1, MinOfTwo
<1>3. PICK order \in SetToSeqs(1 .. n) :
         /\ \A i, j \in DOMAIN order : i < j => Outranks(given, order[i], order[j])
         /\ best = First(result, order)
  BY <1>2 DEF RerankByScores, Orders
<1>4. IsFiniteSet(1 .. n) /\ Cardinality(1 .. n) = n
  <2> HIDE DEF n
  <2> QED BY <1>1, FS_Interval
<1>5. /\ order \in [1 .. n -> 1 .. n] /\ Len(order) = n /\ ToSet(order) = 1 .. n
      /\ \A i, j \in 1 .. n : order[i] = order[j] => i = j
  BY <1>4, Listed
<1> HIDE DEF n
<1>6. size \in Nat /\ size <= n
  BY <1>1
<1>7. best = [k \in 1 .. size |-> result[order[k]]]
  BY <1>2, <1>3, <1>5 DEF First
<1> HIDE DEF size
<1>8. \A k \in 1 .. size : k \in 1 .. n /\ order[k] \in 1 .. n
  BY <1>1, <1>5, <1>6
<1>9. best \in [1 .. size -> Rows] /\ Len(best) = size /\ DOMAIN best = 1 .. size
  BY <1>1, <1>6, <1>7, <1>8
<1>10. \A k \in 1 .. size :
          /\ best[k] = result[order[k]]
          /\ Cardinality({j \in 1 .. n : Outranks(given, j, order[k])}) = k - 1
  <2> SUFFICES ASSUME NEW k \in 1 .. size
               PROVE  /\ best[k] = result[order[k]]
                      /\ Cardinality({j \in 1 .. n : Outranks(given, j, order[k])}) = k - 1
    OBVIOUS
  <2>1. given \in [1 .. n -> Int] /\ k \in 1 .. n
    BY <1>8 DEF n
  <2>2. \A i, j \in 1 .. n : i < j => Outranks(given, order[i], order[j])
    BY <1>3, <1>5
  <2>3. Cardinality({j \in 1 .. n : Outranks(given, j, order[k])}) = k - 1
    <3>1. \A a \in 1 .. n :
             Cardinality({j \in 1 .. n : Outranks(given, j, order[a])}) = a - 1
      BY ONLY <1>1, <1>5, <2>1, <2>2, OutrankedByThoseBefore, ZenonT(30)
    <3> QED BY <2>1, <3>1
  <2> QED BY <1>7, <2>3
<1>11. \A i, j \in 1 .. size : best[i] = best[j] => i = j
  BY <1>1, <1>5, <1>7, <1>8
<1>12. ToSet(best) \subseteq ToSet(result)
  BY <1>1, <1>7, <1>8, <1>9 DEF ToSet
<1>13. Cardinality(ToSet(best)) = size
  BY ONLY <1>6, <1>9, <1>11, AllListed
<1>14. Cardinality(ToSet(result)) = n
  BY ONLY <1>1, AllListed
<1>15. ToSet(best) \in UpTo(top, ToSet(result))
  BY <1>12, <1>13, <1>14 DEF UpTo, kSubset, size
<1>16. \A k \in DOMAIN best : \E i \in DOMAIN result :
          /\ best[k] = result[i]
          /\ Cardinality({j \in DOMAIN result : Outranks(given, j, i)}) = k - 1
  <2> SUFFICES ASSUME NEW k \in DOMAIN best
               PROVE  \E i \in DOMAIN result :
                         /\ best[k] = result[i]
                         /\ Cardinality({j \in DOMAIN result : Outranks(given, j, i)}) = k - 1
    OBVIOUS
  <2>1. order[k] \in DOMAIN result
    BY <1>1, <1>8, <1>9
  <2>2. DOMAIN result = 1 .. n
    BY <1>1
  <2> QED BY <1>9, <1>10, <2>1, <2>2
<1>17. Len(best) = Min({top, Len(result)}) /\ DOMAIN best = 1 .. Len(best)
  BY <1>2, <1>9 DEF n
<1> QED BY <1>15, <1>16, <1>17

-----------------------------------------------------------------------------
(* What is kept is empty until the re-ranking is made. *)
Unranked == pc # "ranked" => reranked = << >>

RankedInv ==
    HybridInv /\ top \in Nat /\ Unranked /\ BestFirst /\ AsPipelineAssumes

LEMMA SearchKeepsRanking ==
  ASSUME RankedInv, SearchStep
  PROVE  top' \in Nat /\ Unranked' /\ BestFirst' /\ AsPipelineAssumes'
<1>1. UNCHANGED <<top, scores, reranked>>
  BY DEF SearchStep, rankingVars
<1>2. CASE pc = "ranked"
  <2>1. UNCHANGED <<pc, result>>
    BY <1>2 DEF SearchStep, Next, OpenFails, DensePass, Exclude, Match, Pending,
       Fuse, Stop, vars
  <2> QED BY <1>1, <2>1 DEF RankedInv, Unranked, BestFirst, AsPipelineAssumes
<1>3. CASE pc # "ranked"
  <2>1. pc' # "ranked"
    BY <1>3 DEF SearchStep, Next, OpenFails, DensePass, Exclude, Match, Pending,
       Fuse, Stop, vars
  <2> QED BY <1>1, <1>3, <2>1 DEF RankedInv, Unranked, BestFirst,
             AsPipelineAssumes
<1> QED BY <1>2, <1>3

LEMMA SkipKeepsRanking ==
  ASSUME RankedInv, SkipRanking
  PROVE  top' \in Nat /\ Unranked' /\ BestFirst' /\ AsPipelineAssumes'
<1>1. /\ pc' = "ranked" /\ UNCHANGED <<result, top, scores, reranked>>
      /\ result = << >> \/ top = 0
      /\ reranked = << >>
  BY DEF SkipRanking, Becomes, NothingToRank, RankedInv, Unranked
<1>2. /\ Len(result) \in Nat /\ top \in Nat /\ DOMAIN result = 1 .. Len(result)
      /\ result \in [1 .. Len(result) -> Rows]
      /\ \A i, j \in 1 .. Len(result) : result[i] = result[j] => i = j
  BY DEF RankedInv, HybridInv, TypeOK, Distinct
<1>3. Len(result) = 0 \/ top = 0
  BY <1>1
<1>4. Min({top, Len(result)}) = 0
  BY <1>2, <1>3, MinOfTwo
<1>5. BestFirst'
  BY <1>1, <1>4 DEF BestFirst
<1>6. Cardinality(ToSet(result)) = Len(result)
  BY <1>2, AllListed
<1>7. ToSet(reranked) = {} /\ Cardinality({}) = 0
  BY <1>1, FS_EmptySet DEF ToSet
<1>8. {} \in UpTo(top, ToSet(result))
  BY <1>2, <1>3, <1>6, <1>7 DEF UpTo, kSubset
<1>9. AsPipelineAssumes'
  BY <1>1, <1>7, <1>8 DEF AsPipelineAssumes
<1> QED BY <1>1, <1>2, <1>5, <1>9 DEF Unranked

LEMMA RerankKeepsRanking ==
  ASSUME RankedInv, Rerank
  PROVE  top' \in Nat /\ Unranked' /\ BestFirst' /\ AsPipelineAssumes'
<1>1. PICK given \in ScoreLists :
         /\ Len(given) = Len(result)
         /\ scores' = given
         /\ reranked' \in RerankByScores(result, given)
  BY DEF Rerank
<1>2. pc' = "ranked" /\ UNCHANGED <<result, top>> /\ HybridInv /\ top \in Nat
  BY DEF Rerank, Becomes, RankedInv
<1>3. given \in [1 .. Len(result) -> Int]
  <2>1. Len(result) \in Nat
    BY <1>2 DEF HybridInv, TypeOK
  <2>2. PICK m \in 0 .. Len(result) + 1 : given \in [1 .. m -> Scores]
    BY DEF ScoreLists, BoundedSeq, SeqOf
  <2>3. m = Len(result)
    BY <1>1, <2>1, <2>2
  <2> QED BY <2>2, <2>3, RankedAssumption
<1>4. /\ Len(reranked') = Min({top, Len(result)})
      /\ \A k \in DOMAIN reranked' : \E i \in DOMAIN result :
            /\ reranked'[k] = result[i]
            /\ Cardinality({j \in DOMAIN result : Outranks(given, j, i)}) = k - 1
      /\ ToSet(reranked') \in UpTo(top, ToSet(result))
  BY <1>1, <1>2, <1>3, BestOnes
<1> QED BY <1>1, <1>2, <1>4 DEF Unranked, BestFirst, AsPipelineAssumes

LEMMA RankedAlways == SpecRanked => []RankedInv
<1>1. InitRanked => RankedInv
  <2> SUFFICES ASSUME InitRanked PROVE RankedInv
    OBVIOUS
  <2>1. HybridInv
    BY InitHybrid DEF InitRanked
  <2>2. pc = "dense" /\ reranked = << >> /\ top \in Nat
    BY RankedAssumption DEF InitRanked, Init
  <2> QED BY <2>1, <2>2 DEF RankedInv, Unranked, BestFirst, AsPipelineAssumes
<1>2. RankedInv /\ [NextRanked]_<<vars, rankingVars>> => RankedInv'
  <2> SUFFICES ASSUME RankedInv, [NextRanked]_<<vars, rankingVars>> PROVE RankedInv'
    OBVIOUS
  <2>1. HybridInv'
    BY HybridStep DEF RankedInv
  <2>2. CASE SearchStep
    BY <2>1, <2>2, SearchKeepsRanking DEF RankedInv
  <2>3. CASE SkipRanking
    BY <2>1, <2>3, SkipKeepsRanking DEF RankedInv
  <2>4. CASE Rerank
    BY <2>1, <2>4, RerankKeepsRanking DEF RankedInv
  <2>5. CASE RerankFails
    <3>1. pc = "done" /\ pc' = "failed" /\ UNCHANGED <<top, reranked>>
      BY <2>5 DEF RerankFails, Becomes
    <3> QED BY <2>1, <3>1 DEF RankedInv, Unranked, BestFirst, AsPipelineAssumes
  <2>6. CASE UNCHANGED <<vars, rankingVars>>
    BY <2>1, <2>6 DEF RankedInv, Unranked, BestFirst, AsPipelineAssumes, vars,
       rankingVars
  <2> QED BY <2>2, <2>3, <2>4, <2>5, <2>6 DEF NextRanked
<1> QED BY <1>1, <1>2, PTL DEF SpecRanked

(* The re-ranking keeps the best of what was found, as many as asked for,  *)
(* the best first, for any scores.                                         *)
THEOREM RankedBestFirst == SpecRanked => []BestFirst
<1>1. RankedInv => BestFirst
  BY DEF RankedInv
<1> QED BY <1>1, RankedAlways, PTL

(* What it keeps is what the semantic pipeline assumes of a re-ranking.    *)
THEOREM RankedAsAssumed == SpecRanked => []AsPipelineAssumes
<1>1. RankedInv => AsPipelineAssumes
  BY DEF RankedInv
<1> QED BY <1>1, RankedAlways, PTL
=============================================================================
