------------------------ MODULE SemanticCacheProofs ------------------------
(***************************************************************************)
(* Proofs about the semantic cache, for every set of threads, queries,     *)
(* vectors and responses, every capacity, threshold and clock.             *)
(*                                                                         *)
(* The inductive invariant is TypeOK /\ PendingValid.  TypeOK alone is not *)
(* inductive: that Touch answers with a response needs the pending index   *)
(* to be inside the entries, which PendingValid gives.                     *)
(*                                                                         *)
(* LRUInv, at the end, is what makes the eviction least-recently-used when *)
(* lookups do not overlap: the stamps are in the order of the uses.        *)
(***************************************************************************)
EXTENDS SemanticCacheLRU, CacheLookupProofs

-----------------------------------------------------------------------------
(* The operators the actions are built from.                               *)

(* A lookup finds an index of the entries, or 0.                           *)
LEMMA FindInDomain ==
  ASSUME NEW S, NEW es \in Seq(S), NEW want
  PROVE  Find(es, want) \in 0 .. Len(es)
<1>0. Len(es) \in Nat /\ DOMAIN es = 1 .. Len(es)
  BY LenProperties
<1>1. ASSUME NEW T, T \subseteq 1 .. Len(es), T # {}
      PROVE  Min(T) \in 1 .. Len(es)
  <2>1. T \subseteq Nat
    BY <1>0, <1>1
  <2> QED BY <2>1, <1>1, MinOfNaturals
<1>2. ExactIndex(es, want) \in 0 .. Len(es)
  <2> DEFINE I == {i \in 1 .. Len(es) : Norm[es[i].query] = Norm[want]}
  <2>1. ExactIndex(es, want) = IF I # {} THEN Min(I) ELSE 0
    BY DEF ExactIndex, SelectInSeq
  <2>2. I \subseteq 1 .. Len(es)
    OBVIOUS
  <2> HIDE DEF I
  <2>3. CASE I # {}
    <3>1. Min(I) \in 1 .. Len(es)
      BY <2>2, <2>3, <1>1
    <3> QED BY <3>1, <2>1, <2>3, <1>0
  <2>4. CASE I = {}
    BY <2>1, <2>4, <1>0
  <2> QED BY <2>3, <2>4
<1>3. SimilarIndex(es, want) \in 0 .. Len(es)
  <2> DEFINE best == {i \in DOMAIN es :
                        /\ Similar(es[i].embedding, want)
                        /\ \A j \in DOMAIN es :
                              Dim[es[j].embedding] = Dim[want] =>
                                Dot[<<es[j].embedding, want>>]
                                  <= Dot[<<es[i].embedding, want>>]}
  <2>1. SimilarIndex(es, want) = IF best = {} THEN 0 ELSE Min(best)
    BY DEF SimilarIndex
  <2>2. best \subseteq 1 .. Len(es)
    BY <1>0
  <2> HIDE DEF best
  <2>3. CASE best # {}
    <3>1. Min(best) \in 1 .. Len(es)
      BY <2>2, <2>3, <1>1
    <3> QED BY <3>1, <2>1, <2>3, <1>0
  <2>4. CASE best = {}
    BY <2>1, <2>4, <1>0
  <2> QED BY <2>3, <2>4
<1> QED BY <1>2, <1>3 DEF Find

(* An entry that is not empty has a victim among its entries: min_by_key   *)
(* never returns None there.  No other has an older stamp.                 *)
LEMMA VictimInDomain ==
  ASSUME NEW es \in Seq(Entry), es # << >>
  PROVE  /\ Victim(es) \in 1 .. Len(es)
         /\ \A i \in 1 .. Len(es) :
               es[Victim(es)].last_accessed <= es[i].last_accessed
<1> DEFINE stamps == {es[i].last_accessed : i \in 1 .. Len(es)}
           oldest == {i \in DOMAIN es : \A j \in DOMAIN es :
                        es[i].last_accessed <= es[j].last_accessed}
<1>0. /\ Len(es) \in Nat \ {0}
      /\ DOMAIN es = 1 .. Len(es)
      /\ \A i \in 1 .. Len(es) : es[i] \in Entry
  BY LenProperties, EmptySeq, ElementOfSeq
<1>1. \A i \in 1 .. Len(es) : es[i].last_accessed \in Nat
  BY <1>0, CacheAssumption DEF Entry
<1>2. stamps \subseteq Nat /\ stamps # {}
  <2>1. es[1].last_accessed \in stamps
    BY <1>0
  <2> QED BY <2>1, <1>1
<1> HIDE DEF stamps
<1>3. Min(stamps) \in stamps /\ \A y \in stamps : Min(stamps) <= y
  BY <1>2, MinOfNaturals
<1>4. PICK i \in 1 .. Len(es) : es[i].last_accessed = Min(stamps)
  BY <1>3 DEF stamps
<1>5. i \in oldest
  BY <1>0, <1>3, <1>4 DEF stamps
<1>6. oldest \subseteq 1 .. Len(es) /\ oldest \subseteq Nat
  BY <1>0
<1> HIDE DEF oldest
<1>7. Min(oldest) \in oldest
  BY <1>5, <1>6, MinOfNaturals
<1>8. Victim(es) = Min(oldest)
  BY DEF Victim, oldest
<1> QED BY <1>0, <1>6, <1>7, <1>8 DEF oldest

(* A stamp changes no content. *)
LEMMA ContentsOfTouch ==
  ASSUME NEW es \in Seq(Entry), NEW i \in 1 .. Len(es),
         NEW now \in 0 .. MaxClock
  PROVE  LET fs == [es EXCEPT ![i].last_accessed = now]
         IN  fs \in Seq(Entry) /\ Len(fs) = Len(es) /\ Contents(fs) = Contents(es)
<1> DEFINE x  == [es[i] EXCEPT !.last_accessed = now]
           fs == [es EXCEPT ![i] = x]
<1>0. /\ Len(es) \in Nat
      /\ \A j \in 1 .. Len(es) : es[j] \in Entry
      /\ [es EXCEPT ![i].last_accessed = now] = fs
  BY LenProperties, ElementOfSeq
<1>1. x \in Entry /\ Content(x) = Content(es[i])
  BY <1>0 DEF Entry, Content
<1> HIDE DEF x
<1>2. /\ fs \in Seq(Entry)
      /\ Len(fs) = Len(es)
      /\ \A j \in 1 .. Len(es) : fs[j] = IF j = i THEN x ELSE es[j]
  BY <1>1, ExceptSeq
<1> HIDE DEF fs
<1>3. /\ Contents(fs) \in Seq(Bare(Entry))
      /\ Len(Contents(fs)) = Len(es)
      /\ \A j \in 1 .. Len(es) : Contents(fs)[j] = Content(fs[j])
  BY <1>2, ContentsProperties
<1>4. /\ Contents(es) \in Seq(Bare(Entry))
      /\ Len(Contents(es)) = Len(es)
      /\ \A j \in 1 .. Len(es) : Contents(es)[j] = Content(es[j])
  BY ContentsProperties
<1>5. \A j \in 1 .. Len(es) : Contents(fs)[j] = Contents(es)[j]
  BY <1>1, <1>2, <1>3, <1>4
<1>6. Contents(fs) = Contents(es)
  BY <1>3, <1>4, <1>5, SeqEqual
<1> QED BY <1>0, <1>2, <1>6

(* What insert leaves in the cache: a well-typed sequence of which the     *)
(* contract allows the contents, and no more entries than before when the  *)
(* cache was full.                                                         *)
LEMMA StoreProperties ==
  ASSUME NEW es \in Seq(Entry), NEW x \in Entry
  PROVE  /\ Store(es, x) \in Seq(Entry)
         /\ Len(Store(es, x)) = IF IsFull(es) THEN Len(es) ELSE Len(es) + 1
         /\ Contents(Store(es, x)) \in AfterInsert(Contents(es), Content(x))
<1>0. Len(es) \in Nat /\ DOMAIN es = 1 .. Len(es)
  BY LenProperties
<1>1. Store(es, x) \in AfterInsert(es, x)
  <2>1. IsFull(es) => Victim(es) \in DOMAIN es
    BY <1>0, VictimInDomain DEF IsFull
  <2> QED BY <2>1 DEF Store, AfterInsert
<1>2. Len(Store(es, x)) = IF IsFull(es) THEN Len(es) ELSE Len(es) + 1
  <2>1. CASE IsFull(es)
    <3> DEFINE v    == Victim(es)
               kept == RemoveAt(es, v)
    <3>1. v \in 1 .. Len(es)
      BY <2>1, VictimInDomain DEF IsFull
    <3>2. kept \in Seq(Entry) /\ Len(kept) = Len(es) - 1
      BY <3>1, RemoveAtProperties
    <3>3. Store(es, x) = Append(kept, x)
      BY <2>1 DEF Store
    <3> HIDE DEF v, kept
    <3>4. Len(Append(kept, x)) = Len(kept) + 1
      BY <3>2, AppendProperties
    <3> QED BY <1>0, <2>1, <3>2, <3>3, <3>4
  <2>2. CASE ~ IsFull(es)
    BY <2>2, AppendProperties DEF Store
  <2> QED BY <2>1, <2>2
<1> QED BY <1>1, <1>2, InsertKeeps, ContentsAfterInsert

-----------------------------------------------------------------------------
(* The inductive invariant.                                                *)
LookupInv == TypeOK /\ PendingValid

(* A pending lookup designates an entry of the cache.                      *)
LEMMA PendingInDomain ==
  ASSUME LookupInv, NEW t \in Threads, lookup[t] # Idle
  PROVE  /\ lookup[t] \in Pending
         /\ lookup[t].index \in 1 .. Len(entries)
         /\ lookup[t].index = Find(entries, lookup[t].want)
<1>1. lookup[t] \in Pending
  BY DEF LookupInv, TypeOK
<1>2. lookup[t].index = Find(entries, lookup[t].want)
  BY DEF LookupInv, PendingValid, Readers
<1>3. lookup[t].index \in 0 .. Len(entries) /\ lookup[t].index # 0
  BY <1>1, <1>2, FindInDomain DEF LookupInv, TypeOK, Pending
<1>4. Len(entries) \in Nat
  BY LenProperties DEF LookupInv, TypeOK
<1> QED BY <1>1, <1>2, <1>3, <1>4

(* A stamp changes no content.                                             *)
LEMMA TouchKeepsContents ==
  ASSUME LookupInv, NEW t \in Threads, Touch(t)
  PROVE  entries' \in Seq(Entry) /\ Contents(entries') = Contents(entries)
<1> DEFINE i == lookup[t].index
           n == lookup[t].stamp
<1>1. i \in 1 .. Len(entries) /\ n \in 0 .. MaxClock
  BY PendingInDomain DEF Touch, Pending
<1>2. entries' = [entries EXCEPT ![i].last_accessed = n]
  BY DEF Touch
<1> HIDE DEF i, n
<1>3. entries \in Seq(Entry)
  BY DEF LookupInv, TypeOK
<1> QED BY <1>1, <1>2, <1>3, ContentsOfTouch

LEMMA InitLookupInv == Init => LookupInv
<1> SUFFICES ASSUME Init PROVE LookupInv
  OBVIOUS
<1>1. << >> \in Seq(Entry)
  BY EmptySeq
<1>2. TypeOK
  BY <1>1, CacheAssumption DEF Init, TypeOK
<1>3. PendingValid
  BY DEF Init, PendingValid, Readers
<1> QED BY <1>2, <1>3 DEF LookupInv

LEMMA NextLookupInv == LookupInv /\ [Next]_vars => LookupInv'
<1> SUFFICES ASSUME LookupInv, [Next]_vars PROVE LookupInv'
  OBVIOUS
<1> USE DEF LookupInv
<1>1. ASSUME NEW t \in Threads, NEW want \in Queries \cup Embeddings,
             FindNothing(t, want)
      PROVE  LookupInv'
  <2>1. TypeOK'
    BY <1>1 DEF FindNothing, TypeOK
  <2>2. PendingValid'
    BY <1>1 DEF FindNothing, PendingValid, Readers
  <2> QED BY <2>1, <2>2
<1>2. ASSUME NEW t \in Threads, NEW want \in Queries \cup Embeddings,
             FindEntry(t, want)
      PROVE  LookupInv'
  <2>1. PICK now \in Now :
          /\ lookup' = [lookup EXCEPT ![t] = [index |-> Find(entries, want),
                                              want  |-> want,
                                              stamp |-> now]]
          /\ clock' = now
    BY <1>2 DEF FindEntry
  <2>2. now \in 0 .. MaxClock
    BY DEF Now
  <2>3. Find(entries, want) \in Nat \ {0}
    <3>1. Find(entries, want) \in 0 .. Len(entries) /\ Len(entries) \in Nat
      BY FindInDomain, LenProperties DEF TypeOK
    <3> QED BY <3>1, <1>2 DEF FindEntry
  <2>4. TypeOK'
    BY <1>2, <2>1, <2>2, <2>3 DEF FindEntry, TypeOK, Pending
  <2>5. PendingValid'
    BY <1>2, <2>1 DEF FindEntry, PendingValid, Readers, TypeOK
  <2> QED BY <2>4, <2>5
<1>3. ASSUME NEW t \in Threads, Touch(t)
      PROVE  LookupInv'
  <2> DEFINE i == lookup[t].index
  <2>1. i \in 1 .. Len(entries)
    BY <1>3, PendingInDomain DEF Touch
  <2>2. /\ reply' = [reply EXCEPT ![t] = entries[i].response]
        /\ lookup' = [lookup EXCEPT ![t] = Idle]
        /\ clock' = clock
    BY <1>3 DEF Touch
  <2> HIDE DEF i
  <2>3. entries' \in Seq(Entry) /\ Contents(entries') = Contents(entries)
    BY <1>3, TouchKeepsContents
  <2>4. entries[i].response \in Responses
    <3>1. entries \in Seq(Entry)
      BY DEF TypeOK
    <3>2. entries[i] \in Entry
      BY <2>1, <3>1, ElementOfSeq
    <3> QED BY <3>2 DEF Entry
  <2>5. TypeOK'
    BY <2>2, <2>3, <2>4 DEF TypeOK
  <2>6. \A want : Find(entries', want) = Find(entries, want)
    BY <2>3, FindInContents DEF Find, TypeOK
  <2>7. PendingValid'
    BY <2>2, <2>6 DEF PendingValid, Readers, TypeOK
  <2> QED BY <2>5, <2>7
<1>4. ASSUME NEW q \in Queries, NEW e \in Embeddings, NEW r \in Responses,
             Insert(q, e, r)
      PROVE  LookupInv'
  <2>1. PICK now \in Now :
          /\ entries' = Store(entries, [query         |-> q,
                                        embedding     |-> e,
                                        response      |-> r,
                                        last_accessed |-> now])
          /\ clock' = now
    BY <1>4 DEF Insert
  <2>2. now \in 0 .. MaxClock
    BY DEF Now
  <2>3. entries' \in Seq(Entry)
    BY <2>1, <2>2, StoreProperties DEF TypeOK, Entry
  <2>4. TypeOK'
    BY <1>4, <2>1, <2>2, <2>3 DEF Insert, TypeOK
  <2>5. PendingValid'
    BY <1>4 DEF Insert, PendingValid, Readers
  <2> QED BY <2>4, <2>5
<1>5. CASE UNCHANGED vars
  BY <1>5 DEF vars, TypeOK, PendingValid, Readers
<1> QED BY <1>1, <1>2, <1>3, <1>4, <1>5 DEF Next, GetExact, GetSimilar

LEMMA AlwaysLookupInv == Spec => []LookupInv
BY InitLookupInv, NextLookupInv, PTL DEF Spec

(* Every reachable state of the cache is well typed: the index a lookup    *)
(* stamps is never 0 and every answer is a response that was stored.       *)
THEOREM TypeCorrect == Spec => []TypeOK
BY AlwaysLookupInv, PTL DEF LookupInv

(* The read lock protects a lookup between its match and its stamp: what   *)
(* it designates stays what a fresh scan would find.                       *)
THEOREM LookupsStable == Spec => []PendingValid
BY AlwaysLookupInv, PTL DEF LookupInv

(* A cache never outgrows its capacity, one entry in a cache of capacity 0 *)
(* excepted.                                                               *)
THEOREM Bounded == Spec => []CapacityBound
<1>1. Init => CapacityBound
  <2>1. Len(<< >>) = 0
    BY EmptySeq
  <2> QED BY <2>1, LookupAssumption DEF Init, CapacityBound
<1>2. TypeOK /\ CapacityBound /\ [Next]_vars => CapacityBound'
  <2> SUFFICES ASSUME TypeOK, CapacityBound, [Next]_vars PROVE CapacityBound'
    OBVIOUS
  <2>1. CASE UNCHANGED entries
    BY <2>1 DEF CapacityBound
  <2>2. ASSUME NEW t \in Threads, Touch(t)
        PROVE  CapacityBound'
    <3> DEFINE i == lookup[t].index
    <3>1. entries \in Seq(Entry)
      BY DEF TypeOK
    <3>2. /\ DOMAIN entries' = DOMAIN entries
          /\ entries' = [entries EXCEPT ![i].last_accessed = lookup[t].stamp]
      BY <2>2 DEF Touch
    <3>3. Len(entries') = Len(entries)
      BY <3>1, <3>2
    <3> QED BY <3>3 DEF CapacityBound
  <2>3. ASSUME NEW q \in Queries, NEW e \in Embeddings, NEW r \in Responses,
               Insert(q, e, r)
        PROVE  CapacityBound'
    <3>1. PICK now \in Now :
            entries' = Store(entries, [query         |-> q,
                                       embedding     |-> e,
                                       response      |-> r,
                                       last_accessed |-> now])
      BY <2>3 DEF Insert
    <3>2. now \in 0 .. MaxClock
      BY DEF Now
    <3>3. Len(entries') = IF IsFull(entries) THEN Len(entries)
                          ELSE Len(entries) + 1
      BY <3>1, <3>2, StoreProperties DEF TypeOK, Entry
    <3>4. Len(entries) \in Nat /\ Capacity \in Nat
      BY LenProperties, LookupAssumption DEF TypeOK
    <3>5. entries = << >> <=> Len(entries) = 0
      BY EmptySeq DEF TypeOK
    <3> QED BY <3>3, <3>4, <3>5 DEF CapacityBound, IsFull
  <2> QED BY <2>1, <2>2, <2>3
          DEF Next, GetExact, GetSimilar, FindNothing, FindEntry, vars
<1> QED BY <1>1, <1>2, TypeCorrect, PTL DEF Spec

(* The contract reads the contents with the operators of the cache.        *)
LEMMA SameOperators ==
  ASSUME NEW s, NEW want, NEW x
  PROVE  /\ Contract!ExactIndex(s, want) = ExactIndex(s, want)
         /\ Contract!SimilarIndex(s, want) = SimilarIndex(s, want)
         /\ Contract!AfterInsert(s, x) = AfterInsert(s, x)
<1>1. Contract!ExactIndex(s, want) = ExactIndex(s, want)
  BY DEF Contract!ExactIndex, ExactIndex, Contract!SelectInSeq, SelectInSeq,
         Contract!Min, Min
<1>2. Contract!SimilarIndex(s, want) = SimilarIndex(s, want)
  BY DEF Contract!SimilarIndex, SimilarIndex, Contract!Similar, Similar,
         Contract!Min, Min,
         Contract!LowestSimilarity, LowestSimilarity
<1>3. Contract!AfterInsert(s, x) = AfterInsert(s, x)
  BY DEF Contract!AfterInsert, AfterInsert, Contract!IsFull, IsFull,
         Contract!RemoveAt, RemoveAt
<1> QED BY <1>1, <1>2, <1>3

(* The cache implements its contract: a lookup split by the lock takes     *)
(* effect at its last step, and every other step is invisible or is the    *)
(* insertion the contract allows.                                          *)
THEOREM CacheImplementsContract == Spec => ImplementsContract
<1>1. Init => Contract!Init
  <2> SUFFICES ASSUME Init PROVE Contract!Init
    OBVIOUS
  <2>1. << >> \in Seq(Entry) /\ Len(<< >>) = 0
    BY EmptySeq
  <2>2. /\ Contents(<< >>) \in Seq(Bare(Entry))
        /\ Len(Contents(<< >>)) = 0
    BY <2>1, ContentsProperties
  <2>3. Contents(<< >>) = << >>
    BY <2>2, EmptySeq
  <2> QED BY <2>3 DEF Init, Contract!Init
<1>2. LookupInv /\ [Next]_vars => [Contract!Next]_(Contract!vars)
  <2> SUFFICES ASSUME LookupInv, [Next]_vars
               PROVE  [Contract!Next]_(Contract!vars)
    OBVIOUS
  <2>0. entries \in Seq(Entry)
    BY DEF LookupInv, TypeOK
  <2>1. ASSUME NEW t \in Threads, NEW want \in Queries \cup Embeddings,
               FindNothing(t, want)
        PROVE  Contract!Next
    <3>1. /\ reply' = [reply EXCEPT ![t] = Nothing]
          /\ UNCHANGED Contents(entries)
          /\ Find(entries, want) = 0
      BY <2>1 DEF FindNothing
    <3>2. CASE want \in Queries
      <4>1. ExactIndex(Contents(entries), want) = 0
        BY <2>0, <3>1, <3>2, FindInContents DEF Find
      <4>2. Contract!GetExact(t, want)
        BY <3>1, <4>1, SameOperators DEF Contract!GetExact, Contract!Return
      <4> QED BY <3>2, <4>2 DEF Contract!Next
    <3>3. CASE want \notin Queries
      <4>1. SimilarIndex(Contents(entries), want) = 0
        BY <2>0, <3>1, <3>3, FindInContents DEF Find
      <4>2. Contract!GetSimilar(t, want)
        BY <3>1, <4>1, SameOperators DEF Contract!GetSimilar, Contract!Return
      <4> QED BY <3>3, <4>2 DEF Contract!Next
    <3> QED BY <3>2, <3>3
  <2>2. ASSUME NEW t \in Threads, NEW want \in Queries \cup Embeddings,
               FindEntry(t, want)
        PROVE  UNCHANGED Contract!vars
    BY <2>2 DEF FindEntry, Contract!vars
  <2>3. ASSUME NEW t \in Threads, Touch(t)
        PROVE  Contract!Next
    <3> DEFINE i == lookup[t].index
               want == lookup[t].want
    <3>1. /\ i \in 1 .. Len(entries)
          /\ i = Find(entries, want)
          /\ want \in Queries \cup Embeddings
      BY <2>3, PendingInDomain DEF Touch, Pending
    <3>2. reply' = [reply EXCEPT ![t] = entries[i].response]
      BY <2>3 DEF Touch
    <3> HIDE DEF i, want
    <3>3. Contents(entries') = Contents(entries)
      BY <2>3, TouchKeepsContents
    <3>4. /\ i # 0
          /\ Contents(entries)[i].response = entries[i].response
      <4>1. Contents(entries)[i] = Content(entries[i])
        BY <2>0, <3>1, ContentsProperties
      <4>2. Content(entries[i]).response = entries[i].response
        BY DEF Content
      <4>3. i # 0
        BY <3>1
      <4> QED BY <4>1, <4>2, <4>3
    <3>5. CASE want \in Queries
      <4>1. ExactIndex(Contents(entries), want) = i
        BY <2>0, <3>1, <3>5, FindInContents DEF Find
      <4>2. Contract!GetExact(t, want)
        BY <3>2, <3>3, <3>4, <4>1, SameOperators
           DEF Contract!GetExact, Contract!Return
      <4> QED BY <3>5, <4>2 DEF Contract!Next
    <3>6. CASE want \notin Queries
      <4>1. SimilarIndex(Contents(entries), want) = i
        BY <2>0, <3>1, <3>6, FindInContents DEF Find
      <4>2. Contract!GetSimilar(t, want)
        BY <3>2, <3>3, <3>4, <4>1, SameOperators
           DEF Contract!GetSimilar, Contract!Return
      <4> QED BY <3>1, <3>6, <4>2 DEF Contract!Next
    <3> QED BY <3>5, <3>6
  <2>4. ASSUME NEW q \in Queries, NEW e \in Embeddings, NEW r \in Responses,
               Insert(q, e, r)
        PROVE  Contract!Next
    <3>1. PICK now \in Now :
            entries' = Store(entries, [query         |-> q,
                                       embedding     |-> e,
                                       response      |-> r,
                                       last_accessed |-> now])
      BY <2>4 DEF Insert
    <3> DEFINE x == [query         |-> q,
                     embedding     |-> e,
                     response      |-> r,
                     last_accessed |-> now]
    <3>2. /\ x \in Entry
          /\ Content(x) = [query |-> q, embedding |-> e, response |-> r]
      BY DEF Now, Entry, Content
    <3>3. Contents(entries') \in AfterInsert(Contents(entries), Content(x))
      BY <2>0, <3>1, <3>2, StoreProperties
    <3>4. Contract!Insert(q, e, r)
      BY <2>4, <3>2, <3>3, SameOperators DEF Insert, Contract!Insert
    <3> QED BY <3>4 DEF Contract!Next
  <2>5. CASE UNCHANGED vars
    BY <2>5 DEF vars, Contract!vars
  <2> QED BY <2>1, <2>2, <2>3, <2>4, <2>5 DEF Next, GetExact, GetSimilar
<1> QED BY <1>1, <1>2, AlwaysLookupInv, PTL
        DEF Spec, ImplementsContract, Contract!Spec

-----------------------------------------------------------------------------
(* Least-recently-used eviction, where lookups do not overlap and the      *)
(* clock advances at every read.                                           *)
Sequential ==
    /\ \A t, u \in Threads : t = u
    /\ \A d \in ClockSteps : d > 0

(* When the use of an entry began and ended, counted in events. *)
Use == [began : Nat, ended : Nat]

(* The record has a use for each entry and counts in naturals. *)
Recorded ==
    /\ uses \in Seq(Use) /\ Len(uses) = Len(entries)
    /\ events \in Nat /\ lost \in Nat /\ lost < events
    /\ started \in [Threads -> Nat]

(* Every use and stamp lies in the past, and the entry given up was used   *)
(* before those that are kept.                                             *)
Past ==
    \A i \in 1 .. Len(entries) :
        /\ lost <= uses[i].began
        /\ uses[i].began <= uses[i].ended
        /\ uses[i].ended < events
        /\ entries[i].last_accessed <= clock

(* A lookup under way began after all that was used, with a newer stamp.   *)
InUse ==
    \A t \in Readers :
        /\ started[t] < events
        /\ lookup[t].stamp <= clock
        /\ \A i \in 1 .. Len(entries) :
              /\ uses[i].ended < started[t]
              /\ entries[i].last_accessed < lookup[t].stamp

(* The stamps are in the order of the uses, which do not overlap. *)
InOrder ==
    \A i, j \in 1 .. Len(entries) :
        i # j /\ entries[i].last_accessed <= entries[j].last_accessed
        => uses[i].ended < uses[j].began

LRUInv == Sequential /\ LookupInv /\ Recorded /\ Past /\ InUse /\ InOrder

(* What the order of the stamps rests on has its types. *)
LEMMA StampTypes ==
  ASSUME LRUInv
  PROVE  /\ Len(entries) \in Nat /\ clock \in Nat /\ events \in Nat /\ lost \in Nat
         /\ DOMAIN uses = 1 .. Len(entries)
         /\ \A i \in 1 .. Len(entries) :
               /\ entries[i] \in Entry /\ entries[i].last_accessed \in Nat
               /\ uses[i] \in Use /\ uses[i].began \in Nat /\ uses[i].ended \in Nat
<1>1. entries \in Seq(Entry) /\ uses \in Seq(Use) /\ Len(uses) = Len(entries)
  BY DEF LRUInv, LookupInv, TypeOK, Recorded
<1>2. Len(entries) \in Nat /\ DOMAIN uses = 1 .. Len(entries)
  BY <1>1, LenProperties
<1>3. \A i \in 1 .. Len(entries) : entries[i] \in Entry /\ uses[i] \in Use
  BY <1>1, ElementOfSeq
<1>4. clock \in Nat /\ events \in Nat /\ lost \in Nat
  BY CacheAssumption DEF LRUInv, LookupInv, TypeOK, Recorded
<1> QED BY <1>2, <1>3, <1>4, CacheAssumption DEF Entry, Use

(* A clock that advances is beyond every stamp. *)
LEMMA NowIsLater ==
  ASSUME LRUInv, NEW now \in Now
  PROVE  now \in Nat /\ clock < now
BY StampTypes, CacheAssumption DEF Now, LRUInv, Sequential

(* The three kinds of step keep the stamps in the order of the uses.       *)
LEMMA FindKeepsOrder ==
  ASSUME LRUInv, NEW t \in Threads, NEW want \in Queries \cup Embeddings,
         FindEntryLRU(t, want)
  PROVE  Recorded' /\ Past' /\ InUse' /\ InOrder'
<1>1. PICK now \in Now :
         /\ lookup' = [lookup EXCEPT ![t] = [index |-> Find(entries, want),
                                             want  |-> want,
                                             stamp |-> now]]
         /\ clock' = now
  BY DEF FindEntryLRU, FindEntry
<1>2. /\ UNCHANGED <<entries, uses, lost>>
      /\ started' = [started EXCEPT ![t] = events] /\ events' = events + 1
  BY DEF FindEntryLRU, FindEntry
<1>3. now \in Nat /\ clock < now
  BY NowIsLater
<1>4. Recorded'
  BY <1>2, StampTypes DEF LRUInv, Recorded
<1>5. Past'
  BY <1>1, <1>2, <1>3, StampTypes DEF LRUInv, Past
<1>6. InUse'
  <2> SUFFICES ASSUME NEW u \in Threads
               PROVE  /\ started'[u] < events'
                      /\ lookup'[u].stamp <= clock'
                      /\ \A i \in 1 .. Len(entries') :
                            /\ uses'[i].ended < started'[u]
                            /\ entries'[i].last_accessed < lookup'[u].stamp
    BY DEF InUse, Readers
  <2>1. u = t
    BY DEF LRUInv, Sequential
  <2>2. started'[u] = events /\ lookup'[u].stamp = now
    BY <1>1, <1>2, <2>1 DEF LRUInv, LookupInv, TypeOK, Recorded
  <2>3. \A i \in 1 .. Len(entries) : uses[i].ended < events /\ entries[i].last_accessed < now
    BY <1>3, StampTypes DEF LRUInv, Past
  <2> QED BY <1>1, <1>2, <1>3, <2>2, <2>3, StampTypes
<1>7. InOrder'
  BY <1>2 DEF LRUInv, InOrder
<1> QED BY <1>4, <1>5, <1>6, <1>7

LEMMA TouchKeepsOrder ==
  ASSUME LRUInv, NEW t \in Threads, TouchLRU(t)
  PROVE  Recorded' /\ Past' /\ InUse' /\ InOrder'
<1> DEFINE k == lookup[t].index
           stamp == lookup[t].stamp
<1>1. /\ t \in Readers /\ k \in 1 .. Len(entries) /\ stamp \in Nat
  BY PendingInDomain, CacheAssumption DEF TouchLRU, Touch, Readers, LRUInv,
     Pending
<1>2. /\ started[t] < events /\ stamp <= clock
      /\ \A i \in 1 .. Len(entries) :
            uses[i].ended < started[t] /\ entries[i].last_accessed < stamp
  BY <1>1 DEF LRUInv, InUse
<1>3. started[t] \in Nat
  BY DEF LRUInv, Recorded
<1>4. Later(uses[k].began, started[t]) = started[t]
  BY <1>1, <1>2, <1>3, StampTypes DEF Later, LRUInv, Past
<1>5. /\ uses' = [uses EXCEPT ![k] = [began |-> started[t], ended |-> events]]
      /\ events' = events + 1 /\ UNCHANGED <<started, lost, clock>>
      /\ lookup' = [lookup EXCEPT ![t] = Idle]
      /\ entries' = [entries EXCEPT ![k].last_accessed = stamp]
  BY <1>4 DEF TouchLRU, Touch
<1> HIDE DEF k, stamp
<1>6. /\ entries' \in Seq(Entry) /\ Len(entries') = Len(entries)
      /\ \A i \in 1 .. Len(entries) :
            entries'[i].last_accessed = IF i = k THEN stamp ELSE entries[i].last_accessed
  <2>1. entries \in Seq(Entry)
    BY DEF LRUInv, LookupInv, TypeOK
  <2>2. entries' \in Seq(Entry)
    BY TouchKeepsContents DEF TouchLRU, LRUInv
  <2>3. Len(entries') = Len(entries)
    BY <1>1, <1>5, <2>1
  <2>4. \A i \in 1 .. Len(entries) : entries[i] \in Entry
    BY StampTypes
  <2>5. \A i \in 1 .. Len(entries) :
           entries'[i].last_accessed = IF i = k THEN stamp ELSE entries[i].last_accessed
    BY <1>1, <1>5, <2>1, <2>4 DEF Entry
  <2> QED BY <2>2, <2>3, <2>5
<1>7. /\ uses' \in Seq(Use) /\ Len(uses') = Len(uses)
      /\ \A i \in 1 .. Len(entries) :
            uses'[i] = IF i = k THEN [began |-> started[t], ended |-> events] ELSE uses[i]
  <2>1. uses \in Seq(Use) /\ Len(uses) = Len(entries) /\ events \in Nat
    BY DEF LRUInv, Recorded
  <2>2. [began |-> started[t], ended |-> events] \in Use
    BY <1>3, <2>1 DEF Use
  <2> QED BY <1>1, <1>5, <2>1, <2>2
<1>8. Recorded'
  BY <1>5, <1>6, <1>7, StampTypes DEF LRUInv, Recorded
<1>9. Past'
  <2> SUFFICES ASSUME NEW i \in 1 .. Len(entries)
               PROVE  /\ lost' <= uses'[i].began
                      /\ uses'[i].began <= uses'[i].ended
                      /\ uses'[i].ended < events'
                      /\ entries'[i].last_accessed <= clock'
    BY <1>6 DEF Past
  <2>1. /\ lost <= uses[i].began /\ uses[i].began <= uses[i].ended
        /\ uses[i].ended < events /\ entries[i].last_accessed <= clock
    BY DEF LRUInv, Past
  <2>2. CASE i = k
    BY <1>2, <1>3, <1>5, <1>6, <1>7, <2>1, <2>2, StampTypes
  <2>3. CASE i # k
    BY <1>5, <1>6, <1>7, <2>1, <2>3, StampTypes
  <2> QED BY <2>2, <2>3
<1>10. InUse'
  <2>1. \A u \in Threads : lookup'[u] = Idle
    BY <1>5 DEF LRUInv, Sequential, LookupInv, TypeOK
  <2> QED BY <2>1 DEF InUse, Readers
<1>11. InOrder'
  <2> SUFFICES ASSUME NEW i \in 1 .. Len(entries), NEW j \in 1 .. Len(entries), i # j,
                      entries'[i].last_accessed <= entries'[j].last_accessed
               PROVE  uses'[i].ended < uses'[j].began
    BY <1>6 DEF InOrder
  <2>1. CASE i = k
    BY <1>1, <1>2, <1>6, <2>1, StampTypes
  <2>2. CASE j = k
    BY <1>2, <1>7, <2>2
  <2>3. CASE i # k /\ j # k
    BY <1>6, <1>7, <2>3 DEF LRUInv, InOrder
  <2> QED BY <2>1, <2>2, <2>3
<1> QED BY <1>8, <1>9, <1>10, <1>11

(* An insertion puts its entry last, with its use; the others keep theirs. *)
Stored(new, renewed, es, us, x, y) ==
    /\ renewed \in Seq(Use) /\ Len(renewed) = Len(new) /\ Len(new) \in Nat \ {0}
    /\ new[Len(new)] = x /\ renewed[Len(new)] = y
    /\ \E was \in [1 .. Len(new) - 1 -> 1 .. Len(es)] :
          /\ \A i, j \in 1 .. Len(new) - 1 : i # j => was[i] # was[j]
          /\ \A i \in 1 .. Len(new) - 1 :
                /\ new[i] = es[was[i]] /\ renewed[i] = us[was[i]]
                /\ IsFull(es) => was[i] # Victim(es)

(* The entries after an insertion are entries there were, and the new one. *)
LEMMA StoredFrom ==
  ASSUME NEW es \in Seq(Entry), NEW x \in Entry,
         NEW us \in Seq(Use), Len(us) = Len(es), NEW y \in Use, NEW new, NEW renewed,
         new = Store(es, x),
         IsFull(es) => renewed = Append(RemoveAt(us, Victim(es)), y),
         ~ IsFull(es) => renewed = Append(us, y)
  PROVE  Stored(new, renewed, es, us, x, y)
<1>1. Len(es) \in Nat
  BY LenProperties
<1>2. CASE IsFull(es)
  <2> DEFINE v == Victim(es)
             few == RemoveAt(es, v)
             fewer == RemoveAt(us, v)
  <2>1. v \in 1 .. Len(es)
    BY <1>2, VictimInDomain DEF IsFull
  <2>2. new = Append(few, x) /\ renewed = Append(fewer, y)
    BY <1>2 DEF Store
  <2> HIDE DEF v
  <2>3. /\ few \in Seq(Entry) /\ Len(few) = Len(es) - 1
        /\ \A j \in 1 .. Len(es) - 1 : few[j] = IF j < v THEN es[j] ELSE es[j + 1]
    BY <2>1, RemoveAtProperties
  <2>4. /\ fewer \in Seq(Use) /\ Len(fewer) = Len(es) - 1
        /\ \A j \in 1 .. Len(es) - 1 : fewer[j] = IF j < v THEN us[j] ELSE us[j + 1]
    BY <2>1, RemoveAtProperties
  <2> HIDE DEF few, fewer
  <2>5. /\ Len(new) = Len(es) /\ new[Len(es)] = x
        /\ \A j \in 1 .. Len(es) - 1 : new[j] = few[j]
    BY <1>1, <2>2, <2>3, AppendProperties
  <2>6. /\ renewed \in Seq(Use) /\ Len(renewed) = Len(es) /\ renewed[Len(es)] = y
        /\ \A j \in 1 .. Len(es) - 1 : renewed[j] = fewer[j]
    <3>1. /\ Append(fewer, y) \in Seq(Use) /\ Len(Append(fewer, y)) = Len(fewer) + 1
          /\ Append(fewer, y)[Len(fewer) + 1] = y
          /\ \A j \in 1 .. Len(fewer) : Append(fewer, y)[j] = fewer[j]
      BY <2>4, AppendProperties
    <3>2. Len(fewer) + 1 = Len(es) /\ 1 .. Len(fewer) = 1 .. Len(es) - 1
      BY <1>1, <2>4
    <3> QED BY <2>2, <3>1, <3>2
  <2> DEFINE was == [j \in 1 .. Len(es) - 1 |-> IF j < v THEN j ELSE j + 1]
  <2>7. /\ was \in [1 .. Len(es) - 1 -> 1 .. Len(es)]
        /\ \A i, j \in 1 .. Len(es) - 1 : i # j => was[i] # was[j]
        /\ \A i \in 1 .. Len(es) - 1 : was[i] # Victim(es)
    BY <1>1, <2>1 DEF v
  <2>8. \A i \in 1 .. Len(es) - 1 : new[i] = es[was[i]] /\ renewed[i] = us[was[i]]
    BY <2>3, <2>4, <2>5, <2>6
  <2> HIDE DEF was
  <2>9. 1 .. Len(new) - 1 = 1 .. Len(es) - 1 /\ Len(new) \in Nat \ {0}
    BY <1>1, <2>1, <2>5
  <2>10. \E w \in [1 .. Len(new) - 1 -> 1 .. Len(es)] :
            /\ \A i, j \in 1 .. Len(new) - 1 : i # j => w[i] # w[j]
            /\ \A i \in 1 .. Len(new) - 1 :
                  /\ new[i] = es[w[i]] /\ renewed[i] = us[w[i]]
                  /\ IsFull(es) => w[i] # Victim(es)
    <3>1. was \in [1 .. Len(new) - 1 -> 1 .. Len(es)]
      BY <2>7, <2>9
    <3> WITNESS was \in [1 .. Len(new) - 1 -> 1 .. Len(es)]
    <3> QED BY <2>7, <2>8, <2>9
  <2> QED BY <1>1, <2>1, <2>5, <2>6, <2>9, <2>10 DEF Stored
<1>3. CASE ~ IsFull(es)
  <2>1. new = Append(es, x) /\ renewed = Append(us, y)
    BY <1>3 DEF Store
  <2>2. /\ Len(new) = Len(es) + 1 /\ new[Len(es) + 1] = x
        /\ \A j \in 1 .. Len(es) : new[j] = es[j]
    BY <1>1, <2>1, AppendProperties
  <2>3. /\ renewed \in Seq(Use) /\ Len(renewed) = Len(es) + 1 /\ renewed[Len(es) + 1] = y
        /\ \A j \in 1 .. Len(es) : renewed[j] = us[j]
    <3>1. /\ Append(us, y) \in Seq(Use) /\ Len(Append(us, y)) = Len(us) + 1
          /\ Append(us, y)[Len(us) + 1] = y
          /\ \A j \in 1 .. Len(us) : Append(us, y)[j] = us[j]
      BY AppendProperties
    <3> QED BY <2>1, <3>1
  <2>4. Len(new) - 1 = Len(es)
    BY <1>1, <2>2
  <2> DEFINE was == [j \in 1 .. Len(es) |-> j]
  <2>5. /\ was \in [1 .. Len(es) -> 1 .. Len(es)]
        /\ \A i, j \in 1 .. Len(es) : i # j => was[i] # was[j]
        /\ \A i \in 1 .. Len(es) : new[i] = es[was[i]] /\ renewed[i] = us[was[i]]
    BY <2>2, <2>3
  <2> HIDE DEF was
  <2>6. \E w \in [1 .. Len(new) - 1 -> 1 .. Len(es)] :
           /\ \A i, j \in 1 .. Len(new) - 1 : i # j => w[i] # w[j]
           /\ \A i \in 1 .. Len(new) - 1 :
                 /\ new[i] = es[w[i]] /\ renewed[i] = us[w[i]]
                 /\ IsFull(es) => w[i] # Victim(es)
    <3>1. was \in [1 .. Len(new) - 1 -> 1 .. Len(es)]
      BY <2>4, <2>5
    <3> WITNESS was \in [1 .. Len(new) - 1 -> 1 .. Len(es)]
    <3> QED BY <1>3, <2>4, <2>5
  <2>7. Len(new) \in Nat \ {0}
    BY <1>1, <2>2
  <2> QED BY <2>2, <2>3, <2>6, <2>7 DEF Stored
<1> QED BY <1>2, <1>3

LEMMA InsertKeepsOrder ==
  ASSUME LRUInv, NEW q \in Queries, NEW e \in Embeddings, NEW r \in Responses,
         InsertLRU(q, e, r)
  PROVE  Recorded' /\ Past' /\ InUse' /\ InOrder'
<1>1. PICK now \in Now :
         /\ entries' = Store(entries, [query         |-> q,
                                       embedding     |-> e,
                                       response      |-> r,
                                       last_accessed |-> now])
         /\ clock' = now
  BY DEF InsertLRU, Insert
<1> DEFINE x == [query |-> q, embedding |-> e, response |-> r, last_accessed |-> now]
           y == [began |-> events, ended |-> events]
           v == Victim(entries)
           n == Len(entries')
<1>2. now \in Nat /\ clock < now /\ now \in 0 .. MaxClock
  BY NowIsLater DEF Now
<1>3. x \in Entry /\ y \in Use /\ x.last_accessed = now
  BY <1>2, StampTypes DEF Entry, Use
<1>4. /\ Readers = {} /\ lookup' = lookup /\ started' = started /\ events' = events + 1
      /\ lost' = IF IsFull(entries) THEN Later(lost, uses[v].began) ELSE lost
  BY DEF InsertLRU, Insert
<1>5. entries \in Seq(Entry) /\ uses \in Seq(Use) /\ Len(uses) = Len(entries)
  BY DEF LRUInv, LookupInv, TypeOK, Recorded
<1>6. IsFull(entries) => /\ v \in 1 .. Len(entries)
                         /\ \A i \in 1 .. Len(entries) :
                               entries[v].last_accessed <= entries[i].last_accessed
  BY <1>5, VictimInDomain DEF IsFull
<1>7. /\ uses' \in Seq(Use) /\ Len(uses') = n /\ n \in Nat \ {0}
      /\ entries'[n] = x /\ uses'[n] = y
      /\ \E was \in [1 .. n - 1 -> 1 .. Len(entries)] :
               /\ \A i, j \in 1 .. n - 1 : i # j => was[i] # was[j]
               /\ \A i \in 1 .. n - 1 :
                     /\ entries'[i] = entries[was[i]] /\ uses'[i] = uses[was[i]]
                     /\ IsFull(entries) => was[i] # v
  <2>1. entries' = Store(entries, x)
    BY <1>1
  <2> HIDE DEF x, y, n
  <2>2. /\ IsFull(entries) => uses' = Append(RemoveAt(uses, Victim(entries)), y)
        /\ ~ IsFull(entries) => uses' = Append(uses, y)
    BY DEF InsertLRU, y
  <2> HIDE DEF v
  <2>3. Stored(entries', uses', entries, uses, x, y)
    BY <1>3, <1>5, <2>1, <2>2, StoredFrom
  <2> QED BY <2>3 DEF Stored, n, v
<1> PICK was \in [1 .. n - 1 -> 1 .. Len(entries)] :
         /\ \A i, j \in 1 .. n - 1 : i # j => was[i] # was[j]
         /\ \A i \in 1 .. n - 1 :
               /\ entries'[i] = entries[was[i]] /\ uses'[i] = uses[was[i]]
               /\ IsFull(entries) => was[i] # v
  BY <1>7
<1> HIDE DEF n, x, v
<1>8. /\ lost' \in Nat /\ lost <= lost' /\ lost' < events
      /\ \A i \in 1 .. n - 1 : lost' <= uses[was[i]].began
  <2>1. CASE IsFull(entries)
    <3>1. /\ uses[v].began \in Nat /\ uses[v].ended \in Nat
          /\ uses[v].began <= uses[v].ended /\ uses[v].ended < events
      BY <1>6, <2>1, StampTypes DEF LRUInv, Past
    <3>2. \A i \in 1 .. n - 1 : uses[v].ended < uses[was[i]].began
      BY <1>6, <2>1 DEF LRUInv, InOrder
    <3>3. \A i \in 1 .. n - 1 : lost <= uses[was[i]].began /\ uses[was[i]].began \in Nat
      BY StampTypes DEF LRUInv, Past
    <3>4. lost \in Nat /\ events \in Nat /\ lost < events
      BY DEF LRUInv, Recorded
    <3> QED BY <1>4, <2>1, <3>1, <3>2, <3>3, <3>4 DEF Later
  <2>2. CASE ~ IsFull(entries)
    BY <1>4, <2>2, StampTypes DEF LRUInv, Recorded, Past
  <2> QED BY <2>1, <2>2
<1>9. \A i \in 1 .. n : i = n \/ i \in 1 .. n - 1
  BY <1>7
<1>10. y.began = events /\ y.ended = events
  OBVIOUS
<1> HIDE DEF y
<1>11. \A i \in 1 .. n - 1 :
          /\ entries'[i].last_accessed \in Nat /\ entries'[i].last_accessed < now
          /\ uses'[i].began \in Nat /\ uses'[i].ended \in Nat
          /\ uses'[i].began <= uses'[i].ended /\ uses'[i].ended < events
  BY <1>2, StampTypes DEF LRUInv, Past
<1>12. Recorded'
  BY <1>4, <1>7, <1>8, StampTypes DEF LRUInv, Recorded, n
<1>13. Past'
  <2> SUFFICES ASSUME NEW i \in 1 .. n
               PROVE  /\ lost' <= uses'[i].began
                      /\ uses'[i].began <= uses'[i].ended
                      /\ uses'[i].ended < events'
                      /\ entries'[i].last_accessed <= clock'
    BY DEF Past, n
  <2>1. CASE i = n
    BY <1>1, <1>2, <1>3, <1>4, <1>7, <1>8, <1>10, <2>1, StampTypes
  <2>2. CASE i \in 1 .. n - 1
    BY <1>1, <1>2, <1>4, <1>8, <1>11, <2>2, StampTypes
  <2> QED BY <1>9, <2>1, <2>2
<1>14. InUse'
  BY <1>4 DEF InUse, Readers
<1>15. InOrder'
  <2> SUFFICES ASSUME NEW i \in 1 .. n, NEW j \in 1 .. n, i # j,
                      entries'[i].last_accessed <= entries'[j].last_accessed
               PROVE  uses'[i].ended < uses'[j].began
    BY DEF InOrder, n
  <2>1. CASE i = n
    <3>1. j \in 1 .. n - 1
      BY <1>9, <2>1
    <3> QED BY <1>2, <1>3, <1>7, <1>11, <2>1, <3>1
  <2>2. CASE i \in 1 .. n - 1 /\ j = n
    BY <1>7, <1>10, <1>11, <2>2
  <2>3. CASE i \in 1 .. n - 1 /\ j \in 1 .. n - 1
    BY <2>3 DEF LRUInv, InOrder
  <2> QED BY <1>9, <2>1, <2>2, <2>3
<1> QED BY <1>12, <1>13, <1>14, <1>15

LEMMA LRUAlways == Sequential /\ SpecLRU => []LRUInv
<1>1. Sequential /\ InitLRU => LRUInv
  <2> SUFFICES ASSUME Sequential, InitLRU PROVE LRUInv
    OBVIOUS
  <2>1. LookupInv
    BY InitLookupInv DEF InitLRU
  <2>2. Len(entries) = 0 /\ uses \in Seq(Use) /\ Len(uses) = 0
    BY EmptySeq DEF InitLRU, Init
  <2>3. Readers = {}
    BY DEF InitLRU, Init, Readers
  <2> QED BY <2>1, <2>2, <2>3 DEF InitLRU, LRUInv, Recorded, Past, InUse, InOrder
<1>2. LRUInv /\ [NextLRU]_<<vars, historyVars>> => LRUInv'
  <2> SUFFICES ASSUME LRUInv, [NextLRU]_<<vars, historyVars>> PROVE LRUInv'
    OBVIOUS
  <2>1. LookupInv'
    <3>1. [Next]_vars
      BY DEF NextLRU, FindEntryLRU, TouchLRU, InsertLRU, Next, GetExact,
         GetSimilar
    <3> QED BY <3>1, NextLookupInv DEF LRUInv
  <2>2. Sequential'
    BY DEF LRUInv, Sequential
  <2>3. CASE UNCHANGED <<entries, lookup, clock, historyVars>>
    BY <2>1, <2>2, <2>3
       DEF LRUInv, Recorded, Past, InUse, Readers, InOrder, historyVars
  <2>4. CASE \E t \in Threads, want \in Queries \cup Embeddings : FindEntryLRU(t, want)
    BY <2>1, <2>2, <2>4, FindKeepsOrder DEF LRUInv
  <2>5. CASE \E t \in Threads : TouchLRU(t)
    BY <2>1, <2>2, <2>5, TouchKeepsOrder DEF LRUInv
  <2>6. CASE \E q \in Queries, e \in Embeddings, r \in Responses : InsertLRU(q, e, r)
    BY <2>1, <2>2, <2>6, InsertKeepsOrder DEF LRUInv
  <2> QED BY <2>3, <2>4, <2>5, <2>6 DEF NextLRU, FindNothing, vars
<1> QED BY <1>1, <1>2, PTL DEF SpecLRU

(* One lookup at a time and a clock that advances make the eviction least  *)
(* recently used, for any capacity; the run cache_stamps shows that two    *)
(* lookups at a time do not.                                               *)
THEOREM EvictsLeastRecent == Sequential /\ SpecLRU => []LeastRecentlyUsed
<1>1. LRUInv => LeastRecentlyUsed
  <2> SUFFICES ASSUME LRUInv, NEW i \in DOMAIN uses PROVE uses[i].ended >= lost
    BY DEF LeastRecentlyUsed
  <2>1. i \in 1 .. Len(entries)
    BY StampTypes
  <2> QED BY <2>1, StampTypes DEF LRUInv, Past
<1> QED BY <1>1, LRUAlways, PTL
=============================================================================
