----------------------- MODULE SemanticPipelineProofs -----------------------
(***************************************************************************)
(* Proofs about SemanticPipeline, for any number of requests, any table,   *)
(* any cache, any model.  One inductive invariant, PipelineInv, carries    *)
(* all of them: the properties strengthened by Settled, Keyed and Noted.   *)
(*                                                                         *)
(* Every step of a request has one of three shapes, each treated by one    *)
(* lemma: it returns without touching the cache (Returning), it returns    *)
(* and caches (Caching), or it goes on to its next await (Moving).         *)
(*                                                                         *)
(* Last come two refinements: of SemanticCourse, by the types alone, and   *)
(* of the contract of the cache, by the invariant.                         *)
(***************************************************************************)
EXTENDS SemanticPipeline, CacheLookupProofs

Consulting == {"parse", "embed"}
Searching == {"search", "rerank", "generate", "fallback", "regenerate"}

(* A request with a result is over, and so is the one whose answer it is;  *)
(* the model is asked about a scan only after the scan.                    *)
Settled ==
    \A r \in Requests :
        /\ result[r] # None => pc[r] = "done"
        /\ result[r].kind = "verified" => pc[result[r].by] = "done"
        /\ pc[r] = "regenerate" => proof[r] # "none"

(* An entry has the keys of the request it was inserted by. *)
Keyed ==
    \A i \in DOMAIN store :
        /\ store[i].query = query[store[i].by]
        /\ store[i].embedding = question[store[i].by].intent

(* An entry that a request past the cache would have hit was inserted      *)
(* while the request was in flight, and has noted that.                    *)
Noted ==
    \A r \in Requests, i \in DOMAIN store :
        /\ /\ pc[r] \in Consulting \cup Searching
           /\ Norm[store[i].query] = Norm[query[r]]
           => r \in store[i].rivals
        /\ /\ pc[r] \in Searching
           /\ Similar(store[i].embedding, question[r].intent)
           => r \in store[i].rivals

PipelineInv ==
    /\ TypeOK
    /\ Grounded
    /\ NoDrift
    /\ CachedWasReturned
    /\ AbsenceAfterScan
    /\ DuplicatesOverlapped
    /\ Settled
    /\ Keyed
    /\ Noted

-----------------------------------------------------------------------------
(* A request in flight consults the cache or is past it. *)
LEMMA FlightStates ==
  ASSUME TypeOK, NEW r \in Requests
  PROVE  r \in InFlight <=> pc[r] \in Consulting \cup Searching
BY DEF TypeOK, InFlight, Over, Consulting, Searching

(* What a search or the scan returns are rows of the table. *)
LEMMA OutcomesFromTable ==
  ASSUME NEW rows, NEW filters, NEW words
  PROVE  /\ \A found \in SearchOutcomes(rows, filters) : found \subseteq rows
         /\ \A found \in ScanOutcomes(rows, words) : found \subseteq rows
<1>1. \A n, S : UpTo(n, S) \subseteq SUBSET S
  BY DEF UpTo, kSubset
<1>2. \A some : OnePerId(some) \subseteq SUBSET some
  BY DEF OnePerId
<1>3. ASSUME NEW found \in SearchOutcomes(rows, filters)
      PROVE  found \subseteq rows
  <2>1. PICK scans \in Scans(rows, filters) :
               \E chosen \in OnePerId(Latest(scans)) : found \subseteq chosen
    BY <1>3 DEF SearchOutcomes
  <2>2. found \subseteq Found(scans)
    BY <1>2, <2>1 DEF Latest
  <2>3. Found(scans) \subseteq rows
    BY <2>1 DEF Scans, Found
  <2> QED BY <2>2, <2>3
<1>4. ASSUME NEW found \in ScanOutcomes(rows, words)
      PROVE  found \subseteq rows
  <2>1. Matching(rows, words) \subseteq rows
    BY DEF Matching
  <2>2. CASE words # {}
    <3>1. PICK some \in UpTo(ScanLimit, Matching(rows, words)) : found \in OnePerId(some)
      BY <1>4, <2>2 DEF ScanOutcomes
    <3> QED BY <1>1, <1>2, <2>1, <3>1
  <2> QED BY <1>4, <2>2 DEF ScanOutcomes
<1> QED BY <1>3, <1>4

(* Results are told apart by their kind. *)
LEMMA Kinds ==
  /\ None.kind = "none"
  /\ \A why : Failed(why).kind = "failed"
  /\ \A rows : Degraded(rows).kind = "degraded"
  /\ \A answer, by : /\ Verified(answer, by).kind = "verified"
                     /\ Verified(answer, by).answer = answer
                     /\ Verified(answer, by).by = by
BY DEF None, Failed, Degraded, Verified

(* The invariant holds at the start: nothing was asked, nothing is cached. *)
LEMMA InitPipelineInv == Init => PipelineInv
<1> SUFFICES ASSUME Init PROVE PipelineInv
  OBVIOUS
<1>1. DOMAIN store = {} /\ store \in Seq(CacheEntry)
  BY EmptySeq DEF Init
<1>2. TypeOK
  <2>1. table \subseteq Rows
    BY DEF Init, Customers!Init
  <2>2. \A r \in Requests : query[r] \in Queries
    BY DEF Init
  <2>3. None \in Results
    BY DEF Results
  <2> QED BY <1>1, <2>1, <2>2, <2>3 DEF Init, TypeOK, Over, Questions
<1>3. \A r \in Requests : result[r] = None /\ pc[r] = "idle"
  BY DEF Init
<1>4. Answered = {} /\ Fresh = {}
  BY <1>3, Kinds DEF Answered, Fresh
<1>5. Settled
  BY <1>3, Kinds DEF Settled
<1>6. Noted /\ Keyed
  BY <1>1 DEF Noted, Keyed
<1> QED
  BY <1>1, <1>2, <1>4, <1>5, <1>6
     DEF PipelineInv, Grounded, NoDrift, CachedWasReturned, AbsenceAfterScan,
         DuplicatesOverlapped

(* Who an entry was inserted by is over, and returned what the entry says. *)
LEMMA EntriesDone ==
  ASSUME PipelineInv
  PROVE  \A i \in DOMAIN store :
            /\ store[i] \in CacheEntry
            /\ store[i].by \in Requests
            /\ pc[store[i].by] = "done"
            /\ store[i].by \in Answered
<1> SUFFICES ASSUME NEW i \in DOMAIN store
             PROVE  /\ store[i] \in CacheEntry
                    /\ store[i].by \in Requests
                    /\ pc[store[i].by] = "done"
                    /\ store[i].by \in Answered
  OBVIOUS
<1>1. store[i] \in CacheEntry
  <2>1. store \in Seq(CacheEntry)
    BY DEF PipelineInv, TypeOK
  <2> QED BY <2>1, ElementOfSeq, LenProperties
<1>2. store[i].by \in Requests
  BY <1>1 DEF CacheEntry
<1>3. result[store[i].by] = Verified(store[i].response, store[i].by)
  BY DEF PipelineInv, CachedWasReturned
<1>4. result[store[i].by].kind = "verified"
  BY <1>3, Kinds
<1>5. result[store[i].by] # None
  BY <1>4, Kinds
<1> QED BY <1>1, <1>2, <1>4, <1>5 DEF PipelineInv, Settled, Answered

(* A request that is not over has no result, and none is another's by it.  *)
LEMMA NotOverYet ==
  ASSUME PipelineInv, NEW r \in Requests, pc[r] # "done"
  PROVE  /\ result[r] = None
         /\ r \notin Answered
         /\ \A s \in Answered : s # r /\ result[s].by # r
         /\ \A i \in DOMAIN store : store[i].by # r
<1>1. result[r] = None
  BY DEF PipelineInv, Settled
<1>2. r \notin Answered
  BY <1>1, Kinds DEF Answered
<1>3. \A s \in Answered : result[s].by # r
  BY DEF PipelineInv, Settled, Answered
<1>4. \A i \in DOMAIN store : store[i].by # r
  BY EntriesDone
<1> QED BY <1>1, <1>2, <1>3, <1>4

(* Going on to the next await, or being dropped at one, keeps the          *)
(* invariant: what consults or passes the cache hits nothing in it.        *)
LEMMA Moving ==
  ASSUME PipelineInv, NEW r \in Requests,
         pc[r] \in {"idle"} \cup Consulting \cup Searching,
         NEW next \in {"gone"} \cup Consulting \cup Searching,
         GoTo(r, next),
         UNCHANGED <<query, result, store, table, stored>>,
         NEW p \in Questions(query[r]),
         question' = [question EXCEPT ![r] = p],
         p = question[r] \/ next \in Consulting,
         chunks' \in [Requests -> SUBSET stored],
         proof' \in [Requests -> {"none", "empty", "found", "asked"}],
         \A s \in Requests \ {r} : proof'[s] = proof[s],
         next = "regenerate" => proof'[r] # "none",
         pc[r] = "idle" =>
            /\ next \in Consulting
            /\ \A i \in DOMAIN store : Norm[store[i].query] # Norm[query[r]],
         pc[r] \in Consulting /\ next \in Searching =>
            \A i \in DOMAIN store :
               ~ Similar(store[i].embedding, question[r].intent)
  PROVE  PipelineInv'
<1>0. pc[r] # "done" /\ next # "done"
  BY DEF Consulting, Searching
<1>1. pc' = [pc EXCEPT ![r] = next]
  BY DEF GoTo
<1>2. TypeOK'
  <2>1. TypeOK
    BY DEF PipelineInv
  <2>2. next \in {"parse", "embed", "search", "rerank", "generate",
                  "fallback", "regenerate", "idle"} \cup Over
    BY DEF Consulting, Searching, Over
  <2>3. question' \in [Requests -> UNION {Questions(q) : q \in Queries}]
    <3>1. p \in UNION {Questions(q) : q \in Queries}
      BY <2>1 DEF TypeOK
    <3> QED BY <2>1, <3>1 DEF TypeOK
  <2>4. \A s \in Requests : question'[s] \in Questions(query[s])
    BY <2>1 DEF TypeOK
  <2> HIDE DEF Questions
  <2> QED BY <1>1, <2>1, <2>2, <2>3, <2>4 DEF TypeOK
<1>3. \A s \in Requests \ {r} : pc'[s] = pc[s] /\ question'[s] = question[s]
  BY <1>1 DEF PipelineInv, TypeOK
<1>4. pc'[r] = next /\ question'[r] = p
  BY <1>1 DEF PipelineInv, TypeOK
<1>5. Answered' = Answered /\ Fresh' = Fresh
  BY DEF Answered, Fresh
<1>6. Grounded'
  BY <1>5 DEF PipelineInv, Grounded, Genuine
<1>7. NoDrift'
  <2> SUFFICES ASSUME NEW s \in Answered
               PROVE  \/ Norm[query[result[s].by]] = Norm[query[s]]
                      \/ Similar(question'[result[s].by].intent,
                                 question'[s].intent)
    BY <1>5 DEF NoDrift
  <2>1. s # r /\ result[s].by # r /\ s \in Requests
    BY <1>0, NotOverYet DEF Answered
  <2>2. question'[s] = question[s]
    BY <1>3, <2>1
  <2>3. question'[result[s].by] = question[result[s].by]
    BY <2>1
  <2> QED BY <2>2, <2>3 DEF PipelineInv, NoDrift
<1>8. CachedWasReturned' /\ DuplicatesOverlapped'
  BY DEF PipelineInv, CachedWasReturned, DuplicatesOverlapped
<1>9. AbsenceAfterScan'
  <2>1. \A s \in Fresh : s \in Requests \ {r}
    BY <1>0, NotOverYet DEF Fresh, Answered
  <2> QED BY <1>5, <2>1 DEF PipelineInv, AbsenceAfterScan
<1>10. Settled'
  <2>1. \A s \in Requests : result[s] # None => s # r
    BY <1>0, NotOverYet
  <2>2. \A s \in Requests : result[s].kind = "verified" => result[s].by # r
    BY <1>0, NotOverYet DEF Answered
  <2>3. \A s \in Requests : result[s].kind = "verified" =>
                               pc'[result[s].by] = pc[result[s].by]
    BY <1>1, <2>2
  <2> QED BY <1>3, <1>4, <2>1, <2>3 DEF PipelineInv, Settled
<1>11. Keyed'
  <2>1. \A i \in DOMAIN store : question'[store[i].by] = question[store[i].by]
    BY <1>0, <1>3, EntriesDone, NotOverYet
  <2> QED BY <2>1 DEF PipelineInv, Keyed
<1>12. Noted'
  <2> SUFFICES ASSUME NEW s \in Requests, NEW i \in DOMAIN store
               PROVE  /\ /\ pc'[s] \in Consulting \cup Searching
                         /\ Norm[store[i].query] = Norm[query[s]]
                         => s \in store[i].rivals
                      /\ /\ pc'[s] \in Searching
                         /\ Similar(store[i].embedding, question'[s].intent)
                         => s \in store[i].rivals
    BY DEF Noted
  <2>1. CASE s # r
    BY <1>3, <2>1 DEF PipelineInv, Noted
  <2>2. CASE s = r
    <3>1. Norm[store[i].query] = Norm[query[r]] => r \in store[i].rivals
      BY DEF PipelineInv, Noted
    <3>2. /\ next \in Searching
          /\ Similar(store[i].embedding, question'[r].intent)
          => r \in store[i].rivals
      <4> SUFFICES ASSUME next \in Searching,
                          Similar(store[i].embedding, question'[r].intent)
                   PROVE  r \in store[i].rivals
        OBVIOUS
      <4>1. Searching \cap Consulting = {}
        BY DEF Searching, Consulting
      <4>2. p = question[r]
        BY <4>1
      <4>3. pc[r] \in Searching
        BY <1>4, <4>1, <4>2
      <4> QED BY <1>4, <4>2, <4>3 DEF PipelineInv, Noted
    <3> QED BY <1>4, <2>2, <3>1, <3>2
  <2> QED BY <2>1, <2>2
<1> QED
  BY <1>2, <1>6, <1>7, <1>8, <1>9, <1>10, <1>11, <1>12 DEF PipelineInv

(* What returning a result does to the state, cached or not. *)
LEMMA ReturnEffect ==
  ASSUME PipelineInv, NEW r \in Requests,
         pc[r] \in {"idle"} \cup Consulting \cup Searching,
         NEW res \in Results, Return(r, res)
  PROVE  /\ pc' \in [Requests -> {"parse", "embed", "search", "rerank",
                                  "generate", "fallback", "regenerate",
                                  "idle"} \cup Over]
         /\ chunks' \in [Requests -> SUBSET stored]
         /\ result' \in [Requests -> Results]
         /\ pc[r] # "done" /\ pc'[r] = "done" /\ result'[r] = res
         /\ \A s \in Requests \ {r} : pc'[s] = pc[s] /\ result'[s] = result[s]
         /\ \A s \in Answered : s # r /\ result'[s] = result[s]
         /\ Answered' = IF res.kind = "verified" THEN Answered \cup {r}
                                                ELSE Answered
<1>1. TypeOK
  BY DEF PipelineInv
<1>2. pc[r] # "done"
  BY DEF Consulting, Searching
<1>3. /\ pc' = [pc EXCEPT ![r] = "done"]
      /\ result' = [result EXCEPT ![r] = res]
      /\ chunks' = [chunks EXCEPT ![r] = {}]
  BY DEF Return, GoTo
<1>4. /\ pc' \in [Requests -> {"parse", "embed", "search", "rerank",
                               "generate", "fallback", "regenerate",
                               "idle"} \cup Over]
      /\ chunks' \in [Requests -> SUBSET stored]
      /\ result' \in [Requests -> Results]
  BY <1>1, <1>3 DEF TypeOK, Over
<1>5. pc'[r] = "done" /\ result'[r] = res
  BY <1>1, <1>3 DEF TypeOK
<1>6. \A s \in Requests \ {r} : pc'[s] = pc[s] /\ result'[s] = result[s]
  BY <1>1, <1>3 DEF TypeOK
<1>7. r \notin Answered
  BY <1>2, NotOverYet
<1>8. \A s \in Answered : s # r /\ result'[s] = result[s]
  BY <1>6, <1>7 DEF Answered
<1>9. Answered' = IF res.kind = "verified" THEN Answered \cup {r} ELSE Answered
  BY <1>5, <1>6, <1>7 DEF Answered
<1> QED BY <1>2, <1>4, <1>5, <1>6, <1>8, <1>9

(* Returning something that is not cached keeps the invariant: an answer   *)
(* is then one found in the cache, by a request that is over.              *)
LEMMA Returning ==
  ASSUME PipelineInv, NEW r \in Requests,
         pc[r] \in {"idle"} \cup Consulting \cup Searching,
         NEW res \in Results, res # None, Return(r, res),
         UNCHANGED <<query, question, store, table, stored>>,
         proof' \in [Requests -> {"none", "empty", "found", "asked"}],
         \A s \in Requests \ {r} : proof'[s] = proof[s],
         res.kind = "verified" =>
            /\ Genuine(res.answer)
            /\ pc[res.by] = "done"
            /\ \/ Norm[query[res.by]] = Norm[query[r]]
               \/ Similar(question[res.by].intent, question[r].intent)
  PROVE  PipelineInv'
<1>1. /\ query' = query /\ question' = question
      /\ store' = store /\ table' = table /\ stored' = stored
  OBVIOUS
<1>2. /\ pc' \in [Requests -> {"parse", "embed", "search", "rerank",
                               "generate", "fallback", "regenerate",
                               "idle"} \cup Over]
      /\ chunks' \in [Requests -> SUBSET stored]
      /\ result' \in [Requests -> Results]
      /\ pc[r] # "done" /\ pc'[r] = "done" /\ result'[r] = res
      /\ \A s \in Requests \ {r} : pc'[s] = pc[s] /\ result'[s] = result[s]
      /\ \A s \in Answered : s # r /\ result'[s] = result[s]
      /\ Answered' = IF res.kind = "verified" THEN Answered \cup {r}
                                             ELSE Answered
  BY ReturnEffect
<1>3. TypeOK'
  BY <1>1, <1>2 DEF PipelineInv, TypeOK
<1>4. \A a : Genuine(a)' = Genuine(a)
  BY <1>1 DEF Genuine
<1>5. Grounded'
  <2>1. \A s \in Answered' : Genuine(result'[s].answer)
    BY <1>2 DEF PipelineInv, Grounded
  <2>2. \A i \in DOMAIN store : Genuine(store[i].response)
    BY DEF PipelineInv, Grounded
  <2> QED BY <1>1, <2>1, <2>2 DEF Grounded, Genuine
<1>6. NoDrift'
  <2>1. \A s \in Answered' :
          \/ Norm[query[result'[s].by]] = Norm[query[s]]
          \/ Similar(question[result'[s].by].intent, question[s].intent)
    BY <1>2 DEF PipelineInv, NoDrift
  <2> QED BY <1>1, <2>1 DEF NoDrift
<1>7. CachedWasReturned'
  <2>1. \A i \in DOMAIN store : store[i].by \in Requests \ {r}
    BY <1>2, EntriesDone
  <2> QED BY <1>1, <1>2, <2>1 DEF PipelineInv, CachedWasReturned
<1>8. AbsenceAfterScan'
  <2>1. ASSUME NEW s \in Fresh' PROVE s \in Fresh /\ result'[s] = result[s]
    <3>1. CASE s = r
      <4>1. res.kind = "verified" /\ res.by = r
        BY <1>2, <2>1, <3>1 DEF Fresh
      <4> QED BY <1>2, <4>1
    <3>2. CASE s # r
      <4>1. s \in Answered
        BY <1>2, <2>1, <3>2 DEF Fresh
      <4> QED BY <1>2, <2>1, <4>1 DEF Fresh
    <3> QED BY <3>1, <3>2
  <2>2. \A s \in Fresh' : s \in Requests \ {r}
    <3>1. \A s \in Answered : s \in Requests \ {r}
      BY <1>2 DEF Answered
    <3> QED BY <2>1, <3>1 DEF Fresh
  <2> QED BY <2>1, <2>2 DEF PipelineInv, AbsenceAfterScan
<1>9. DuplicatesOverlapped'
  BY <1>1 DEF PipelineInv, DuplicatesOverlapped
<1>10. Settled'
  <2> SUFFICES ASSUME NEW s \in Requests
               PROVE  /\ result'[s] # None => pc'[s] = "done"
                      /\ result'[s].kind = "verified" =>
                            pc'[result'[s].by] = "done"
                      /\ pc'[s] = "regenerate" => proof'[s] # "none"
    BY DEF Settled
  <2>1. \A t : pc[t] = "done" => pc'[t] = "done"
    BY DEF Return, GoTo, PipelineInv, TypeOK
  <2>2. CASE s = r
    BY <1>2, <2>1, <2>2
  <2>3. CASE s # r
    BY <1>2, <2>1, <2>3 DEF PipelineInv, Settled
  <2> QED BY <2>2, <2>3
<1>11. Keyed'
  BY <1>1 DEF PipelineInv, Keyed
<1>12. Noted'
  <2>1. \A s \in Requests : pc'[s] \in Consulting \cup Searching =>
                               pc'[s] = pc[s]
    BY <1>2 DEF Consulting, Searching
  <2> QED BY <1>1, <2>1 DEF PipelineInv, Noted
<1> QED
  BY <1>3, <1>5, <1>6, <1>7, <1>8, <1>9, <1>10, <1>11, <1>12 DEF PipelineInv

(* Returning an answer and caching it keeps the invariant: every request   *)
(* in flight notes the entry, and the request itself would have hit any    *)
(* entry alike that it has not noted.                                      *)
LEMMA Caching ==
  ASSUME PipelineInv, NEW r \in Requests, pc[r] \in Searching,
         NEW answer \in Answers, Genuine(answer), ReturnAndCache(r, answer),
         UNCHANGED <<query, question, table, stored>>,
         proof' \in [Requests -> {"none", "empty", "found", "asked"}],
         \A s \in Requests \ {r} : proof'[s] = proof[s],
         ~ answer.found => proof'[r] # "none"
  PROVE  PipelineInv'
<1> DEFINE res == Verified(answer, r)
           x == [query     |-> query[r],
                 embedding |-> question[r].intent,
                 response  |-> answer,
                 by        |-> r,
                 rivals    |-> InFlight \ {r}]
           n == Len(store')
<1>0. /\ res \in Results /\ res # None
      /\ res.kind = "verified" /\ res.answer = answer /\ res.by = r
  BY Kinds DEF Results
<1>1. Return(r, res) /\ store' \in AfterInsert(store, x)
  BY DEF ReturnAndCache
<1>2. x \in CacheEntry
  <2>1. query[r] \in Queries /\ question[r] \in Questions(query[r])
    BY DEF PipelineInv, TypeOK
  <2>2. question[r].intent \in Embeddings
    BY <2>1, PipelineAssumption
  <2>3. InFlight \subseteq Requests
    BY DEF InFlight
  <2> QED BY <2>1, <2>2, <2>3 DEF CacheEntry
<1>3. /\ store' \in Seq(CacheEntry)
      /\ n \in Nat \ {0}
      /\ store'[n] = x
      /\ \A j \in 1 .. n - 1 : \E l \in DOMAIN store : store'[j] = store[l]
      /\ \A i, j \in 1 .. n - 1 :
            i < j => \E k, l \in DOMAIN store :
                        k < l /\ store'[i] = store[k] /\ store'[j] = store[l]
  <2>1. store \in Seq(CacheEntry)
    BY DEF PipelineInv, TypeOK
  <2>2. store' \in AfterInsert(store, x)
    BY <1>1
  <2> HIDE DEF x, n
  <2>3. store' \in Seq(CacheEntry) /\ Follows(store', store, x)
    BY ONLY <1>2, <2>1, <2>2, InsertKeeps
  <2> QED BY <2>3 DEF Follows, n
<1>4. DOMAIN store' = 1 .. n
  BY <1>3, LenProperties
<1>5. /\ x.query = query[r] /\ x.embedding = question[r].intent
      /\ x.response = answer /\ x.by = r /\ x.rivals = InFlight \ {r}
  OBVIOUS
<1> HIDE DEF x, n, res
<1>6. \A j \in DOMAIN store' :
         \/ j = n /\ store'[j] = x
         \/ j \in 1 .. n - 1 /\ \E l \in DOMAIN store : store'[j] = store[l]
  BY <1>3, <1>4
<1>7. /\ pc' \in [Requests -> {"parse", "embed", "search", "rerank",
                               "generate", "fallback", "regenerate",
                               "idle"} \cup Over]
      /\ chunks' \in [Requests -> SUBSET stored]
      /\ result' \in [Requests -> Results]
      /\ pc[r] # "done" /\ pc'[r] = "done" /\ result'[r] = res
      /\ \A s \in Requests \ {r} : pc'[s] = pc[s] /\ result'[s] = result[s]
      /\ \A s \in Answered : s # r /\ result'[s] = result[s]
      /\ Answered' = Answered \cup {r}
  BY <1>0, <1>1, ReturnEffect
<1>8. TypeOK'
  BY <1>3, <1>7 DEF PipelineInv, TypeOK
<1>9. Grounded'
  <2>1. \A s \in Answered' : Genuine(result'[s].answer)
    BY <1>0, <1>7 DEF PipelineInv, Grounded
  <2>2. \A j \in DOMAIN store' : Genuine(store'[j].response)
    BY <1>5, <1>6 DEF PipelineInv, Grounded
  <2> QED BY <2>1, <2>2 DEF Grounded, Genuine
<1>10. NoDrift'
  <2>1. \A s \in Answered' :
          \/ Norm[query[result'[s].by]] = Norm[query[s]]
          \/ Similar(question[result'[s].by].intent, question[s].intent)
    BY <1>0, <1>7 DEF PipelineInv, NoDrift
  <2> QED BY <2>1 DEF NoDrift
<1>11. CachedWasReturned'
  <2> SUFFICES ASSUME NEW j \in DOMAIN store'
               PROVE  result'[store'[j].by]
                        = Verified(store'[j].response, store'[j].by)
    BY DEF CachedWasReturned
  <2>1. CASE store'[j] = x
    BY <1>5, <1>7, <2>1 DEF res
  <2>2. CASE \E l \in DOMAIN store : store'[j] = store[l]
    <3>1. PICK l \in DOMAIN store : store'[j] = store[l]
      BY <2>2
    <3>2. store[l].by \in Answered
      BY EntriesDone
    <3> QED BY <1>7, <3>1, <3>2 DEF PipelineInv, CachedWasReturned
  <2> QED BY <1>6, <2>1, <2>2
<1>12. AbsenceAfterScan'
  <2> SUFFICES ASSUME NEW s \in Fresh', ~ result'[s].answer.found
               PROVE  proof'[s] # "none"
    BY DEF AbsenceAfterScan
  <2>1. CASE s = r
    BY <1>0, <1>7, <2>1
  <2>2. CASE s # r
    <3>1. s \in Answered /\ result'[s] = result[s]
      BY <1>7, <2>2 DEF Fresh
    <3>2. s \in Fresh /\ s \in Requests
      BY <3>1 DEF Fresh, Answered
    <3> QED BY <2>2, <3>1, <3>2 DEF PipelineInv, AbsenceAfterScan
  <2> QED BY <2>1, <2>2
<1>13. DuplicatesOverlapped'
  <2> SUFFICES ASSUME NEW i \in DOMAIN store', NEW j \in DOMAIN store',
                      i < j, Alike(store'[i], store'[j])
               PROVE  store'[j].by \in store'[i].rivals
    BY DEF DuplicatesOverlapped, Alike, Similar
  <2>1. i \in 1 .. n - 1
    BY <1>3, <1>4
  <2>2. CASE j = n
    <3>1. PICK k \in DOMAIN store : store'[i] = store[k]
      BY <1>3, <2>1
    <3>2. store'[j] = x
      BY <1>3, <2>2
    <3>3. \/ Norm[store[k].query] = Norm[query[r]]
          \/ Similar(store[k].embedding, question[r].intent)
      BY <1>5, <3>1, <3>2 DEF Alike
    <3>4. r \in store[k].rivals
      BY <3>3 DEF PipelineInv, Noted
    <3> QED BY <1>5, <3>1, <3>2, <3>4
  <2>3. CASE j # n
    <3>1. j \in 1 .. n - 1
      BY <1>3, <1>4, <2>3
    <3>2. PICK k, l \in DOMAIN store :
                  k < l /\ store'[i] = store[k] /\ store'[j] = store[l]
      BY <1>3, <2>1, <3>1
    <3>3. Alike(store[k], store[l])
      BY <3>2
    <3> QED BY <3>2, <3>3 DEF PipelineInv, DuplicatesOverlapped
  <2> QED BY <2>2, <2>3
<1>14. Settled'
  <2> SUFFICES ASSUME NEW s \in Requests
               PROVE  /\ result'[s] # None => pc'[s] = "done"
                      /\ result'[s].kind = "verified" =>
                            pc'[result'[s].by] = "done"
                      /\ pc'[s] = "regenerate" => proof'[s] # "none"
    BY DEF Settled
  <2>1. \A t : pc[t] = "done" => pc'[t] = "done"
    BY <1>1 DEF Return, GoTo, PipelineInv, TypeOK
  <2>2. CASE s = r
    BY <1>0, <1>7, <2>2
  <2>3. CASE s # r
    BY <1>7, <2>1, <2>3 DEF PipelineInv, Settled
  <2> QED BY <2>2, <2>3
<1>15. Keyed'
  BY <1>5, <1>6 DEF PipelineInv, Keyed
<1>16. Noted'
  <2>1. \A s \in Requests : pc'[s] \in Consulting \cup Searching =>
                               s # r /\ pc'[s] = pc[s]
    BY <1>7 DEF Consulting, Searching
  <2>2. ASSUME NEW s \in Requests, pc'[s] \in Consulting \cup Searching
        PROVE  s \in x.rivals
    BY <1>5, <2>1, <2>2, FlightStates DEF PipelineInv
  <2> SUFFICES ASSUME NEW s \in Requests, NEW j \in DOMAIN store',
                      pc'[s] \in Consulting \cup Searching,
                      store'[j] # x
               PROVE  /\ Norm[store'[j].query] = Norm[query[s]] =>
                            s \in store'[j].rivals
                      /\ /\ pc'[s] \in Searching
                         /\ Similar(store'[j].embedding, question[s].intent)
                         => s \in store'[j].rivals
    BY <2>2 DEF Noted, Similar
  <2>3. PICK l \in DOMAIN store : store'[j] = store[l]
    BY <1>6
  <2> QED BY <2>1, <2>3 DEF PipelineInv, Noted
<1> QED
  BY <1>8, <1>9, <1>10, <1>11, <1>12, <1>13, <1>14, <1>15, <1>16 DEF PipelineInv

(* A hit in the cache may be returned to whom it answers. *)
LEMMA Hitting ==
  ASSUME PipelineInv, NEW r \in Requests,
         pc[r] \in {"idle"} \cup Consulting, NEW i \in DOMAIN store,
         \/ Norm[store[i].query] = Norm[query[r]]
         \/ Similar(store[i].embedding, question[r].intent),
         ReturnCached(r, i), UNCHANGED <<task, store, table, stored>>
  PROVE  PipelineInv'
<1> DEFINE res == Verified(store[i].response, store[i].by)
<1>1. store[i] \in CacheEntry /\ pc[store[i].by] = "done"
  BY EntriesDone
<1>2. /\ res \in Results /\ res # None
      /\ res.answer = store[i].response /\ res.by = store[i].by
  BY <1>1, Kinds DEF Results, CacheEntry
<1>3. Genuine(res.answer)
  BY <1>2 DEF PipelineInv, Grounded
<1>4. \/ Norm[query[res.by]] = Norm[query[r]]
      \/ Similar(question[res.by].intent, question[r].intent)
  BY <1>2 DEF PipelineInv, Keyed
<1>5. Return(r, res)
  BY DEF ReturnCached
<1>6. /\ UNCHANGED <<query, question, store, table, stored>>
      /\ proof' = proof
      /\ proof' \in [Requests -> {"none", "empty", "found", "asked"}]
  BY DEF task, PipelineInv, TypeOK
<1> HIDE DEF res
<1> QED BY <1>1, <1>2, <1>3, <1>4, <1>5, <1>6, Returning

(* An error, or the chunks as they are, may be returned at any time. *)
LEMMA Failing ==
  ASSUME PipelineInv, NEW r \in Requests,
         pc[r] \in Consulting \cup Searching,
         NEW res \in {Error, Failed("hallucinated"), Degraded(chunks[r])},
         Return(r, res), UNCHANGED <<store, table, stored, task>>
  PROVE  PipelineInv'
<1>1. chunks[r] \subseteq Rows
  BY DEF PipelineInv, TypeOK
<1>2. res \in Results
  BY <1>1 DEF Results
<1>3. res # None /\ res.kind # "verified"
  BY Kinds DEF Error
<1>4. /\ UNCHANGED <<query, question, store, table, stored>>
      /\ proof' = proof
      /\ proof' \in [Requests -> {"none", "empty", "found", "asked"}]
  BY DEF task, PipelineInv, TypeOK
<1> QED BY <1>2, <1>3, <1>4, Returning

(* An answer that passes verification is genuine. *)
LEMMA PassesGenuine ==
  ASSUME TypeOK, NEW r \in Requests, NEW answer, Passes(answer, chunks[r])
  PROVE  Genuine(answer)
BY DEF TypeOK, Passes, Genuine

(* Moving, when the question and the proof stay as they are. *)
LEMMA MovingOn ==
  ASSUME PipelineInv, NEW r \in Requests,
         pc[r] \in {"idle"} \cup Consulting \cup Searching,
         NEW next \in {"gone"} \cup Consulting \cup Searching,
         GoTo(r, next),
         UNCHANGED <<task, result, store, table, stored>>,
         chunks' \in [Requests -> SUBSET stored],
         next # "regenerate" \/ proof[r] # "none",
         pc[r] = "idle" =>
            /\ next \in Consulting
            /\ \A i \in DOMAIN store : Norm[store[i].query] # Norm[query[r]],
         pc[r] \in Consulting /\ next \in Searching =>
            \A i \in DOMAIN store :
               ~ Similar(store[i].embedding, question[r].intent)
  PROVE  PipelineInv'
<1>1. /\ query' = query /\ question' = question /\ proof' = proof
      /\ result' = result /\ store' = store /\ table' = table /\ stored' = stored
  BY DEF task
<1>2. /\ question[r] \in Questions(query[r])
      /\ question' = [question EXCEPT ![r] = question[r]]
      /\ proof' \in [Requests -> {"none", "empty", "found", "asked"}]
  BY <1>1 DEF PipelineInv, TypeOK
<1> QED BY <1>1, <1>2, Moving

-----------------------------------------------------------------------------
(* Every step preserves the invariant, action by action.                   *)
LEMMA StartInv ==
  ASSUME PipelineInv, NEW r \in Requests, Start(r)
  PROVE  PipelineInv'
<1> DEFINE i == ExactIndex(store, query[r])
<1>1. /\ pc[r] = "idle"
      /\ \/ i # 0 /\ ReturnCached(r, i)
         \/ i = 0 /\ GoTo(r, "parse") /\ Wait
      /\ UNCHANGED <<task, store, table, stored>>
  BY DEF Start
<1>2. /\ i # 0 => i \in DOMAIN store /\ Norm[store[i].query] = Norm[query[r]]
      /\ i = 0 => \A j \in DOMAIN store : Norm[store[j].query] # Norm[query[r]]
  <2>1. store \in Seq(CacheEntry)
    BY DEF PipelineInv, TypeOK
  <2> QED BY <2>1, ExactFinds
<1> HIDE DEF i
<1>3. CASE i # 0 /\ ReturnCached(r, i)
  BY <1>1, <1>2, <1>3, Hitting
<1>4. CASE i = 0 /\ GoTo(r, "parse") /\ Wait
  <2>1. chunks' \in [Requests -> SUBSET stored]
    BY <1>4 DEF Wait, PipelineInv, TypeOK
  <2>2. UNCHANGED <<task, result, store, table, stored>>
    BY <1>1, <1>4 DEF Wait
  <2>3. "parse" \in Consulting /\ "parse" \notin Searching /\ "idle" \notin Consulting
    BY DEF Consulting, Searching
  <2> QED BY <1>1, <1>2, <1>4, <2>1, <2>2, <2>3, MovingOn
<1> QED BY <1>1, <1>3, <1>4

LEMMA ParseInv ==
  ASSUME PipelineInv, NEW r \in Requests, Parse(r)
  PROVE  PipelineInv'
<1>1. PICK p \in Questions(query[r]) : question' = [question EXCEPT ![r] = p]
  BY DEF Parse
<1>2. /\ pc[r] = "parse" /\ GoTo(r, "embed")
      /\ UNCHANGED <<query, result, store, table, stored>>
      /\ proof' = proof /\ chunks' = chunks
  BY DEF Parse, Wait
<1>3. /\ chunks' \in [Requests -> SUBSET stored]
      /\ proof' \in [Requests -> {"none", "empty", "found", "asked"}]
  BY <1>2 DEF PipelineInv, TypeOK
<1>4. /\ "parse" \in Consulting /\ "embed" \in Consulting
      /\ "embed" \notin Searching
  BY DEF Consulting, Searching
<1> QED BY <1>1, <1>2, <1>3, <1>4, Moving

LEMMA EmbedInv ==
  ASSUME PipelineInv, NEW r \in Requests, Embed(r)
  PROVE  PipelineInv'
<1> DEFINE e == question[r].intent
           i == SimilarIndex(store, e)
<1>1. /\ pc[r] = "embed"
      /\ \/ i # 0 /\ ReturnCached(r, i)
         \/ i = 0 /\ GoTo(r, "search") /\ Wait
      /\ UNCHANGED <<task, store, table, stored>>
  BY DEF Embed
<1>2. /\ i # 0 => i \in DOMAIN store /\ Similar(store[i].embedding, e)
      /\ i = 0 => \A j \in DOMAIN store : ~ Similar(store[j].embedding, e)
  <2>1. store \in Seq(CacheEntry)
    BY DEF PipelineInv, TypeOK
  <2>2. \A j \in DOMAIN store : store[j].embedding \in Embeddings
    BY EntriesDone DEF CacheEntry
  <2>3. e \in Embeddings
    BY PipelineAssumption DEF PipelineInv, TypeOK
  <2> HIDE DEF e
  <2> QED BY <2>1, <2>2, <2>3, SimilarFinds
<1> HIDE DEF i
<1>3. "embed" \in Consulting /\ "search" \in Searching /\ "search" # "regenerate"
  BY DEF Consulting, Searching
<1>4. CASE i # 0 /\ ReturnCached(r, i)
  BY <1>1, <1>2, <1>3, <1>4, Hitting
<1>5. CASE i = 0 /\ GoTo(r, "search") /\ Wait
  <2>1. chunks' \in [Requests -> SUBSET stored]
    BY <1>5 DEF Wait, PipelineInv, TypeOK
  <2>2. UNCHANGED <<task, result, store, table, stored>>
    BY <1>1, <1>5 DEF Wait
  <2> QED BY <1>1, <1>2, <1>3, <1>5, <2>1, <2>2, MovingOn
<1> QED BY <1>1, <1>4, <1>5

LEMMA FailInv ==
  ASSUME PipelineInv, NEW r \in Requests,
         EmbedFails(r) \/ StorageFails(r) \/ GenerateOffline(r)
  PROVE  PipelineInv'
<1>1. pc[r] \in Consulting \cup Searching
  BY DEF EmbedFails, StorageFails, GenerateOffline, Consulting, Searching
<1>2. PICK res \in {Error, Failed("hallucinated"), Degraded(chunks[r])} :
              Return(r, res) /\ UNCHANGED <<store, table, stored, task>>
  BY DEF EmbedFails, StorageFails, GenerateOffline
<1> QED BY <1>1, <1>2, Failing

LEMMA SearchInv ==
  ASSUME PipelineInv, NEW r \in Requests, Search(r)
  PROVE  PipelineInv'
<1>1. PICK found \in SearchOutcomes(table, question[r].filters) :
              chunks' = [chunks EXCEPT ![r] = found]
  BY DEF Search
<1>2. found \subseteq stored
  <2>1. found \subseteq table
    BY <1>1, OutcomesFromTable
  <2> QED BY <2>1 DEF PipelineInv, TypeOK
<1>3. chunks' \in [Requests -> SUBSET stored]
  BY <1>1, <1>2 DEF PipelineInv, TypeOK
<1>4. PICK next \in {"rerank", "generate"} : GoTo(r, next)
  BY DEF Search
<1>5. pc[r] = "search" /\ UNCHANGED <<task, result, store, table, stored>>
  BY DEF Search
<1>6. /\ "search" \in Searching /\ "search" \notin Consulting
      /\ next \in Searching /\ next # "regenerate"
  BY DEF Searching, Consulting
<1> QED BY <1>3, <1>4, <1>5, <1>6, MovingOn

LEMMA RerankInv ==
  ASSUME PipelineInv, NEW r \in Requests, Rerank(r)
  PROVE  PipelineInv'
<1>1. pc[r] = "rerank" /\ UNCHANGED <<task, store, table, stored>>
  BY DEF Rerank
<1>2. /\ "rerank" \in Searching /\ "rerank" \notin Consulting
      /\ "generate" \in Searching
  BY DEF Searching, Consulting
<1>3. CASE Return(r, Error)
  BY <1>1, <1>2, <1>3, Failing
<1>4. CASE /\ \E best \in UpTo(RerankTop, chunks[r]) :
                 chunks' = [chunks EXCEPT ![r] = best]
           /\ GoTo(r, "generate")
           /\ UNCHANGED result
  <2>1. PICK best \in UpTo(RerankTop, chunks[r]) :
                chunks' = [chunks EXCEPT ![r] = best]
    BY <1>4
  <2>2. best \subseteq chunks[r]
    BY <2>1 DEF UpTo, kSubset
  <2>3. chunks' \in [Requests -> SUBSET stored]
    BY <2>1, <2>2 DEF PipelineInv, TypeOK
  <2>4. UNCHANGED <<task, result, store, table, stored>>
    BY <1>1, <1>4
  <2> QED BY <1>1, <1>2, <1>4, <2>3, <2>4, MovingOn
<1> QED BY <1>3, <1>4 DEF Rerank

LEMMA GenerateInv ==
  ASSUME PipelineInv, NEW r \in Requests, NEW answer \in Answers,
         Generate(r, answer)
  PROVE  PipelineInv'
<1>1. pc[r] = "generate" /\ UNCHANGED <<task, table, stored>>
  BY DEF Generate
<1>2. /\ "generate" \in Searching /\ "generate" \notin Consulting
      /\ "fallback" \in Searching
  BY DEF Searching, Consulting
<1>3. CASE Return(r, Refused(answer)) /\ UNCHANGED store
  <2>1. Refused(answer) \in {Error, Failed("hallucinated"), Degraded(chunks[r])}
    BY DEF Refused
  <2> QED BY <1>1, <1>2, <1>3, <2>1, Failing
<1>4. CASE Passes(answer, chunks[r]) /\ answer.found /\ ReturnAndCache(r, answer)
  <2>1. Genuine(answer)
    BY <1>4, PassesGenuine DEF PipelineInv
  <2>2. /\ UNCHANGED <<query, question, table, stored>>
        /\ proof' = proof
    BY <1>1 DEF task
  <2>3. proof' \in [Requests -> {"none", "empty", "found", "asked"}]
    BY <2>2 DEF PipelineInv, TypeOK
  <2> QED BY <1>1, <1>2, <1>4, <2>1, <2>2, <2>3, Caching
<1>5. CASE GoTo(r, "fallback") /\ Wait /\ UNCHANGED store
  <2>1. chunks' \in [Requests -> SUBSET stored]
    BY <1>5 DEF Wait, PipelineInv, TypeOK
  <2>2. UNCHANGED <<task, result, store, table, stored>>
    BY <1>1, <1>5 DEF Wait
  <2> QED BY <1>1, <1>2, <1>5, <2>1, <2>2, MovingOn
<1> QED BY <1>3, <1>4, <1>5 DEF Generate

LEMMA FallbackInv ==
  ASSUME PipelineInv, NEW r \in Requests, Fallback(r)
  PROVE  PipelineInv'
<1>1. /\ pc[r] = "fallback"
      /\ UNCHANGED <<query, question, table, stored>>
  BY DEF Fallback
<1>2. /\ "fallback" \in Searching /\ "fallback" \notin Consulting
      /\ "regenerate" \in Searching
  BY DEF Searching, Consulting
<1>3. PICK found \in ScanOutcomes(table, IntentWords[question[r].intent]) :
         /\ proof' = [proof EXCEPT ![r] = IF found = {} THEN "empty"
                                                       ELSE "found"]
         /\ \/ /\ found = {}
               /\ ReturnAndCache(r, NotFound)
            \/ /\ found # {}
               /\ chunks' = [chunks EXCEPT ![r] = found]
               /\ GoTo(r, "regenerate")
               /\ UNCHANGED <<result, store>>
  BY DEF Fallback
<1>4. /\ proof' \in [Requests -> {"none", "empty", "found", "asked"}]
      /\ proof'[r] # "none"
      /\ \A s \in Requests \ {r} : proof'[s] = proof[s]
  BY <1>3 DEF PipelineInv, TypeOK
<1>5. CASE ReturnAndCache(r, NotFound)
  <2>1. NotFound \in Answers /\ Genuine(NotFound)
    BY DEF Answers, NotFound, Genuine
  <2> QED BY <1>1, <1>2, <1>4, <1>5, <2>1, Caching
<1>6. CASE /\ chunks' = [chunks EXCEPT ![r] = found]
           /\ GoTo(r, "regenerate")
           /\ UNCHANGED <<result, store>>
  <2>1. found \subseteq stored
    <3>1. found \subseteq table
      BY <1>3, OutcomesFromTable
    <3> QED BY <3>1 DEF PipelineInv, TypeOK
  <2>2. chunks' \in [Requests -> SUBSET stored]
    BY <1>6, <2>1 DEF PipelineInv, TypeOK
  <2>3. /\ question[r] \in Questions(query[r])
        /\ question' = [question EXCEPT ![r] = question[r]]
    BY <1>1 DEF PipelineInv, TypeOK
  <2>4. UNCHANGED <<query, result, store, table, stored>>
    BY <1>1, <1>6
  <2> QED BY <1>1, <1>2, <1>4, <1>6, <2>2, <2>3, <2>4, Moving
<1> QED BY <1>3, <1>5, <1>6

LEMMA RegenerateInv ==
  ASSUME PipelineInv, NEW r \in Requests,
         \/ RegenerateOffline(r)
         \/ \E answer \in Answers : Regenerate(r, answer)
  PROVE  PipelineInv'
<1>1. "regenerate" \in Searching
  BY DEF Searching
<1>2. CASE RegenerateOffline(r)
  <2>1. /\ pc[r] = "regenerate" /\ ReturnAndCache(r, NotFound)
        /\ UNCHANGED <<query, question, table, stored>> /\ proof' = proof
    BY <1>2 DEF RegenerateOffline, task
  <2>2. NotFound \in Answers /\ Genuine(NotFound)
    BY DEF Answers, NotFound, Genuine
  <2>3. /\ proof' \in [Requests -> {"none", "empty", "found", "asked"}]
        /\ proof'[r] # "none"
    BY <2>1 DEF PipelineInv, TypeOK, Settled
  <2> QED BY <1>1, <2>1, <2>2, <2>3, Caching
<1>3. ASSUME NEW answer \in Answers, Regenerate(r, answer)
      PROVE  PipelineInv'
  <2>1. /\ pc[r] = "regenerate"
        /\ UNCHANGED <<query, question, table, stored>>
        /\ proof' = [proof EXCEPT ![r] = "asked"]
    BY <1>3 DEF Regenerate
  <2>2. /\ proof' \in [Requests -> {"none", "empty", "found", "asked"}]
        /\ proof'[r] # "none"
        /\ \A s \in Requests \ {r} : proof'[s] = proof[s]
    BY <2>1 DEF PipelineInv, TypeOK
  <2>3. CASE Passes(answer, chunks[r]) /\ ReturnAndCache(r, answer)
    <3>1. Genuine(answer)
      BY <2>3, PassesGenuine DEF PipelineInv
    <3> QED BY <1>1, <2>1, <2>2, <2>3, <3>1, Caching
  <2>4. CASE Return(r, Refused(answer)) /\ UNCHANGED store
    <3>1. Refused(answer) \in Results
      BY DEF Refused, Results
    <3>2. Refused(answer) # None /\ Refused(answer).kind # "verified"
      BY Kinds DEF Refused, Error
    <3> QED BY <1>1, <2>1, <2>2, <2>4, <3>1, <3>2, Returning
  <2> QED BY <1>3, <2>3, <2>4 DEF Regenerate
<1> QED BY <1>2, <1>3

LEMMA CancelInv ==
  ASSUME PipelineInv, NEW r \in Requests, Cancel(r)
  PROVE  PipelineInv'
<1>1. pc[r] \in Consulting \cup Searching
  BY FlightStates DEF Cancel, PipelineInv
<1>2. /\ GoTo(r, "gone")
      /\ UNCHANGED <<task, result, store, table, stored>>
      /\ chunks' \in [Requests -> SUBSET stored]
  BY DEF Cancel, PipelineInv, TypeOK
<1>3. pc[r] # "idle" /\ "gone" \notin Searching
  BY <1>1 DEF Consulting, Searching
<1> QED BY <1>1, <1>2, <1>3, MovingOn

(* What happens to the table takes nothing from what it once held. *)
LEMMA TableInv ==
  ASSUME PipelineInv, Ingest
  PROVE  PipelineInv'
<1>1. /\ pc' = pc /\ query' = query /\ question' = question /\ proof' = proof
      /\ chunks' = chunks /\ result' = result /\ store' = store
  BY DEF Ingest, task
<1>2. /\ stored \subseteq stored' /\ stored' \subseteq Rows
      /\ table' \subseteq stored'
  <2>1. table' \subseteq Rows
    BY DEF Ingest, Customers!Next, Customers!Insert, Customers!Drop
  <2> QED BY <2>1 DEF Ingest, PipelineInv, TypeOK
<1>3. TypeOK'
  BY <1>1, <1>2 DEF PipelineInv, TypeOK
<1>4. Grounded'
  <2>1. \A a : Genuine(a) => Genuine(a)'
    BY <1>2 DEF Genuine
  <2>2. Answered' = Answered
    BY <1>1 DEF Answered
  <2> QED BY <1>1, <2>1, <2>2 DEF PipelineInv, Grounded, Genuine
<1>5. NoDrift' /\ CachedWasReturned' /\ DuplicatesOverlapped'
  BY <1>1 DEF PipelineInv, NoDrift, CachedWasReturned, DuplicatesOverlapped,
              Answered
<1>6. AbsenceAfterScan' /\ Settled'
  BY <1>1 DEF PipelineInv, AbsenceAfterScan, Settled, Fresh, Answered
<1>7. Keyed' /\ Noted'
  BY <1>1 DEF PipelineInv, Keyed, Noted
<1> QED BY <1>3, <1>4, <1>5, <1>6, <1>7 DEF PipelineInv

LEMMA NextPipelineInv == PipelineInv /\ [Next]_vars => PipelineInv'
<1> SUFFICES ASSUME PipelineInv, [Next]_vars PROVE PipelineInv'
  OBVIOUS
<1>1. CASE UNCHANGED vars
  <2>1. /\ pc' = pc /\ query' = query /\ question' = question /\ proof' = proof
        /\ chunks' = chunks /\ result' = result /\ store' = store
        /\ table' = table /\ stored' = stored
    BY <1>1 DEF vars, task
  <2>2. TypeOK' /\ Settled' /\ Keyed' /\ Noted'
    BY <2>1 DEF PipelineInv, TypeOK, Settled, Keyed, Noted
  <2>3. Grounded' /\ NoDrift' /\ AbsenceAfterScan'
    BY <2>1 DEF PipelineInv, Grounded, Genuine, NoDrift, AbsenceAfterScan,
                Answered, Fresh
  <2>4. CachedWasReturned' /\ DuplicatesOverlapped'
    BY <2>1 DEF PipelineInv, CachedWasReturned, DuplicatesOverlapped
  <2> QED BY <2>2, <2>3, <2>4 DEF PipelineInv
<1>2. ASSUME NEW r \in Requests, Step(r)
      PROVE  PipelineInv'
  <2>1. CASE Start(r)
    BY <2>1, StartInv
  <2>2. CASE Parse(r)
    BY <2>2, ParseInv
  <2>3. CASE Embed(r)
    BY <2>3, EmbedInv
  <2>4. CASE EmbedFails(r) \/ StorageFails(r) \/ GenerateOffline(r)
    BY <2>4, FailInv
  <2>5. CASE Search(r)
    BY <2>5, SearchInv
  <2>6. CASE Rerank(r)
    BY <2>6, RerankInv
  <2>7. CASE \E answer \in Answers : Generate(r, answer)
    BY <2>7, GenerateInv
  <2>8. CASE Fallback(r)
    BY <2>8, FallbackInv
  <2>9. CASE RegenerateOffline(r) \/ \E answer \in Answers : Regenerate(r, answer)
    BY <2>9, RegenerateInv
  <2> QED BY <1>2, <2>1, <2>2, <2>3, <2>4, <2>5, <2>6, <2>7, <2>8, <2>9 DEF Step
<1>3. ASSUME NEW r \in Requests, Cancel(r)
      PROVE  PipelineInv'
  BY <1>3, CancelInv
<1>4. CASE Ingest
  BY <1>4, TableInv
<1> QED BY <1>1, <1>2, <1>3, <1>4 DEF Next

(* Every reachable state of the pipeline satisfies the invariant. *)
LEMMA AlwaysPipelineInv == Spec => []PipelineInv
BY InitPipelineInv, NextPipelineInv, PTL DEF Spec

-----------------------------------------------------------------------------
(* Every reachable state of the pipeline is well typed; the chunks in a    *)
(* prompt are rows the table held.                                         *)
THEOREM PipelineTypeCorrect == Spec => []TypeOK
BY AlwaysPipelineInv, PTL DEF PipelineInv

(* Whatever the model makes up and however the table changes, a claim that *)
(* is returned or cached quotes a row the table held under the cited id.   *)
THEOREM AnswersGrounded == Spec => []Grounded
BY AlwaysPipelineInv, PTL DEF PipelineInv

(* However many requests hand an answer on through the cache, it is given  *)
(* only to the question it was generated for, or to a similar intent.      *)
THEOREM AnswersDoNotDrift == Spec => []NoDrift
BY AlwaysPipelineInv, PTL DEF PipelineInv

(* Whatever is in the cache was returned, as a verified answer, by the     *)
(* request that put it there.                                              *)
THEOREM OnlyReturnedIsCached == Spec => []CachedWasReturned
BY AlwaysPipelineInv, PTL DEF PipelineInv

(* Duplicates come only from requests in flight together: a request that   *)
(* begins after an answer was cached hits it instead of adding another.    *)
THEOREM DuplicatesFromOverlap == Spec => []DuplicatesOverlapped
BY AlwaysPipelineInv, PTL DEF PipelineInv

(* "Not found" is said only after the keyword scan, whichever calls of the *)
(* model fail.                                                             *)
THEOREM AbsenceNeedsScan == Spec => []AbsenceAfterScan
BY AlwaysPipelineInv, PTL DEF PipelineInv

-----------------------------------------------------------------------------
(* The course of a request: what stage each await is part of, and what     *)
(* each result comes to.                                                   *)
LEMMA StagesOfAwaits ==
  /\ StageOf["idle"] = "outside" /\ StageOf["parse"] = "parsing"
  /\ StageOf["embed"] = "embedding" /\ StageOf["search"] = "embedding"
  /\ StageOf["rerank"] = "embedding" /\ StageOf["generate"] = "generating"
  /\ StageOf["fallback"] = "rescanning"
  /\ StageOf["regenerate"] = "regenerating"
  /\ StageOf["done"] = "over" /\ StageOf["gone"] = "over"
BY DEF StageOf

LEMMA OutcomesOfResults ==
  /\ OutcomeOf["none"] = "none" /\ OutcomeOf["verified"] = "answer"
  /\ OutcomeOf["degraded"] = "degraded" /\ OutcomeOf["failed"] = "error"
BY DEF OutcomeOf

(* A request that goes on to its next await goes on in its course, or      *)
(* stays where it is in it.                                                *)
LEMMA GoesOn ==
  ASSUME TypeOK, NEW r \in Requests, NEW next, GoTo(r, next), UNCHANGED result,
         \/ StageOf[next] \in Course!Onward[StageOf[pc[r]]]
         \/ StageOf[next] = StageOf[pc[r]]
  PROVE  [Course!Next]_(Course!vars)
<1> DEFINE stage == [x \in Requests |-> StageOf[pc[x]]]
<1>1. stage' = [stage EXCEPT ![r] = StageOf[next]] /\ stage[r] = StageOf[pc[r]]
  BY DEF GoTo, TypeOK
<1>2. CASE StageOf[next] \in Course!Onward[StageOf[pc[r]]]
  BY <1>1, <1>2 DEF Course!Next, Course!GoOn
<1>3. CASE StageOf[next] = StageOf[pc[r]]
  BY <1>1, <1>3 DEF Course!vars
<1> QED BY <1>2, <1>3

(* A request that returns ends its course in one of the ways it may.       *)
LEMMA Ends ==
  ASSUME TypeOK, NEW r \in Requests, NEW res, Return(r, res),
         OutcomeOf[res.kind] \in Course!Endings[StageOf[pc[r]]]
  PROVE  Course!Next
<1> DEFINE stage == [x \in Requests |-> StageOf[pc[x]]]
           outcome == [x \in Requests |-> OutcomeOf[result[x].kind]]
<1>1. stage' = [stage EXCEPT ![r] = "over"] /\ stage[r] = StageOf[pc[r]]
  BY StagesOfAwaits DEF Return, GoTo, TypeOK
<1>2. outcome' = [outcome EXCEPT ![r] = OutcomeOf[res.kind]]
  BY DEF Return, TypeOK
<1> QED BY <1>1, <1>2 DEF Course!Next, Course!End

(* The pipeline keeps to the course: no await leads back, a parse never    *)
(* ends a request, and only an unanswered generation is degraded.          *)
THEOREM PipelineKeepsCourse == Spec => KeepsCourse
<1>1. Init => Course!Init
  BY StagesOfAwaits, OutcomesOfResults, Kinds DEF Init, Course!Init
<1>2. TypeOK /\ [Next]_vars => [Course!Next]_(Course!vars)
  <2> SUFFICES ASSUME TypeOK, [Next]_vars PROVE [Course!Next]_(Course!vars)
    OBVIOUS
  <2> USE StagesOfAwaits
  <2>1. ASSUME NEW r \in Requests, Start(r) \/ Embed(r)
        PROVE  [Course!Next]_(Course!vars)
    <3>1. ASSUME NEW i, ReturnCached(r, i)
          PROVE  Course!Next
      BY <2>1, <3>1, Ends, OutcomesOfResults, Kinds
         DEF Start, Embed, ReturnCached, Course!Endings
    <3>2. ASSUME NEW next, GoTo(r, next), Wait, next \in {"parse", "search"},
                 pc[r] = IF next = "parse" THEN "idle" ELSE "embed"
          PROVE  [Course!Next]_(Course!vars)
      BY <3>2, GoesOn DEF Wait, Course!Onward
    <3>3. CASE Start(r)
      <4>1. /\ pc[r] = "idle"
            /\ \/ ReturnCached(r, ExactIndex(store, query[r]))
               \/ GoTo(r, "parse") /\ Wait
        BY <3>3 DEF Start
      <4> QED BY <3>1, <3>2, <4>1
    <3>4. CASE Embed(r)
      <4>1. /\ pc[r] = "embed"
            /\ \/ ReturnCached(r, SimilarIndex(store, question[r].intent))
               \/ GoTo(r, "search") /\ Wait
        BY <3>4 DEF Embed
      <4> QED BY <3>1, <3>2, <4>1
    <3> QED BY <2>1, <3>3, <3>4
  <2>2. ASSUME NEW r \in Requests, Parse(r)
        PROVE  [Course!Next]_(Course!vars)
    BY <2>2, GoesOn DEF Parse, Wait, Course!Onward
  <2>3. ASSUME NEW r \in Requests,
               EmbedFails(r) \/ StorageFails(r) \/ GenerateOffline(r)
        PROVE  Course!Next
    BY <2>3, Ends, OutcomesOfResults, Kinds
       DEF EmbedFails, StorageFails, GenerateOffline, Error, Course!Endings
  <2>4. ASSUME NEW r \in Requests, Search(r)
        PROVE  [Course!Next]_(Course!vars)
    <3>1. CASE GoTo(r, "rerank") /\ UNCHANGED result
      BY <2>4, <3>1, GoesOn DEF Search
    <3>2. CASE GoTo(r, "generate") /\ UNCHANGED result
      BY <2>4, <3>2, GoesOn DEF Search, Course!Onward
    <3> QED BY <2>4, <3>1, <3>2 DEF Search
  <2>5. ASSUME NEW r \in Requests, Rerank(r)
        PROVE  [Course!Next]_(Course!vars)
    <3>1. CASE GoTo(r, "generate") /\ UNCHANGED result
      BY <2>5, <3>1, GoesOn DEF Rerank, Course!Onward
    <3>2. CASE Return(r, Error)
      BY <2>5, <3>2, Ends, OutcomesOfResults, Kinds DEF Rerank, Error, Course!Endings
    <3> QED BY <2>5, <3>1, <3>2 DEF Rerank
  <2>6. ASSUME NEW r \in Requests, NEW answer,
               pc[r] \in {"generate", "fallback", "regenerate"},
               ReturnAndCache(r, answer) \/ Return(r, Refused(answer))
        PROVE  Course!Next
    <3>1. {"answer", "error"} \subseteq Course!Endings[StageOf[pc[r]]]
      BY <2>6 DEF Course!Endings
    <3>2. Refused(answer).kind = "failed"
      BY Kinds DEF Refused, Error
    <3> QED BY <2>6, <3>1, <3>2, Ends, OutcomesOfResults, Kinds DEF ReturnAndCache
  <2>7. ASSUME NEW r \in Requests, NEW answer \in Answers, Generate(r, answer)
        PROVE  [Course!Next]_(Course!vars)
    <3>1. CASE GoTo(r, "fallback") /\ Wait
      BY <2>7, <3>1, GoesOn DEF Generate, Wait, Course!Onward
    <3> QED BY <2>6, <2>7, <3>1 DEF Generate
  <2>8. ASSUME NEW r \in Requests, Fallback(r)
        PROVE  [Course!Next]_(Course!vars)
    <3>1. CASE GoTo(r, "regenerate") /\ UNCHANGED result
      BY <2>8, <3>1, GoesOn DEF Fallback, Course!Onward
    <3> QED BY <2>6, <2>8, <3>1 DEF Fallback
  <2>9. ASSUME NEW r \in Requests,
               RegenerateOffline(r) \/ \E answer \in Answers : Regenerate(r, answer)
        PROVE  Course!Next
    BY <2>6, <2>9 DEF RegenerateOffline, Regenerate
  <2>10. ASSUME NEW r \in Requests, Cancel(r)
         PROVE  Course!Next
    <3> DEFINE stage == [x \in Requests |-> StageOf[pc[x]]]
    <3>1. stage' = [stage EXCEPT ![r] = "over"] /\ stage[r] = StageOf[pc[r]]
      BY <2>10 DEF Cancel, GoTo, TypeOK
    <3>2. StageOf[pc[r]] # "over"
      BY <2>10 DEF Cancel, InFlight, Over, TypeOK
    <3> QED BY <2>10, <3>1, <3>2 DEF Cancel, Course!Next, Course!Cancel
  <2>11. CASE UNCHANGED <<pc, result>>
    BY <2>11 DEF Course!vars
  <2>12. UNCHANGED vars \/ Ingest => UNCHANGED <<pc, result>>
    BY DEF vars, Ingest
  <2>13. ASSUME NEW r \in Requests, Step(r)
         PROVE  [Course!Next]_(Course!vars)
    BY <2>1, <2>2, <2>3, <2>4, <2>5, <2>7, <2>8, <2>9, <2>13 DEF Step
  <2> QED BY <2>10, <2>11, <2>12, <2>13 DEF Next
<1> QED BY <1>1, <1>2, PipelineTypeCorrect, PTL DEF Spec, KeepsCourse, Course!Spec

-----------------------------------------------------------------------------
(* The requests and the contract of the cache.                             *)

(* The contract reads the contents with the operators of the pipeline.     *)
LEMMA SameOperators ==
  ASSUME NEW s, NEW want, NEW x
  PROVE  /\ Cache!ExactIndex(s, want) = ExactIndex(s, want)
         /\ Cache!SimilarIndex(s, want) = SimilarIndex(s, want)
         /\ Cache!AfterInsert(s, x) = AfterInsert(s, x)
<1>1. Cache!ExactIndex(s, want) = ExactIndex(s, want)
  BY DEF Cache!ExactIndex, ExactIndex, Cache!SelectInSeq, SelectInSeq,
         Cache!Min, Min
<1>2. Cache!SimilarIndex(s, want) = SimilarIndex(s, want)
  BY DEF Cache!SimilarIndex, SimilarIndex, Cache!Similar, Similar,
         Cache!Min, Min, Cache!LowestSimilarity, LowestSimilarity
<1>3. Cache!AfterInsert(s, x) = AfterInsert(s, x)
  BY DEF Cache!AfterInsert, AfterInsert, Cache!IsFull, IsFull,
         Cache!RemoveAt, RemoveAt
<1> QED BY <1>1, <1>2, <1>3

(* What a request that returns has got from the cache: the answer, if it   *)
(* is another's, and nothing otherwise, as before.                         *)
LEMMA ReplyOfReturn ==
  ASSUME PipelineInv, NEW r \in Requests, pc[r] # "done", NEW res, Return(r, res)
  PROVE  IF res.kind = "verified" /\ res.by # r
         THEN CacheReply' = [CacheReply EXCEPT ![r] = res.answer]
         ELSE UNCHANGED CacheReply
<1>1. /\ result' = [result EXCEPT ![r] = res]
      /\ result \in [Requests -> Results]
      /\ result[r].kind # "verified"
  BY NotOverYet DEF Return, PipelineInv, TypeOK, Answered
<1>2. result'[r] = res /\ \A s \in Requests \ {r} : result'[s] = result[s]
  BY <1>1
<1>3. /\ CacheReply'[r] = IF res.kind = "verified" /\ res.by # r
                          THEN res.answer ELSE None
      /\ CacheReply[r] = None
      /\ \A s \in Requests \ {r} : CacheReply'[s] = CacheReply[s]
  BY <1>1, <1>2 DEF CacheReply
<1>4. DOMAIN CacheReply = Requests /\ DOMAIN CacheReply' = Requests
  BY DEF CacheReply
<1>5. /\ CacheReply = [s \in Requests |-> CacheReply[s]]
      /\ CacheReply' = [s \in Requests |-> CacheReply'[s]]
  BY DEF CacheReply
<1> HIDE DEF CacheReply
<1> QED BY <1>3, <1>4, <1>5

(* A hit is the entry its tier finds among those of the instant, and is    *)
(* another's.                                                              *)
LEMMA HitIsLookup ==
  ASSUME PipelineInv, NEW r \in Requests, pc[r] # "done", NEW i \in DOMAIN store,
         ReturnCached(r, i), UNCHANGED store
  PROVE  /\ CacheReply' = [CacheReply EXCEPT ![r] = Contents(store)[i].response]
         /\ UNCHANGED Contents(store)
<1>1. store[i].by # r
  BY NotOverYet
<1>2. CacheReply' = [CacheReply EXCEPT ![r] = store[i].response]
  BY <1>1, ReplyOfReturn, Kinds DEF ReturnCached
<1>3. Contents(store)[i].response = store[i].response
  BY DEF Contents, Content
<1> QED BY <1>2, <1>3

(* Returning what is not cached and was not found in the cache is nothing  *)
(* to the cache.                                                           *)
LEMMA ReturnIsInvisible ==
  ASSUME PipelineInv, NEW r \in Requests, pc[r] # "done",
         NEW res, res.kind # "verified", Return(r, res), UNCHANGED store
  PROVE  UNCHANGED Cache!vars
BY ReplyOfReturn DEF Cache!vars

(* Returning an answer and caching it is an insertion. *)
LEMMA CachingIsInsert ==
  ASSUME PipelineInv, NEW r \in Requests, pc[r] # "done",
         NEW answer \in Answers, ReturnAndCache(r, answer)
  PROVE  Cache!Next
<1> DEFINE x == [query     |-> query[r],
                 embedding |-> question[r].intent,
                 response  |-> answer,
                 by        |-> r,
                 rivals    |-> InFlight \ {r}]
<1>1. /\ query[r] \in Queries /\ question[r].intent \in Embeddings
      /\ store \in Seq(CacheEntry)
  BY PipelineAssumption DEF PipelineInv, TypeOK
<1>2. x \in CacheEntry
  BY <1>1 DEF CacheEntry, InFlight
<1>3. Content(x) = [query     |-> query[r],
                    embedding |-> question[r].intent,
                    response  |-> answer]
  BY DEF Content
<1>4. store' \in AfterInsert(store, x)
  BY DEF ReturnAndCache
<1> HIDE DEF x
<1>5. Contents(store') \in AfterInsert(Contents(store), Content(x))
  BY <1>1, <1>2, <1>4, ContentsAfterInsert
<1>6. UNCHANGED CacheReply
  BY ReplyOfReturn, Kinds DEF ReturnAndCache
<1>7. Cache!Insert(query[r], question[r].intent, answer)
  BY <1>3, <1>5, <1>6, SameOperators DEF Cache!Insert
<1> QED BY <1>1, <1>7 DEF Cache!Next

(* The pipeline asks nothing of the cache that its contract does not give: *)
(* what it returns from the cache is what one lookup finds, and it changes *)
(* the cache by insertions only.  SemanticCache keeps that contract, so    *)
(* the two fit together.                                                   *)
THEOREM PipelineUsesContract == Spec => UsesCacheContract
<1>1. Init => Cache!Init
  <2> SUFFICES ASSUME Init PROVE Cache!Init
    OBVIOUS
  <2>1. << >> \in Seq(CacheEntry) /\ Len(<< >>) = 0
    BY EmptySeq
  <2>2. /\ Contents(<< >>) \in Seq(Bare(CacheEntry))
        /\ Len(Contents(<< >>)) = 0
    BY <2>1, ContentsProperties
  <2>3. Contents(store) = << >>
    BY <2>2, EmptySeq DEF Init
  <2>4. CacheReply = [r \in Requests |-> None]
    BY Kinds DEF Init, CacheReply
  <2> QED BY <2>3, <2>4 DEF Cache!Init
<1>2. PipelineInv /\ [Next]_vars => [Cache!Next]_(Cache!vars)
  <2> SUFFICES ASSUME PipelineInv, [Next]_vars PROVE [Cache!Next]_(Cache!vars)
    OBVIOUS
  <2>0. store \in Seq(CacheEntry)
    BY DEF PipelineInv, TypeOK
  <2>1. CASE UNCHANGED <<result, store>>
    BY <2>1 DEF Cache!vars, CacheReply
  <2>2. ASSUME NEW r \in Requests, NEW answer \in Answers,
               pc[r] \in {"generate", "fallback", "regenerate"},
               \/ ReturnAndCache(r, answer)
               \/ Return(r, Refused(answer)) /\ UNCHANGED store
        PROVE  [Cache!Next]_(Cache!vars)
    <3>1. Refused(answer).kind = "failed"
      BY Kinds DEF Refused, Error
    <3> QED BY <2>2, <3>1, CachingIsInsert, ReturnIsInvisible
  <2>3. ASSUME NEW r \in Requests, Start(r)
        PROVE  [Cache!Next]_(Cache!vars)
    <3> DEFINE i == ExactIndex(store, query[r])
    <3>1. /\ i # 0 => i \in DOMAIN store
          /\ Cache!ExactIndex(Contents(store), query[r]) = i
      <4>1. i # 0 => i \in DOMAIN store
        BY <2>0, ExactFinds
      <4>2. ExactIndex(Contents(store), query[r]) = i
        BY <2>0, FindInContents
      <4> HIDE DEF i
      <4> QED BY <4>1, <4>2, SameOperators
    <3>2. pc[r] = "idle" /\ UNCHANGED store
      BY <2>3 DEF Start
    <3>3. CASE i # 0 /\ ReturnCached(r, i)
      <4> HIDE DEF i
      <4>1. /\ CacheReply' = [CacheReply EXCEPT ![r] = Contents(store)[i].response]
            /\ UNCHANGED Contents(store)
        BY <3>1, <3>2, <3>3, HitIsLookup
      <4>2. Cache!GetExact(r, query[r])
        BY <3>1, <3>3, <4>1 DEF Cache!GetExact, Cache!Return
      <4> QED BY <4>2 DEF Cache!Next, PipelineInv, TypeOK
    <3>4. CASE i = 0 /\ UNCHANGED result
      BY <2>1, <3>2, <3>4
    <3> QED BY <2>3, <3>3, <3>4 DEF Start, Wait
  <2>4. ASSUME NEW r \in Requests, Embed(r)
        PROVE  [Cache!Next]_(Cache!vars)
    <3> DEFINE e == question[r].intent
               i == SimilarIndex(store, e)
    <3>1. e \in Embeddings
      BY PipelineAssumption DEF PipelineInv, TypeOK
    <3>2. /\ i # 0 => i \in DOMAIN store
          /\ Cache!SimilarIndex(Contents(store), e) = i
      <4>1. \A j \in DOMAIN store : store[j].embedding \in Embeddings
        BY EntriesDone DEF CacheEntry
      <4> HIDE DEF e
      <4>2. i # 0 => i \in DOMAIN store
        BY <2>0, <3>1, <4>1, SimilarFinds
      <4>3. SimilarIndex(Contents(store), e) = i
        BY <2>0, FindInContents
      <4> HIDE DEF i
      <4> QED BY <4>2, <4>3, SameOperators
    <3>3. pc[r] = "embed" /\ UNCHANGED store
      BY <2>4 DEF Embed
    <3>4. CASE i # 0 /\ ReturnCached(r, i)
      <4> HIDE DEF i
      <4>1. /\ CacheReply' = [CacheReply EXCEPT ![r] = Contents(store)[i].response]
            /\ UNCHANGED Contents(store)
        BY <3>2, <3>3, <3>4, HitIsLookup
      <4>2. Cache!GetSimilar(r, e)
        BY <3>2, <3>4, <4>1 DEF Cache!GetSimilar, Cache!Return
      <4> QED BY <3>1, <4>2 DEF Cache!Next
    <3>5. CASE i = 0 /\ UNCHANGED result
      BY <2>1, <3>3, <3>5
    <3> QED BY <2>4, <3>4, <3>5 DEF Embed, Wait
  <2>5. ASSUME NEW r \in Requests,
               EmbedFails(r) \/ StorageFails(r) \/ GenerateOffline(r)
        PROVE  UNCHANGED Cache!vars
    BY <2>5, ReturnIsInvisible, Kinds
       DEF EmbedFails, StorageFails, GenerateOffline, Error
  <2>6. ASSUME NEW r \in Requests, Rerank(r)
        PROVE  [Cache!Next]_(Cache!vars)
    <3>1. CASE UNCHANGED result
      BY <2>1, <2>6, <3>1 DEF Rerank
    <3>2. CASE Return(r, Error)
      BY <2>6, <3>2, ReturnIsInvisible, Kinds DEF Rerank, Error
    <3> QED BY <2>6, <3>1, <3>2 DEF Rerank
  <2>7. ASSUME NEW r \in Requests, NEW answer \in Answers, Generate(r, answer)
        PROVE  [Cache!Next]_(Cache!vars)
    BY <2>1, <2>2, <2>7 DEF Generate, Wait
  <2>8. NotFound \in Answers
    BY DEF Answers
  <2>9. ASSUME NEW r \in Requests, Fallback(r)
        PROVE  [Cache!Next]_(Cache!vars)
    BY <2>1, <2>2, <2>8, <2>9 DEF Fallback
  <2>10. ASSUME NEW r \in Requests, RegenerateOffline(r)
         PROVE  [Cache!Next]_(Cache!vars)
    BY <2>2, <2>8, <2>10 DEF RegenerateOffline
  <2>11. ASSUME NEW r \in Requests, NEW answer \in Answers,
                Regenerate(r, answer)
         PROVE  [Cache!Next]_(Cache!vars)
    BY <2>2, <2>11 DEF Regenerate
  <2>12. ASSUME NEW r \in Requests, Parse(r) \/ Search(r) \/ Cancel(r)
         PROVE  UNCHANGED <<result, store>>
    BY <2>12 DEF Parse, Search, Cancel, Wait
  <2>13. UNCHANGED vars \/ Ingest => UNCHANGED <<result, store>>
    BY DEF vars, Ingest
  <2>14. ASSUME NEW r \in Requests, Step(r)
         PROVE  [Cache!Next]_(Cache!vars)
    BY <2>1, <2>3, <2>4, <2>5, <2>6, <2>7, <2>9, <2>10, <2>11, <2>12, <2>14
       DEF Step
  <2> QED BY <2>1, <2>12, <2>13, <2>14 DEF Next
<1> QED BY <1>1, <1>2, AlwaysPipelineInv, PTL
        DEF Spec, UsesCacheContract, Cache!Spec

-----------------------------------------------------------------------------
(* How many awaits a request may still have before it, the present one     *)
(* included.                                                               *)
AwaitsLeft ==
    [idle |-> 8, parse |-> 7, embed |-> 6, search |-> 5, rerank |-> 4,
     generate |-> 3, fallback |-> 2, regenerate |-> 1, done |-> 0, gone |-> 0]

LEMMA StepAdvances ==
  ASSUME TypeOK, NEW r \in Requests, Step(r)
  PROVE  AwaitsLeft[pc'[r]] < AwaitsLeft[pc[r]]
<1>1. ASSUME NEW next, GoTo(r, next) PROVE pc'[r] = next
  BY <1>1 DEF TypeOK, GoTo
<1>2. CASE Start(r)
  <2>1. pc[r] = "idle" /\ pc'[r] \in {"done", "parse"}
    BY <1>1, <1>2 DEF Start, ReturnCached, Return
  <2> QED BY <2>1 DEF AwaitsLeft
<1>3. CASE Parse(r) \/ Embed(r) \/ EmbedFails(r)
  <2>1. /\ pc[r] = "parse" => pc'[r] = "embed"
        /\ pc[r] = "embed" => pc'[r] \in {"done", "search"}
        /\ pc[r] \in {"parse", "embed"}
    BY <1>1, <1>3 DEF Parse, Embed, EmbedFails, ReturnCached, Return
  <2> QED BY <2>1 DEF AwaitsLeft
<1>4. CASE Search(r) \/ StorageFails(r) \/ Rerank(r)
  <2>1. /\ pc[r] = "search" => pc'[r] \in {"done", "rerank", "generate"}
        /\ pc[r] = "rerank" => pc'[r] \in {"done", "generate"}
        /\ pc[r] = "fallback" => pc'[r] = "done"
        /\ pc[r] \in {"search", "rerank", "fallback"}
    BY <1>1, <1>4 DEF Search, StorageFails, Rerank, Return
  <2> QED BY <2>1 DEF AwaitsLeft
<1>5. CASE GenerateOffline(r) \/ \E answer \in Answers : Generate(r, answer)
  <2>1. pc[r] = "generate" /\ pc'[r] \in {"done", "fallback"}
    BY <1>1, <1>5 DEF GenerateOffline, Generate, ReturnAndCache, Return
  <2> QED BY <2>1 DEF AwaitsLeft
<1>6. CASE Fallback(r)
  <2>1. pc[r] = "fallback" /\ pc'[r] \in {"done", "regenerate"}
    BY <1>1, <1>6 DEF Fallback, ReturnAndCache, Return
  <2> QED BY <2>1 DEF AwaitsLeft
<1>7. CASE RegenerateOffline(r) \/ \E answer \in Answers : Regenerate(r, answer)
  <2>1. pc[r] = "regenerate" /\ pc'[r] = "done"
    BY <1>1, <1>7 DEF RegenerateOffline, Regenerate, ReturnAndCache, Return
  <2> QED BY <2>1 DEF AwaitsLeft
<1> QED BY <1>2, <1>3, <1>4, <1>5, <1>6, <1>7 DEF Step

LEMMA OthersStay ==
  ASSUME TypeOK, NEW r \in Requests, [Next]_vars
  PROVE  pc'[r] = pc[r] \/ Step(r) \/ Cancel(r)
<1>1. ASSUME NEW q \in Requests \ {r}, Step(q) \/ Cancel(q) PROVE pc'[r] = pc[r]
  <2>1. \E next : pc' = [pc EXCEPT ![q] = next]
    BY <1>1
       DEF Step, Cancel, Start, Parse, Embed, EmbedFails, Search, StorageFails, Rerank,
           GenerateOffline, Generate, Fallback, RegenerateOffline, Regenerate,
           ReturnCached, ReturnAndCache, Return, GoTo
  <2> QED BY <2>1 DEF TypeOK
<1>2. ASSUME Ingest \/ UNCHANGED vars PROVE pc'[r] = pc[r]
  BY <1>2 DEF Ingest, vars
<1> QED BY <1>1, <1>2 DEF Next

(* Awaits run out: whatever the model answers, the store fails at and the  *)
(* cache holds by the time it is asked, every step of a request leaves it  *)
(* fewer awaits, of which there are never more than seven, and nothing     *)
(* else makes it wait again.  In particular the scan is made at most once, *)
(* and the model is asked to generate at most twice.  That the awaits end  *)
(* is fairness: Termination is left to the runs.                           *)
THEOREM AwaitsRunOut ==
  Spec =>
      [][\A r \in Requests :
            /\ AwaitsLeft[pc'[r]] <= AwaitsLeft[pc[r]]
            /\ Step(r) => AwaitsLeft[pc'[r]] < AwaitsLeft[pc[r]]]_vars
<1>1. TypeOK /\ [Next]_vars =>
         [\A r \in Requests :
            /\ AwaitsLeft[pc'[r]] <= AwaitsLeft[pc[r]]
            /\ Step(r) => AwaitsLeft[pc'[r]] < AwaitsLeft[pc[r]]]_vars
  <2> SUFFICES ASSUME TypeOK, [Next]_vars, NEW r \in Requests
               PROVE  /\ AwaitsLeft[pc'[r]] <= AwaitsLeft[pc[r]]
                      /\ Step(r) => AwaitsLeft[pc'[r]] < AwaitsLeft[pc[r]]
    OBVIOUS
  <2>1. AwaitsLeft[pc[r]] \in 0 .. 8
    BY DEF TypeOK, AwaitsLeft, Over
  <2>2. CASE pc'[r] = pc[r]
    BY <2>1, <2>2, StepAdvances
  <2>3. CASE Step(r)
    <3>1. pc'[r] \in DOMAIN AwaitsLeft
      BY <2>3
         DEF TypeOK, AwaitsLeft, Step, Start, Parse, Embed, EmbedFails, Search,
             StorageFails, Rerank, GenerateOffline, Generate, Fallback,
             RegenerateOffline, Regenerate, ReturnCached, ReturnAndCache, Return, GoTo
    <3>2. AwaitsLeft[pc'[r]] \in 0 .. 8
      BY <3>1 DEF AwaitsLeft
    <3> QED BY <2>1, <2>3, <3>2, StepAdvances
  <2>4. CASE Cancel(r)
    <3>1. AwaitsLeft[pc'[r]] = 0
      BY <2>4 DEF Cancel, GoTo, TypeOK, AwaitsLeft
    <3>2. AwaitsLeft[pc[r]] > 0
      BY <2>4 DEF Cancel, InFlight, TypeOK, AwaitsLeft, Over
    <3> QED BY <2>1, <3>1, <3>2, StepAdvances
  <2> QED BY <2>2, <2>3, <2>4, OthersStay
<1> QED BY <1>1, PipelineTypeCorrect, PTL DEF Spec
=============================================================================
