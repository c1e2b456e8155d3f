-------------------------- MODULE SemanticPipeline --------------------------
(***************************************************************************)
(* run_semantic_pipeline (src/pipelines/query/mod.rs): requests that share *)
(* one semantic cache and one customers table, which an ingestion of       *)
(* another process may change under them, as far as CustomerTable allows.  *)
(*                                                                         *)
(* A request is a task that may be suspended at each of its awaits, so the *)
(* steps below are what runs between two of them: everything the code does *)
(* after an answer arrives, up to the next await, is one action.  The      *)
(* cache is its contract (CacheContract): lookups and insertions are one   *)
(* step, and which entry a full cache gives up is left open.  The searches *)
(* are those of Retrieval.  The language model may answer anything, or not *)
(* at all.                                                                 *)
(***************************************************************************)
EXTENDS CacheLookup, Retrieval

CONSTANTS
    Requests,     \* one task each
    Raw,          \* Raw[q] is the query text taken as an intent
    Parsed,       \* Parsed[q] is the questions the model may parse q into
    IntentWords,  \* IntentWords[e] is the words of the intent embedded in e
    Sources,      \* the chunk ids the model may cite
    Quotes,       \* the quotes it may give
    HasReranker,  \* whether a cross-encoder is loaded
    RerankTop     \* how many chunks the re-ranking keeps

Question(intent, filters) == [intent |-> intent, filters |-> filters]

(* The query itself, without filters, stands in for what does not parse.   *)
Plain(q) == Question(Raw[q], << >>)
Questions(q) == Parsed[q] \cup {Plain(q)}

ASSUME PipelineAssumption ==
    /\ \A q \in Queries : \A p \in Questions(q) : p.intent \in Embeddings
    /\ DOMAIN IntentWords = Embeddings
    /\ HasReranker \in BOOLEAN
    /\ RerankTop \in Nat \ {0}

VARIABLES
    pc,        \* pc[r]: what request r waits for
    query,     \* query[r]: the text it was asked
    question,  \* question[r]: parsed_query, its intent and filters
    chunks,    \* chunks[r]: the rows in the latest prompt
    result,    \* result[r]: what was returned
    store,     \* the entries of the semantic cache, oldest first
    table,     \* the customers table
    proof,     \* proof[r]: how far the absence of an answer is established:
               \* "none", or the scan was "empty", or it "found" rows, about
               \* which the model was "asked" (only read by properties)
    stored     \* every row the table ever held (likewise)

task == <<query, question, proof>>
vars == <<pc, task, chunks, result, store, table, stored>>

Customers == INSTANCE CustomerTable

-----------------------------------------------------------------------------
(* Answers of the model, and the verification firewall                     *)
(* (src/pipelines/query/firewall.rs).                                      *)
NotFound == [found |-> FALSE]
Malformed == [found |-> FALSE, malformed |-> TRUE]
Claim(source, quote) == [found |-> TRUE, source |-> source, quote |-> quote]

Answers == {NotFound, Malformed}
             \cup {Claim(source, quote) : source \in Sources, quote \in Quotes}

(* str::contains: the empty quote occurs in every text. *)
Blank == ""
Occurs(quote, row) == quote = Blank \/ quote \in ChunkText(row)

Backs(row, answer) ==
    row.kunnr = answer.source /\ Occurs(answer.quote, row)

Passes(answer, rows) ==
    /\ answer # Malformed
    /\ answer.found => \E row \in rows : Backs(row, answer)

-----------------------------------------------------------------------------
(* What a request returns; by is the request the answer was generated for. *)
Verified(answer, by) == [kind |-> "verified", answer |-> answer, by |-> by]
Degraded(rows) == [kind |-> "degraded", rows |-> rows]
Failed(why) == [kind |-> "failed", why |-> why]
Error == Failed("error")
Refused(answer) == IF answer = Malformed THEN Error ELSE Failed("hallucinated")
None == [kind |-> "none"]

Over == {"done", "gone"}
InFlight == {r \in Requests : pc[r] \notin Over \cup {"idle"}}

GoTo(r, next) == pc' = [pc EXCEPT ![r] = next]

Wait == UNCHANGED <<result, chunks>>

Return(r, res) ==
    /\ GoTo(r, "done")
    /\ result' = [result EXCEPT ![r] = res]
    /\ chunks' = [chunks EXCEPT ![r] = {}]

ReturnCached(r, i) == Return(r, Verified(store[i].response, store[i].by))

(* Mutant of ReturnAndCache: the entry is keyed by the text, not the intent. *)
ReturnAndCacheText(r, answer) ==
    /\ Return(r, Verified(answer, r))
    /\ store' \in AfterInsert(store, [query     |-> query[r],
                                      embedding |-> query[r],
                                      response  |-> answer,
                                      by        |-> r,
                                      rivals    |-> InFlight \ {r}])

(* Return a verified answer and insert it in the cache, under the query as *)
(* asked and the intent as parsed.  by and rivals, the requests in flight  *)
(* at the time, are only read by properties.                               *)
ReturnAndCache(r, answer) ==
    /\ Return(r, Verified(answer, r))
    /\ store' \in AfterInsert(store, [query     |-> query[r],
                                      embedding |-> question[r].intent,
                                      response  |-> answer,
                                      by        |-> r,
                                      rivals    |-> InFlight \ {r}])

-----------------------------------------------------------------------------
Init ==
    /\ pc = [r \in Requests |-> "idle"]
    /\ query \in [Requests -> Queries]
    /\ question = [r \in Requests |-> Plain(query[r])]
    /\ chunks = [r \in Requests |-> {}]
    /\ result = [r \in Requests |-> None]
    /\ store = << >>
    /\ Customers!Init
    /\ proof = [r \in Requests |-> "none"]
    /\ stored = table

(* Tier 1 of the cache, before the first await. *)
Start(r) ==
    /\ pc[r] = "idle"
    /\ LET i == ExactIndex(store, query[r])
       IN  \/ i # 0 /\ ReturnCached(r, i)
           \/ i = 0 /\ GoTo(r, "parse") /\ Wait
    /\ UNCHANGED <<task, store, table, stored>>

(* The parser's answer; malformed, or none, and the query is the intent.   *)
Parse(r) ==
    /\ pc[r] = "parse"
    /\ \E p \in Questions(query[r]) : question' = [question EXCEPT ![r] = p]
    /\ GoTo(r, "embed")
    /\ Wait
    /\ UNCHANGED <<query, proof, store, table, stored>>

(* The embedding task panics or the model cannot encode the intent. *)
EmbedFails(r) ==
    /\ pc[r] = "embed"
    /\ Return(r, Error)
    /\ UNCHANGED <<task, store, table, stored>>

(* Mutants of Embed: the second tier is not asked; or a hit is stored      *)
(* again under the asker's keys.                                           *)
EmbedUncached(r) ==
    /\ pc[r] = "embed"
    /\ GoTo(r, "search")
    /\ Wait
    /\ UNCHANGED <<task, store, table, stored>>

EmbedAndPromote(r) ==
    /\ pc[r] = "embed"
    /\ LET i == SimilarIndex(store, question[r].intent)
       IN  \/ /\ i # 0
              /\ ReturnCached(r, i)
              /\ store' \in AfterInsert(store,
                     [store[i] EXCEPT !.query = query[r],
                                      !.embedding = question[r].intent])
           \/ i = 0 /\ GoTo(r, "search") /\ Wait /\ UNCHANGED store
    /\ UNCHANGED <<task, table, stored>>

(* The embedding arrives: tier 2 of the cache. *)
Embed(r) ==
    /\ pc[r] = "embed"
    /\ LET i == SimilarIndex(store, question[r].intent)
       IN  \/ i # 0 /\ ReturnCached(r, i)
           \/ i = 0 /\ GoTo(r, "search") /\ Wait
    /\ UNCHANGED <<task, store, table, stored>>

(* The search or the scan fails: no table, a table dropped under it, an    *)
(* I/O error.                                                              *)
StorageFails(r) ==
    /\ pc[r] \in {"search", "fallback"}
    /\ Return(r, Error)
    /\ UNCHANGED <<task, store, table, stored>>

Search(r) ==
    /\ pc[r] = "search"
    /\ table # {}
    /\ \E found \in SearchOutcomes(table, question[r].filters) :
          chunks' = [chunks EXCEPT ![r] = found]
    /\ GoTo(r, IF HasReranker THEN "rerank" ELSE "generate")
    /\ UNCHANGED <<task, result, store, table, stored>>

(* The cross-encoder keeps the best few, whichever these are, or fails;    *)
(* it is not run on nothing.                                               *)
Rerank(r) ==
    /\ pc[r] = "rerank"
    /\ \/ /\ \E best \in UpTo(RerankTop, chunks[r]) :
                chunks' = [chunks EXCEPT ![r] = best]
          /\ GoTo(r, "generate")
          /\ UNCHANGED result
       \/ /\ chunks[r] # {}
          /\ Return(r, Error)
    /\ UNCHANGED <<task, store, table, stored>>

(* The model cannot be reached, twice: the chunks are returned as they are *)
(* and nothing is cached.                                                  *)
GenerateOffline(r) ==
    /\ pc[r] = "generate"
    /\ Return(r, Degraded(chunks[r]))
    /\ UNCHANGED <<task, store, table, stored>>

(* Mutant of Generate: that nothing was found is cached before the scan.   *)
GenerateCachesAbsence(r, answer) ==
    /\ pc[r] = "generate"
    /\ \/ /\ ~ Passes(answer, chunks[r])
          /\ Return(r, Refused(answer))
          /\ UNCHANGED store
       \/ /\ Passes(answer, chunks[r])
          /\ answer.found
          /\ ReturnAndCache(r, answer)
       \/ /\ Passes(answer, chunks[r])
          /\ ~ answer.found
          /\ GoTo(r, "fallback")
          /\ store' \in AfterInsert(store, [query     |-> query[r],
                                            embedding |-> question[r].intent,
                                            response  |-> answer,
                                            by        |-> r,
                                            rivals    |-> InFlight \ {r}])
          /\ Wait
    /\ UNCHANGED <<task, table, stored>>

(* Mutant of Generate: what does not verify is searched for again.         *)
GenerateSearchesAgain(r, answer) ==
    /\ pc[r] = "generate"
    /\ IF Passes(answer, chunks[r])
       THEN IF answer.found THEN ReturnAndCache(r, answer)
                            ELSE GoTo(r, "fallback") /\ Wait /\ UNCHANGED store
       ELSE GoTo(r, "search") /\ Wait /\ UNCHANGED store
    /\ UNCHANGED <<task, table, stored>>

(* Mutant of Generate: that nothing was found is taken for an absence.     *)
GenerateNoScan(r, answer) ==
    /\ pc[r] = "generate"
    /\ \/ /\ ~ Passes(answer, chunks[r])
          /\ Return(r, Refused(answer))
          /\ UNCHANGED store
       \/ /\ Passes(answer, chunks[r])
          /\ ReturnAndCache(r, answer)
    /\ UNCHANGED <<task, table, stored>>

(* The model answers: refuse what does not verify, return and cache what   *)
(* was found, scan when nothing was.                                       *)
Generate(r, answer) ==
    /\ pc[r] = "generate"
    /\ \/ /\ ~ Passes(answer, chunks[r])
          /\ Return(r, Refused(answer))
          /\ UNCHANGED store
       \/ /\ Passes(answer, chunks[r])
          /\ answer.found
          /\ ReturnAndCache(r, answer)
       \/ /\ Passes(answer, chunks[r])
          /\ ~ answer.found
          /\ GoTo(r, "fallback")
          /\ Wait
          /\ UNCHANGED store
    /\ UNCHANGED <<task, table, stored>>

(* The keyword scan, of the table as it is by now and without the filters. *)
Fallback(r) ==
    /\ pc[r] = "fallback"
    /\ table # {}
    /\ \E found \in ScanOutcomes(table, IntentWords[question[r].intent]) :
          /\ proof' = [proof EXCEPT ![r] = IF found = {} THEN "empty"
                                                        ELSE "found"]
          /\ \/ /\ found = {}
                /\ ReturnAndCache(r, NotFound)
             \/ /\ found # {}
                /\ chunks' = [chunks EXCEPT ![r] = found]
                /\ GoTo(r, "regenerate")
                /\ UNCHANGED <<result, store>>
    /\ UNCHANGED <<query, question, table, stored>>

(* The model cannot be reached this time: the first answer stands. *)
RegenerateOffline(r) ==
    /\ pc[r] = "regenerate"
    /\ ReturnAndCache(r, NotFound)
    /\ UNCHANGED <<task, table, stored>>

(* Mutant of Regenerate: the second answer is not verified. *)
RegenerateUnverified(r, answer) ==
    /\ pc[r] = "regenerate"
    /\ proof' = [proof EXCEPT ![r] = "asked"]
    /\ ReturnAndCache(r, answer)
    /\ UNCHANGED <<query, question, table, stored>>

Regenerate(r, answer) ==
    /\ pc[r] = "regenerate"
    /\ proof' = [proof EXCEPT ![r] = "asked"]
    /\ \/ /\ ~ Passes(answer, chunks[r])
          /\ Return(r, Refused(answer))
          /\ UNCHANGED store
       \/ /\ Passes(answer, chunks[r])
          /\ ReturnAndCache(r, answer)
    /\ UNCHANGED <<query, question, table, stored>>

(* The client goes away: the task is dropped at its await. *)
Cancel(r) ==
    /\ r \in InFlight
    /\ GoTo(r, "gone")
    /\ chunks' = [chunks EXCEPT ![r] = {}]
    /\ UNCHANGED <<task, result, store, table, stored>>

Step(r) ==
    \/ Start(r) \/ Parse(r) \/ Embed(r) \/ EmbedFails(r)
    \/ Search(r) \/ StorageFails(r) \/ Rerank(r)
    \/ GenerateOffline(r) \/ \E answer \in Answers : Generate(r, answer)
    \/ Fallback(r)
    \/ RegenerateOffline(r) \/ \E answer \in Answers : Regenerate(r, answer)

-----------------------------------------------------------------------------
(* Another process ingests: a batch is inserted, or the table dropped.     *)
Ingest ==
    /\ Customers!Next
    /\ stored' = stored \cup table'
    /\ UNCHANGED <<pc, task, chunks, result, store>>

Next ==
    \/ \E r \in Requests : Step(r) \/ Cancel(r)
    \/ Ingest

(* Every await of a request ends: model calls time out, the embedding and  *)
(* the re-ranking are finite computations, the searches read local files.  *)
Fairness ==
    \A r \in Requests : WF_vars(pc[r] # "idle" /\ Step(r))

Spec == Init /\ [][Next]_vars /\ Fairness
-----------------------------------------------------------------------------
Results == {None, Error, Failed("hallucinated")}
             \cup {Verified(answer, by) : answer \in Answers, by \in Requests}
             \cup {Degraded(rows) : rows \in SUBSET Rows}

CacheEntry == [query : Queries, embedding : Embeddings, response : Answers,
               by : Requests, rivals : SUBSET Requests]

TypeOK ==
    /\ pc \in [Requests -> {"parse", "embed", "search", "rerank", "generate",
                            "fallback", "regenerate", "idle"} \cup Over]
    /\ query \in [Requests -> Queries]
    /\ question \in [Requests -> UNION {Questions(q) : q \in Queries}]
    /\ \A r \in Requests : question[r] \in Questions(query[r])
    /\ chunks \in [Requests -> SUBSET stored]
    /\ result \in [Requests -> Results]
    /\ store \in Seq(CacheEntry)
    /\ table \subseteq stored /\ stored \subseteq Rows
    /\ proof \in [Requests -> {"none", "empty", "found", "asked"}]

Answered == {r \in Requests : result[r].kind = "verified"}

(* The requests whose answer was generated for them, not read in the cache. *)
Fresh == {r \in Answered : result[r].by = r}

Genuine(answer) == answer.found => \E row \in stored : Backs(row, answer)

(* Every claim that is returned, or waits in the cache to be returned,     *)
(* quotes a row the table held under the id it cites: whatever the model   *)
(* makes up, in either generation, and however stale the cache is.         *)
Grounded ==
    /\ \A r \in Answered : Genuine(result[r].answer)
    /\ \A i \in DOMAIN store : Genuine(store[i].response)

(* An answer is only given to a question of the same text up to case and   *)
(* spaces as the one it was generated for, or of an intent within the      *)
(* threshold of it: similarity does not add up through the cache.          *)
NoDrift ==
    \A r \in Answered :
        \/ Norm[query[result[r].by]] = Norm[query[r]]
        \/ Similar(question[result[r].by].intent, question[r].intent)

(* The cache holds answers of requests that returned just that answer:     *)
(* nothing of one that failed, was degraded or was cancelled.              *)
CachedWasReturned ==
    \A i \in DOMAIN store :
        result[store[i].by] = Verified(store[i].response, store[i].by)

Alike(x, y) ==
    \/ Norm[x.query] = Norm[y.query]
    \/ Similar(x.embedding, y.embedding)

(* Two entries for one question, or for similar intents, come only from    *)
(* requests that overlapped: the later one was in flight when the earlier  *)
(* one was cached.                                                         *)
DuplicatesOverlapped ==
    \A i, j \in DOMAIN store :
        i < j /\ Alike(store[i], store[j]) => store[j].by \in store[i].rivals

(* That something was not found is never said before the keyword scan.     *)
AbsenceAfterScan ==
    \A r \in Fresh : ~ result[r].answer.found => proof[r] # "none"

(* That something was not found is proven: no row holds the words of the   *)
(* intent, or the model was asked about the rows that do.  The code does   *)
(* not keep this, for the second call of the model may fail.               *)
AbsenceProven ==
    \A r \in Fresh :
        ~ result[r].answer.found => proof[r] \in {"empty", "asked"}

(* A request takes the course its callers count on: every await leads to   *)
(* the next, none back, and only an unanswered generation is degraded.     *)
StageOf == [idle |-> "outside", parse |-> "parsing", embed |-> "embedding",
            search |-> "embedding", rerank |-> "embedding",
            generate |-> "generating", fallback |-> "rescanning",
            regenerate |-> "regenerating", done |-> "over", gone |-> "over"]

OutcomeOf == [none |-> "none", verified |-> "answer", degraded |-> "degraded",
              failed |-> "error"]

Course == INSTANCE SemanticCourse WITH
    stage <- [r \in Requests |-> StageOf[pc[r]]],
    outcome <- [r \in Requests |-> OutcomeOf[result[r].kind]]

KeepsCourse == Course!Spec

(* The requests use the cache as its contract lets them: a lookup per tier *)
(* that answers from the entries of one instant and leaves them alone, and *)
(* insertions, never both in one step.  What a lookup found is what was    *)
(* returned of another request.                                            *)
CacheReply ==
    [r \in Requests |-> IF result[r].kind = "verified" /\ result[r].by # r
                        THEN result[r].answer
                        ELSE None]

Cache == INSTANCE CacheContract WITH
    Threads <- Requests,
    Responses <- Answers,
    Nothing <- None,
    store <- Contents(store),
    reply <- CacheReply

UsesCacheContract == Cache!Spec

(* Every request ends, with an answer, a degraded answer or an error. *)
Termination == \A r \in Requests : r \in InFlight ~> pc[r] \in Over
=============================================================================
