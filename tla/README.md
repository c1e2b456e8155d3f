# A TLA+ model of rust-enterprise-query-engine

The engine answers questions about a customer master table.  A question is
routed to SQL (DataFusion) or to semantic search (LanceDB, with a language model
that is called over HTTP), and answers of the semantic kind are cached.  The same
binary ingests CSV files, serves HTTP and gRPC, and answers questions on the
command line.

This directory models the parts of it where the order of events, failure, or a
limit decides whether the result is right: the semantic cache, the hybrid search and
its re-ranking, the semantic pipeline, the ingestion, the server, the commands and
the model files they load.  TLC checks each on a small instance; TLAPS proves every
safety property for every instance, and of liveness what is not fairness: that nothing can
go on for ever.  Paths below are relative to the
repository, without the `src/` its crate lies in.

## 1. The system

| Component | State | Operations | Talks to |
|---|---|---|---|
| Semantic cache, `src/engines/cache.rs` | a `RwLock<Vec<CacheEntry>>`; an atomic stamp per entry | `get_exact`, `get_similar`, `insert` | shared by all requests of a process |
| Hybrid search and fusion, `src/engines/vector.rs`, `rank_fusion.rs` | none but its own lists; reads one table version | nearest neighbours, one scan or exclusion per filter, fusion, cut; the fallback scan | LanceDB |
| Semantic pipeline, `src/pipelines/query/mod.rs`, `firewall.rs`, `prompts.rs` | the future of each request, the shared `AppState` | one request: cache, parse, embed, cache, search, re-rank, generate, verify, scan, generate again | cache, embedding, search, model |
| Ingestion, `src/pipelines/ingest/` | the customers table; the batch being built | drop, open, read a batch, look up, embed, open the table, merge or create, index | LanceDB, embedding |
| Gateway, `src/gateway/` | two listeners, a watch channel, a semaphore per route | boot, accept, shed, admit, receive, reply, deliver, disconnect, drain, exit | pipelines |
| Router and model client, `src/pipelines/query/router.rs`, `ollama.rs` | posts made for the present prompt | route, write SQL, post, post again | the model |
| Re-ranking, `src/engines/rerank.rs` | a loaded cross-encoder | score and sort pairs | blocking pool |
| SQL engine and guard, `src/engines/sql.rs`, `ast_guard.rs` | a `SessionContext` | check, execute, cut to `MAX_SQL_ROWS` | DataFusion |
| Embeddings and model files, `src/engines/embeddings.rs` | files on disk, a loaded network | download, load, embed | blocking pool |
| CLI, `src/gateway/cli.rs`, `src/gateway/mod.rs` | the SQL engine and the model of the process, each made when first needed | `ingest`, `ask`, `ask-semantic`, `execute-sql`, `ask-ai-sql`, `health`, `serve`; a loop over piped questions | all |

What interacts with what, and how:

* Requests are tasks of one tokio runtime.  They share the cache (a lock) and the
  table (through LanceDB), and nothing else that changes.  A task can be suspended,
  or dropped because its client is gone, at every `await`.
* An ingestion is another process.  It changes or drops the table between any two
  calls that a request makes of the store.  Several ingestions may run at once.
* Embedding and re-ranking run on the blocking pool.  A job there goes on after the
  request that wanted it was dropped.
* The model may be out, slow, or answer anything.  A post that fails or times out is
  made a second time after 500 ms (`ollama.rs:58-89`).
* Two processes that start together share the directory of the model files, and nothing
  keeps one from reading what the other has half written.
* A request awaits its client three times: for the rest of its head, for its body, which the
  `Json` extractor reads while the permit is held (`routes.rs:80`, `:136`, `:152`), and for the
  reply to be taken.  No timer ends any of these, and none ends SQL (`sql.rs:34`).
* A signal reaches both listeners through a `watch` channel; `try_join!` waits for both.

What makes it hard, and what each part should keep:

* *Cache.* Stamps are stored under the read lock, from a wall clock that may repeat or
  go back, by several lookups at a time.  A lookup must not be disturbed by an
  insertion; the capacity must hold; only a full cache may lose an entry; the entry
  lost should be the least recently used.
* *Search.* Filters act in the order the model gave them, and the ranking is cut before
  excluded rows leave it.  What comes back, and in which order, must be explainable.
* *Pipeline.* Two calls of the model and two of the store can fail one by one, while
  other requests fill the cache and an ingestion changes the table.  A claim must quote
  a row that existed; answers must not drift through similarity; failures must not be
  cached; an absence needs a scan; a request must end.
* *Ingestion.* Lookup and insertion are far apart, errors of the lookup are swallowed,
  loaders run together, crash and run again, and each merges against the version of the table
  it opened.  A stored row must stay; a finished run must be complete; a loader by itself must
  not store a customer twice.  Two that hold the table open together may: the second to merge
  does not see the rows of the first.
* *Gateway.* Permits must not leak on any way a request can end; an outage of the model
  must degrade and not refuse; a signal at any time must end the process, and not before
  what was accepted is over.  One stalled client, or a query that never ends, keeps its permit,
  and keeps a process that was told to stop from exiting: nothing else may.
* *Re-ranking.* The scorer may return any number of scores; `zip` would drop or mismatch
  candidates without a word.  The best must be kept, in a stable order.
* *Model files.* A file is written in place and later only tested for existence.  A start
  must get a whole model, or fail; which of its failures last must be explainable; once the
  files are complete nothing may harm them.
* *Commands.* Questions are piped; one that fails ends the command.  What was printed must be
  the answers to the questions before it, in order.

`PROJECT.json` lists the hazards line by line, each with the properties that guard it.

## 2. Modules

```
CacheLookup ──┬── CacheContract ◄── refined by ── SemanticCache ── SemanticCacheLRU
              │        ▲
              │        └── refined by ──┐
              └────────── SemanticPipeline ── refines ──► SemanticCourse ◄── refines ── Gateway
Retrieval  ───┬───────────────┘ │
              │           uses CustomerTable ◄── refined by ── Ingestion
              │                 │
              └──────── HybridSearch ── RankedSearch   (HybridSearch within SearchOutcomes,
                                                        RankedSearch within UpTo(top, result))
ModelFiles ────── CommandLine
```

| Module | Models |
|---|---|
| `CacheLookup` | what a scan of the entries finds, and which contents an insertion may leave: the vocabulary of the next three and of the pipeline |
| `CacheContract` | the abstract cache: atomic lookups and insertions, the entry given up left open |
| `SemanticCache` | the cache as coded: a lookup that hits is two steps under the read lock |
| `SemanticCacheLRU` | the same with a record of when each entry was really used |
| `CustomerTable` | what the readers of the table rely on: rows are only added, or all are dropped |
| `Retrieval` | what the search and the fallback scan may return, as sets of rows |
| `HybridSearch` | the search pass by pass, the fusion and the cut |
| `RankedSearch` | the search followed by the cross-encoder: counting, sorting and cutting of its scores |
| `SemanticCourse` | the abstract course of a semantic question: which awaits follow which, how each may end it |
| `SemanticPipeline` | `run_semantic_pipeline` for many requests, with an ingestion beside it |
| `Ingestion` | `execute_ingestion` for many loaders |
| `Gateway` | the server: doors, permits, routing, the model client with its retry, shutdown |
| `ModelFiles` | the files of a model, on a disk that several processes share, and how one loads them |
| `CommandLine` | the seven commands: where questions come from, the loop over them, what is loaded when |

`MC*` modules give the constants values; `*Proofs` modules and `DataLemmas` hold the
proofs.  A definition called `... Mutant of X` in its comment is a plausible bug in `X`; it
is used nowhere in the specification, and serves to show that a property would notice it.

The composition is by contract. `SemanticPipeline` uses the cache only as `CacheContract` allows
(`UsesCacheContract`, proved), and `SemanticCache` is proved to keep that contract; the table
beside a request changes as `CustomerTable` says (`Ingest`), which `Ingestion`, with any number
of loaders that overlap, fail and crash, is proved to keep (`KeepsTable`), and which the tables
that `HybridSearch` starts from come from as well; the search as `SearchOutcomes`, which
`HybridSearch` is proved to stay within; and the re-ranking as any few of what was found, which
`RankedSearch` is proved to be. In `Gateway`, the pipeline is only the sequence of its awaits,
and in `SemanticPipeline` there is no server: that both mean the same request is
`SemanticCourse`, which each of them is proved to implement.

### 2.1 Semantic cache

`entries` is the `Vec<CacheEntry>`; `lookup[t]` holds what a lookup that has hit still has
to do, and a thread with a pending lookup is a reader of the lock.  `FindEntry` is
everything up to the read of the clock (`cache.rs:35` and `:56`), `Touch` the store of the
stamp, the clone and the unlock.  `Insert` needs the write lock, hence no reader, and is one
step.  The clock moves by any member of `ClockSteps`, because `SystemTime` may repeat and be set
back.  Query text is opaque, with `Norm` for trimming and ASCII case folding; vectors are
opaque with a length and a table of dot products in hundredths, NaN being a value below any
that is considered.

### 2.2 Search

A text is the set of words it contains, so `contains` and `LIKE '%..%'` are membership.  The
chunk of a row includes the keys of the JSON object it is rendered as (`vector.rs:84-88`),
because NOT filters look at that text; the sentence has the fourth field and its
boilerplate.  `Scans` gives the rows of each pass, `Kept` those whose chunk survives the
filters that follow, `SearchOutcomes` what the cut leaves.  As a customer may have several rows
(2.4) and the code ranks ids and keeps chunks in a map by id, `Latest` and `OnePerId` say which
row of a customer the map ends with: one of the last pass that found the customer.
`HybridSearch` has the order as well: `dense`, `lexical`, `kept` and `result` are the code's
`dense_ids`, `lexical_ids`, `retrieved_chunks` and `ordered`; `Extract` is the insertion of a
pass into the map.  Which rows are nearest is left open.  Scores are compared
exactly; the code adds them in `f32`.

`RankedSearch` goes on from the result: `top` is `top_k`, `scores` what the cross-encoder gave.
It may give any list of scores up to one longer than it should be; `Rerank` takes a list of the
right length, `RerankFails` is the error for any other, and for a scorer that fails.
`RerankByScores` zips, sorts and truncates.  `total_cmp` puts NaN and both zeros in one order
with the numbers, so a score is a place in that order.

### 2.3 Semantic pipeline

Each action is what runs from one await to the next. `Start` is tier 1 of the cache and runs
before any await; `Embed` is the arrival of the embedding, with tier 2; `Search`, `Rerank`,
`Generate`, `Fallback`, `Regenerate` follow; `EmbedFails`, `StorageFails`, `GenerateOffline`,
`RegenerateOffline` are their failures; `Cancel` drops the task. `Ingest` is the other process,
a step of `CustomerTable`. `Answers` is everything the model may say: nothing found, malformed,
or a claim of any source and any quote, the empty one included. `Passes` is the firewall. A
claim that does not pass ends the request with an error at once (`mod.rs:242`), where
`docs/semantic_rag_pipeline.html:123` has a hallucination lead to the keyword scan; the model
follows the code. `proof`, `stored`, and the fields `by` and `rivals` of an entry are history,
read by properties only.

`HasReranker = FALSE` is what `serve` and the commands run, which never load a cross-encoder;
`TRUE` is reached through the library (`AppState::with_cross_encoder`).

`CacheReply` is what the cache last gave each request: an answer that another request generated.  With
it and the entries without their history, the pipeline is a user of `CacheContract`.

`Course` maps the awaits to the stages of `SemanticCourse`: the cache's second tier, the search
and the re-ranking are part of the stage that begins with the embedding.

### 2.4 Ingestion

A line of a file is a customer number, `NoNumber`, or a line that does not deserialize.  The
code numbers a customer without a number "Unknown" (`chunker.rs:95`), and only looks up the
others (`chunker.rs:81-86`).  `Lookup` may miss any of what is there, because
`find_existing_in_db` swallows its errors.  `insert_batch` awaits twice: `OpenTable` is the
first await (`vector.rs:53`), whose handle is of one version of the table (`opened[l]`: which
table of the name, and the customers it held), and `Merge` is the second (`vector.rs:57`), a
`merge_insert` without an update clause: of the batch it adds the rows that do not match in that
version, to the table as it is by then.  If the table was dropped in between, the merge can only
fail.  `OpenFails` and `Create` are the other branch.  To a reader `Merge` and `Create` are each
an `Insert` of `CustomerTable`, whose rows are the lines that can be loaded.  `drops`, `seen` and
`wasted` are history, and so are the fields `by` and `during` of a row: who inserted it, and
which other loaders held the table open then.

So a customer can have two rows, inserted by two loaders that had the table open together.  No
text of the repository excludes that, and `TwiceOnlyIfOpenTogether` says that there is no other
way to it; the readers are therefore checked over tables with such customers.

### 2.5 Gateway

A request's `pc` says which await it is at.  `Connect` is a connection that an open door accepted
and that begins a request; it is "arriving" until its head is complete, and then shed or admitted.
`permits[route]` is the semaphore of one route: `Router::layer` wraps every route by itself, so
there are as many as routes, and tonic's server has none.  `Admit` takes the permit, and the
request is "receiving": the extractor awaits the body (`/health` has none).  `Receive` is what
follows it: a body that is not the request's JSON, an empty or too long query, an answer of the
first tier of the cache, or the first await of the handler.  `Reply` and `Disconnect` give the
permit back because the response future owns it; the response is "replying" until the client has
taken it (`Deliver`), and its door waits for that too.  `OpenEnded` are the awaits that nobody in
the process ends, those of the client and that of SQL.
`Repost`, `Unheard` and `Heard` are `prompt_model`; `jobs` are the embeddings on the
blocking pool, which the end of the runtime waits for.  `Course` maps what is before the
pipeline (routing, SQL, health) to "outside".

### 2.6 Model files and commands

`ModelFiles` follows `load_model` from system call to system call: `Check` is `Path::exists`,
`Get` the download, whose status is not looked at, `Open` the creation or truncation by
`fs::write`, `Fill` its writes, `Read` the parsing of each file (of the weights only the header),
`Copy` the reading of the mapped tensors.  `load_cross_encoder` has the same steps.  `disk[f]` is
"absent", "whole", "damaged" (short, or an error page) or "holed" (as long as it should be, with
zeros in between, as two writers may leave it); `mixed[f]` says that the writers at work will not
leave the file as one of them alone would.  A process that opened a file after another truncated it
starts again from zero while the other goes on at its own offset: hence the hole.  `FillFails`
and `Kill` leave a file as far as it was written.

`CommandLine` has the rest of `run` for every command: `Resolve` is `resolve_query_inputs`,
`SkipBlank`, `ReadFails`, `EndOfInput` its iterator, `Register` is `init_datafusion`, `Route` the
router of `ask`, which makes the engine and the model ready for the first question that needs
them, and which takes a router that cannot be reached for "not SQL".  `execute-sql` is checked by
the guard when it is read (`IsSafe`); SQL of the model is checked within the step that executes it
(`Answer`, `AnswerFails`), which stands for `run_sql_query`.  A semantic question is one step here.
`ask` makes a new `AppState`, hence a new cache, for every question (`mod.rs:116`, `:138`), so the
questions of a stream share no cached answers.  `serve` and `ingest` end here where `Gateway` and
`Ingestion` begin.

### 2.7 What is external

Modelled from how the code uses it: LanceDB (a merge, a create and a drop are atomic; an open
handle reads one version, so a merge matches the rows of the version its handle was opened at,
and two merges of one version are not told of each other, as neither changes a row of it; a merge
whose table was dropped fails; `create_table` fails if there is a table), hyper and tonic (the
future of a request is dropped when the client is gone; graceful shutdown closes a door when
what it accepted is over), tower's concurrency limit, tokio's blocking pool, the model, the
operating system (a write is not atomic; a file stays as written when its writer stops).

## 3. What is checked

Passing runs:

| Run | Instance | Shows |
|---|---|---|
| `cache` | 2 threads, capacity 2, two spellings of a query, two similar vectors and one of another length, clock steps -1, 0, 1 | lookups stable under interleaving, and `ImplementsContract`: split lookups look atomic, the capacity holds, only a full cache loses an entry |
| `cache_lru` | 1 thread, capacity 2, 3 queries, a clock that always advances, 6 ticks | eviction is least-recently-used when lookups do not overlap |
| `hybrid` | every table of 4 rows, two of them of one customer, every list of up to 2 of 5 filters, limits of 2; any of 3 scores for each candidate, too few or too many of them, 0 to 2 to keep | what is returned is what `Retrieval` describes; excluded rows return only by a later filter; double hits come first; re-ranking keeps the best, in order, and no more than the pipeline's model assumes |
| `pipeline` | 3 requests, 3 texts, intents a ~ b ~ c with a, c dissimilar, a customer that moves, cache of 2, no re-ranker | the five safety properties of the pipeline |
| `pipeline_termination` | 2 requests, cache of 1, re-ranker | every request ends, keeps to `SemanticCourse`, and uses the cache as `CacheContract` has it |
| `ingestion` | 2 loaders, batches of 2, files with repetitions within and across batches and files, unnumbered lines, a short batch, a bad line | a customer is stored twice only by loaders that held the table open together, done is complete, embeddings wasted, `CustomerTable` is kept (rows stay until the table is dropped), every run ends |
| `gateway` | 2 requests at any two of 7 entries, limit 1, 2 posts | permits, degradation, draining, shedding; shutdown, and the end of requests, wherever no client or query stalls; the course of `SemanticCourse` |
| `command_line` | 2 processes, any two commands, 2 model files absent or whole at first, a stream of a safe query, a blank line and an unsafe one, or an unreadable line | failures to load have a cause; garbled weights need an overlap; complete files stay complete and then load; answers in order; commands end |

Runs that find the code to differ from what the repository says of it:

| Run | Says | Found |
|---|---|---|
| `cache_stamps` | `README.md:48`, LRU eviction, thread-safe | two overlapping lookups store their stamps in the opposite order to their reads of the clock, and an entry used last is evicted |
| `hybrid_exclusion` | `tests/vector_tests.rs:129-132`, an excluded row must not come back | a positive filter after the NOT filter brings it back |
| `pipeline_absence` | `README.md:14`, fallback scans return verified chunks or proven absences | if the scan finds rows and the second call fails, the first "not found" is returned and cached |
| `gateway_limit` | `README.md:37`, concurrent queries are bounded to 128 | two routes, or a route and gRPC, exceed the limit |

### Bounds, and why they are enough

* *Cache.* Two threads overlap two lookups of one entry, which is all that a read lock and one
  atomic store let interact.  Capacity 2 has an entry to keep and one to evict.  `MaxClock`
  bounds the stamps: with 0 and 1 there are ties, advances and reversals; for the LRU runs 6
  reads of the clock suffice to fill the cache, use both entries, evict, and use again.
* *Search.* Four rows of three customers exceed the limit of two, so the cut happens, and two
  rows of one customer differ in the city that a filter excludes; two filters have every order
  of a NOT and a positive one.  Longer lists repeat that.  The search returns at most two rows, so
  that keeping none, one and two of them is below, at and beyond the cut; three scores give every
  order of two candidates and the tie.
* *Pipeline.* Drift needs a chain of three intents and three requests.  Cache capacity 2 has
  duplicates and evictions.  One customer in two versions is enough for a stale quote and for
  an absence that is not one any more.  `SearchLimit` 2 and `ScanLimit` 1 stand for 20 and 5.
* *Ingestion.* Two loaders race for lookup and merge, for opening and merge, and for create; a
  drop falls between any two steps of the other loader.  `MaxRuns` is 1 for each:
  a loader that runs after the other crashed is a restart.  A batch of two holds a repetition,
  and the files have full, short and empty last batches.
* *Gateway.* With a limit of one, two requests are one admitted and one shed, or one that
  stalls and one that must end all the same.  `Posts` is 2 as in
  the code.
* *Commands.* Two processes are a start beside another, and a restart after a crash.  `Parts` 2 has
  a file that is parsed and the weights; the code's configuration and tokenizer behave alike.  The
  stream has a question answered, a line skipped and a question refused.

`CHECK_DEADLOCK FALSE` in `gateway`, `ingestion` and `command_line` because a server that has
exited, loaders that have used up their runs and commands that are over really stop.

Symmetry is used in `cache` and `pipeline` only, which check no liveness.

### Fairness

* `SemanticPipeline`: weak fairness of the steps of a request that has started.  Every await in
  it ends: a post has a timeout, embedding and scoring are finite, searches read local files.
  Nothing is assumed of clients (`Start`, `Cancel`) or of the ingestion.
* `Ingestion`: weak fairness of the steps of a running loader, for the same reasons; none of
  `Begin` and `Crash`.
* `Gateway`: weak fairness of booting, of each door noticing the signal and closing, of the
  exit, and of those steps of a request that end an await of the process's own: posts and probes
  time out, embeddings are finite, searches read local files.  None of the signal, none of clients
  (`Connect`, the head before `Shed` or `Admit`, the body before `Receive`, `Deliver`,
  `Disconnect`), and none of `Execute`: SQL has no timeout, and the guard passes recursive queries
  (`ast_guard.rs:24`).  So `ShutdownCompletes` and `RequestsEnd` state their premise: of the first,
  that no request stays for ever in an open-ended await (`NoneStalls`), of the second, that this
  one does not.  Without the premise both are false of the code.
* `CommandLine`: weak fairness of the steps of a process other than the download and SQL:
  `reqwest::get` has no timeout, nor has `execute_sql_query` (`sql.rs:34`), so either may last for
  ever, and `CommandsEnd` says no more than that nothing else does.  Inputs are finite: whoever pipes questions closes the pipe.  None of `Begin` and `Kill`.
* The cache and the search are checked for safety only.

Disjunctions under one fairness condition mean that *some* step of the process is taken, not
that a call succeeds: a model that fails for ever is a fair behaviour.

## 4. What is proved

All theorems are checked by TLAPS, for every value of the constants that satisfies the named
assumptions of the modules.  These only give the constants their types, with a few that say
more: queries and vectors are told apart, and `Nothing` from responses (`CacheAssumption`),
the intents of parsed questions can be embedded (`PipelineAssumption`), the marks for blank and
unreadable lines are no questions (`CommandAssumption`), a model has at least one file
(`ModelFilesAssumption`), a batch has at least
one line (`IngestionAssumption`; `ingest/mod.rs:33` rejects 0), and there is at least one permit
and one post (`GatewayAssumption`).

**`SemanticCacheProofs`**: `TypeCorrect`, `LookupsStable`, `Bounded`, `CacheImplementsContract`,
`EvictsLeastRecent`.
The inductive invariant is `TypeOK /\ PendingValid`.  Types alone are not inductive: that
`Touch` answers with a response requires the pending index to be within the entries, and that
it is the entry a fresh scan finds holds because a stamp does not change what a scan sees
(`FindInContents`) and because insertions wait for readers.  The
refinement maps `store` to the entries without stamps: `Touch` is the abstract lookup,
`FindEntry` stutters, `FindNothing` and `Insert` map to themselves.  `Bounded` is about the
detailed cache itself, and needs a small induction of its own because of capacity 0.

`EvictsLeastRecent` is proved under `Sequential`: one thread, and a clock whose every step is
positive, which the constants of `cache_lru` satisfy and of which `cache_stamps` shows that it is
needed.  `LRUInv` says that the stamps order the entries as their latest uses do (`InOrder`), that
every use and stamp lies in the past (`Past`), and that a pending lookup began after every recorded use
and will store a stamp later than any (`InUse`).

**`SemanticPipelineProofs`**: `PipelineTypeCorrect`, `AnswersGrounded`, `AnswersDoNotDrift`,
`OnlyReturnedIsCached`, `DuplicatesFromOverlap`, `AbsenceNeedsScan`, `PipelineKeepsCourse`,
`PipelineUsesContract`, `AwaitsRunOut`.  One inductive invariant, `PipelineInv`, has all five
properties with three more: `Settled` (a result belongs to a request that is over, and a second
prompt follows a scan), `Keyed` (an entry has the query and intent of the request that inserted
it, which is what relates `NoDrift` to the cache), and `Noted` (an entry that a request past the
cache would have hit counts that request among its rivals; it is why a duplicate implies an
overlap).  The steps have three shapes, and each has one lemma: they return without touching the
cache (`Returning`), return and cache (`Caching`), or go on (`Moving`).  `Caching` carries the
weight: an eviction and an append must keep every clause about pairs of entries.
`PipelineKeepsCourse` is a refinement: each step of a request maps to `GoOn`, `End` or `Cancel`
of `SemanticCourse`, or to a stutter where two awaits are one stage.  So is
`PipelineUsesContract`: what is inserted, what a hit returns and what a miss leaves alone are
the contract's, so that both sides of the cache, with `CacheImplementsContract`, meet in one
specification.  `AwaitsRunOut` numbers the awaits (`AwaitsLeft`): every step of a request lowers
its number, nothing else raises it.

**`IngestionProofs`**: `IngestionTypeCorrect`, `TwiceOnlyTogether`, `Complete`, `OnlyUnnumbered`,
`RowsStay`, `TableKept`, `BatchesRunOut`.  `IngestionInv` adds `Distinct` (a batch about to be
inserted has no customer twice) and `Held` (a handle of the present table has seen only customers
who are there, and the rows of those it has not seen were inserted while it was open), both needed
for `TwiceOnlyTogether`, and `Progress` (before the current batch
everything is in the table, and of the batch everything is in the table or about to be inserted,
unless the table was dropped since the run opened its file; needed for `Complete`).  `OneMoves`
reduces a step to the loader that takes it: the others are not disturbed by rows that are added,
and owe nothing after a drop.  `TableKept` is the refinement of `CustomerTable`; it includes
what `RowsStay` says of single steps.  `BatchesRunOut` bounds the steps of a run by five for a
line and seven more; it needs `Within` (a batch at work begins within its file).

**`GatewayProofs`**: `GatewayTypeCorrect`, `RoutesBounded`, `ShedsOnlyWhenFull`, `Degrades`,
`Drained`, `GatewayKeepsCourse` (the refinement of `SemanticCourse`, which needs the types
only), `RetriesRunOut`, `ShutdownNeverStuck`.  `GatewayInv` adds `Conserved` (the permits left
of a route and the requests admitted to it add up to the limit; needed for both properties of
permits), `DoorsHeld` (the door of a request in flight is open or draining) with `ExitedEmpty`,
needed for `Drained`, and `WritingHeard` (SQL is asked for only after the model routed the
question), needed for `Degrades`.  A step of a request moves it to its next await (`Moving`),
ends its admission (`Leaves`), or is one of few others.  Requests may be infinitely many: that those on a
route are finitely many is part of `Conserved`.  `RetriesRunOut` bounds the steps of a
request by `9 * Posts`: each prompt starts a new count of posts, but only nine awaits can follow
each other.  `ShutdownNeverStuck` is the absence of a deadlock between the doors, the requests
and the blocking pool: a process told to stop has a step to take that waits for nobody outside
(`CanGoOn`, which states the guards), or it holds a request that waits for its client or for SQL.
It rests on `DoorsHeld`, and on `JobsOwned` (an embedding on the pool belongs to a
request that waits for it or was dropped), `BootTogether` and `BothTold`.

**`HybridSearchProofs`**: `HybridTypeCorrect`, `ResultDescribed`, `ExcludedFoundAgain`,
`DualFirstIfListsFit`, `DualFirst`, `RankedBestFirst`, `RankedAsAssumed`.  `Scanned` is what
makes `ResultDescribed` inductive: the lists and the chunks built so far are those of some
choice of hits for the filters behind, with one row of each customer among them, which
`SearchOutcomes` quantifies over at once.
`HybridInv` adds it to the types; `RankedInv` adds that nothing is ranked before the search is
done.  `BestFirst` says of the n-th candidate kept that exactly n - 1 outrank it;
`OutrankedByThoseBefore` shows that in a sequence sorted by the stable order these are the ones
before it.

`DualMatchesFirst` is not true of all constants: two late ranks, 1/(k+m) and 1/(k+n), outweigh the best
single one, 1/(k+1), exactly if (m-1)(n-1) < (k+1)^2.  `DualFirstIfListsFit` proves it in every state in
which the two lists are that short (`ListsFit`), whatever the filters; `DualFirst` proves it always
under `FewFilters`, a bound on the filters of a question that keeps every list short enough.  With the
code's limit of 20 and k = 60 that is up to nine filters; from ten on it
depends on which rows the filters find.  Both compare sums over the appearances of a row and
products over the ranks, for any lists; these are folds, so they need `DataLemmas`.

**`CommandLineProofs`**: `CommandLineTypeCorrect`, `FailuresHaveCause`, `GarbledNeedsOverlap`,
`CompleteForGood`, `CompleteStartsLoad`, `AnsweredInOrder`, `QuestionsRunOut`.  `FilesInv` says
what a start can rely on: as long as no two overlapped, each file has at most one process that
fetches it, from absent to damaged to what was downloaded, and what is being copied is whole
(`Alone`, needed for `GarbledNeedsOverlap`); as long as nothing went wrong at all, a file that
is not complete is being written, and the files a start has behind it are whole (`Clean`, needed
for `FailuresHaveCause`).  `CompleteForGood` needs the types only: nobody fetches what is there.
`AnsweredInOrder` adds that a command about to answer is at a question (`AtQuestion`).
`CompleteStartsLoad` says that a start that finds the files complete is at most `2 * Parts + 1`
steps from an intact model and can only be killed before it (`ToLoad`).  `QuestionsRunOut`
counts the lines a command has not read (`LinesAhead`), and within a line the steps it has to do
(`ToDo`): each of its steps lowers the first, or keeps it and lowers the second, and no other
process raises either.

**`DataLemmas`** has what is about data alone: the least element of a set of naturals, removal from
sequences, folds, sums and products over a finite set.  Induction over finite sets is out of reach;
a claim about sums is proved by taking the smallest subset for which it fails (`LeastSubset`).
**`CacheLookupProofs`** says what the two scans return, and what touching, removal and insertion
leave of the contents.

### Only model-checked

Liveness: both `Termination`s, `RequestsEnd`, `ShutdownCompletes`, `SettledStartsLoad`, `CommandsEnd`.
That a step which can be taken is taken is fairness and `ENABLED`, which the prover cannot
reason about.  The other half is safety and is proved, by ranking functions: `AwaitsRunOut`,
`BatchesRunOut`, `RetriesRunOut`, `CompleteStartsLoad` and `QuestionsRunOut` say that each step of a
request, a loader or a command brings it nearer its end, and that no one else throws it back; all but
`AwaitsRunOut`, whose awaits are numbered from 8 down to 0, also say how far away it is at most.
`ShutdownNeverStuck` says that a server told to stop has a step to take unless a client or SQL holds
it, and only such as lead towards its exit.  So a behaviour in which one of them does not end is one in which it stops
taking steps that it could take.

## 5. What is not modelled, and why

* `run_query_pipeline` and `classify_intent`: the library's router, which upper-cases the route and
  has no fallback.  No door and no command calls it.
* The limit on SQL rows (`MAX_SQL_ROWS`) and the JSON of the rows: DataFusion applies the one, Arrow
  the other, and no state depends on them.
* What a cross-encoder and an embedding network compute: their scores and vectors are any.
* The SQL parser and the prompts: text and wording.  The guard is modelled as its verdict on the kinds of
  the statements the parser finds.
* The numerics of the embedding network, Blue's norm and the summation in `f32`.
* The wire formats, socket options, telemetry and generated code: no state of their own.
* Uniqueness of customers: two loaders that hold the table open together may store one twice, which
  the model has; the repository promises nothing else.
* Freshness of the cache: nothing invalidates an entry when the table changes.  `Grounded`
  promises that a quoted row existed, and the model has stale answers; the repository promises
  no more.
* The temporal order of the three probes of a health report: it may combine states of the store that
  never existed together; nothing acts on it.
* The index builds of an ingestion: one step that may fail and has no effect on rows.

## 6. Plan

Done: the modules above, in the order cache, search, pipeline, ingestion, gateway, re-ranking,
model files, commands, course, table; proofs of every safety property the runs check, of the four
refinements, and of the ranking functions behind the liveness properties.

What may follow, in order:

1. A question of `CommandLine` as a course of `SemanticCourse`, and a prompt as the posts of `Gateway`.
2. `run_query_pipeline`, should a door ever call it.

## 7. Running it

```
tlc -workers 2 -config MCSemanticPipeline.cfg MCSemanticPipeline.tla
tlapm SemanticPipelineProofs.tla
```

The runs, their configurations and their properties are listed in `PROJECT.json`.  All passing
runs take from seconds to a minute but `command_line`, which takes two for its 640,000 states,
because it checks liveness, and `pipeline`, the largest, which takes two for 2.8 million.
