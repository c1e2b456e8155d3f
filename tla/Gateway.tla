------------------------------ MODULE Gateway ------------------------------
(***************************************************************************)
(* The server: start_dual_server (src/gateway/mod.rs) with its two doors,  *)
(* the HTTP router and its load shedding (src/gateway/http/), the gRPC     *)
(* service (src/gateway/grpc/service.rs), the routing of a question        *)
(* (src/pipelines/query/router.rs) and the client of the language model    *)
(* with its retry (src/pipelines/query/ollama.rs).                         *)
(*                                                                         *)
(* A request is a task; its steps are what runs between two awaits.  What  *)
(* it awaits of its client, the rest of its head, its body and that the    *)
(* reply is taken, may never come: the server sets no timer there.  The    *)
(* semantic pipeline is here the sequence of its awaits only: what it      *)
(* finds is in SemanticPipeline.  An embedding is computed on the blocking *)
(* pool, which a task that is dropped does not stop.                       *)
(*                                                                         *)
(* axum's Router::layer wraps each route by itself, so that every route    *)
(* has a concurrency limit of its own.  tonic's server has no such layer.  *)
(***************************************************************************)
EXTENDS Integers, FiniteSets

CONSTANTS
    Requests,  \* one task each
    Limit,     \* of the ConcurrencyLimitLayer, 128 in the code
    Posts      \* how often a prompt is posted at most, 2 in the code

ASSUME GatewayAssumption == Limit \in Nat \ {0} /\ Posts \in Nat \ {0}

Routes == {"/health", "/query/sql", "/query/semantic", "/query"}
Methods == {"CheckHealth", "ExecuteSql", "ExecuteSemantic"}
Doors == {"http", "grpc"}

VARIABLES
    process,    \* "up", or how it ended: "exited" or "failed"
    door,       \* door[d]: "booting", "open", "draining" or "closed"
    signalled,  \* whether the process was told to stop
    told,       \* told[d]: whether the watch channel of door d has a value
    pc,         \* pc[r]: what request r waits for
    entry,      \* entry[r]: the route or method it calls
    posted,     \* posted[r]: failed posts of the prompt it waits for
    permits,    \* permits[route]: permits of the route's semaphore
    jobs,       \* the embeddings on the blocking pool, by request
    reply,      \* reply[r]: what was replied
    heard,      \* the requests the model answered at least once (only read by
                \* properties)
    broke       \* the requests of which a local step failed (likewise)

server == <<process, door, signalled, told>>
history == <<heard, broke>>
vars == <<server, pc, entry, posted, permits, jobs, reply, history>>

-----------------------------------------------------------------------------
Over == {"done", "gone"}
InFlight == {r \in Requests : pc[r] \notin Over \cup {"idle"}}

(* Past the layers of the router, until the response is made. *)
Admitted == {r \in InFlight : pc[r] \notin {"arriving", "replying"}}
On(route) == {r \in Admitted : entry[r] = route}

DoorOf(e) == IF e \in Routes THEN "http" ELSE "grpc"
Full(e) == e \in Routes /\ permits[e] = 0

(* The permit is part of the response future, and is dropped with it. *)
Release(r) ==
    permits' = [route \in Routes |->
                    IF r \in On(route) THEN permits[route] + 1 ELSE permits[route]]

(* The response is made, and is still to be written to the client. *)
Reply(r, what) ==
    /\ pc' = [pc EXCEPT ![r] = "replying"]
    /\ reply' = [reply EXCEPT ![r] = what]
    /\ posted' = [posted EXCEPT ![r] = 0]
    /\ Release(r)

Await(r, next) ==
    /\ pc' = [pc EXCEPT ![r] = next]
    /\ posted' = [posted EXCEPT ![r] = 0]
    /\ UNCHANGED <<permits, reply>>

(* The semantic pipeline begins with the first tier of the cache. *)
Semantic(r) == Reply(r, "answer") \/ Await(r, "parsing")

-----------------------------------------------------------------------------
Init ==
    /\ process = "up"
    /\ door = [d \in Doors |-> "booting"]
    /\ signalled = FALSE
    /\ told = [d \in Doors |-> FALSE]
    /\ pc = [r \in Requests |-> "idle"]
    /\ entry \in [Requests -> Routes \cup Methods]
    /\ posted = [r \in Requests |-> 0]
    /\ permits = [route \in Routes |-> Limit]
    /\ jobs = {}
    /\ reply = [r \in Requests |-> "none"]
    /\ heard = {}
    /\ broke = {}

(***************************************************************************)
(* Life of the process.                                                    *)
(***************************************************************************)
tasks == <<pc, entry, posted, permits, jobs, reply, history>>

(* Both doors bind their port, or try_join! gives up on both.              *)
Boot ==
    /\ process = "up"
    /\ \A d \in Doors : door[d] = "booting"
    /\ \/ door' = [d \in Doors |-> "open"] /\ UNCHANGED process
       \/ door' = [d \in Doors |-> "closed"] /\ process' = "failed"
    /\ UNCHANGED <<signalled, told, tasks>>

(* Mutant of Signal: only who waits already is told. *)
SignalWaiting ==
    /\ process = "up"
    /\ ~ signalled
    /\ signalled' = TRUE
    /\ told' = [d \in Doors |-> door[d] = "open"]
    /\ UNCHANGED <<process, door, tasks>>

(* SIGTERM or Ctrl+C.  The watch channel keeps its value for a door that   *)
(* is still booting.                                                       *)
Signal ==
    /\ process = "up"
    /\ ~ signalled
    /\ signalled' = TRUE
    /\ told' = [d \in Doors |-> TRUE]
    /\ UNCHANGED <<process, door, tasks>>

(* The door accepts nothing any more. *)
Notice(d) ==
    /\ process = "up"
    /\ door[d] = "open"
    /\ told[d]
    /\ door' = [door EXCEPT ![d] = "draining"]
    /\ UNCHANGED <<process, signalled, told, tasks>>

(* The door closes once what it accepted is over. *)
Close(d) ==
    /\ process = "up"
    /\ door[d] = "draining"
    /\ \A r \in InFlight : DoorOf(entry[r]) # d
    /\ door' = [door EXCEPT ![d] = "closed"]
    /\ UNCHANGED <<process, signalled, told, tasks>>

(* Mutant of Exit: the first door to close ends the process. *)
ExitFirst ==
    /\ process = "up"
    /\ \E d \in Doors : door[d] = "closed"
    /\ jobs = {}
    /\ process' = "exited"
    /\ UNCHANGED <<door, signalled, told, tasks>>

(* try_join! waits for both doors, and the runtime for the blocking pool.  *)
Exit ==
    /\ process = "up"
    /\ \A d \in Doors : door[d] = "closed"
    /\ jobs = {}
    /\ process' = "exited"
    /\ UNCHANGED <<door, signalled, told, tasks>>

(***************************************************************************)
(* What passes between a request and its client.                           *)
(***************************************************************************)

(* A connection that an open door accepted begins a request.  Its head may *)
(* still be on its way when the door starts to drain.                      *)
Connect(r) ==
    /\ process = "up"
    /\ pc[r] = "idle"
    /\ door[DoorOf(entry[r])] = "open"
    /\ pc' = [pc EXCEPT ![r] = "arriving"]
    /\ UNCHANGED <<server, entry, posted, permits, jobs, reply, history>>

(* Mutant of Shed: a permit is given back though none was taken. *)
ShedReleasing(r) ==
    /\ pc[r] = "arriving"
    /\ Full(entry[r])
    /\ pc' = [pc EXCEPT ![r] = "replying"]
    /\ reply' = [reply EXCEPT ![r] = "overloaded"]
    /\ permits' = [permits EXCEPT ![entry[r]] = Limit + 1]
    /\ UNCHANGED <<server, entry, posted, jobs, history>>

(* The load shed layer refuses what the limit below it is not ready for.   *)
Shed(r) ==
    /\ pc[r] = "arriving"
    /\ Full(entry[r])
    /\ Reply(r, "overloaded")
    /\ UNCHANGED <<server, entry, jobs, history>>

(* Mutant of Admit: no permit is taken. *)
AdmitFreely(r) ==
    /\ pc[r] = "arriving"
    /\ ~ Full(entry[r])
    /\ pc' = [pc EXCEPT ![r] = IF entry[r] = "/health" THEN "probing" ELSE "receiving"]
    /\ UNCHANGED <<server, entry, posted, permits, jobs, reply, history>>

(* The head is complete: a permit is taken, and the extractor of the       *)
(* handler awaits the body.  The health report has none.                   *)
Admit(r) ==
    /\ pc[r] = "arriving"
    /\ ~ Full(entry[r])
    /\ pc' = [pc EXCEPT ![r] = IF entry[r] = "/health" THEN "probing" ELSE "receiving"]
    /\ permits' = [route \in Routes |->
                      IF route = entry[r] THEN permits[route] - 1 ELSE permits[route]]
    /\ UNCHANGED <<server, entry, posted, jobs, reply, history>>

First(e) ==
    CASE e \in {"/health", "CheckHealth"} -> "probing"
      [] e \in {"/query/sql", "ExecuteSql"} -> "executing"
      [] e \in {"/query/semantic", "ExecuteSemantic"} -> "parsing"
      [] e = "/query" -> "routing"

(* The body is complete: it is no request, its query is empty or too long, *)
(* the first tier of the cache answers it, or it goes on.                  *)
Receive(r) ==
    /\ pc[r] = "receiving"
    /\ \/ Reply(r, "rejected")
       \/ First(entry[r]) = "parsing" /\ Reply(r, "answer")
       \/ Await(r, First(entry[r]))
    /\ UNCHANGED <<server, entry, jobs, history>>

(* The client has taken the reply. *)
Deliver(r) ==
    /\ pc[r] = "replying"
    /\ pc' = [pc EXCEPT ![r] = "done"]
    /\ UNCHANGED <<server, entry, posted, permits, jobs, reply, history>>

(***************************************************************************)
(* prompt_model.                                                           *)
(***************************************************************************)
Prompting == {"routing", "writing", "parsing", "generating", "regenerating"}

(* Mutant of Repost: the count begins again. *)
RepostForever(r) ==
    /\ pc[r] \in Prompting
    /\ posted' = [posted EXCEPT ![r] = (@ + 1) % Posts]
    /\ UNCHANGED <<server, pc, entry, permits, jobs, reply, history>>

(* A post that does not get through, or times out, is repeated. *)
Repost(r) ==
    /\ pc[r] \in Prompting
    /\ posted[r] + 1 < Posts
    /\ posted' = [posted EXCEPT ![r] = @ + 1]
    /\ UNCHANGED <<server, pc, entry, permits, jobs, reply, history>>

(* The intent, or the query in its place, is given to the blocking pool.   *)
EmbedIntent(r) == Await(r, "embedding") /\ jobs' = jobs \cup {r}

(* Mutant of Unheard: a question that cannot be routed is refused.         *)
UnheardRefused(r) ==
    /\ \/ pc[r] = "parsing" /\ EmbedIntent(r)
       \/ /\ \/ pc[r] \in {"routing", "writing"} /\ Reply(r, "error")
             \/ pc[r] = "generating" /\ Reply(r, "degraded")
             \/ pc[r] = "regenerating" /\ Reply(r, "answer")
          /\ UNCHANGED jobs
    /\ UNCHANGED <<server, entry, history>>

(* The last post does not get through either, or a body comes back that is *)
(* not the model's, which is not asked for again: prompt_model fails.      *)
Unheard(r) ==
    /\ \/ pc[r] = "parsing" /\ EmbedIntent(r)
       \/ /\ \/ pc[r] = "routing" /\ Semantic(r)
             \/ pc[r] = "writing" /\ Reply(r, "error")
             \/ pc[r] = "generating" /\ Reply(r, "degraded")
             \/ pc[r] = "regenerating" /\ Reply(r, "answer")
          /\ UNCHANGED jobs
    /\ UNCHANGED <<server, entry, history>>

(* The model answers, perhaps with something malformed or made up.         *)
Heard(r) ==
    /\ \/ pc[r] = "parsing" /\ EmbedIntent(r)
       \/ /\ \/ pc[r] = "routing" /\ (Semantic(r) \/ Await(r, "writing"))
             \/ pc[r] = "writing" /\ (Reply(r, "error") \/ Await(r, "executing"))
             \/ pc[r] = "generating" /\ Await(r, "rescanning")
             \/ /\ pc[r] \in {"generating", "regenerating"}
                /\ \E what \in {"answer", "error"} : Reply(r, what)
          /\ UNCHANGED jobs
    /\ heard' = heard \cup {r}
    /\ UNCHANGED <<server, entry, broke>>

(***************************************************************************)
(* Local steps.                                                            *)
(***************************************************************************)

(* The three probes of the health report: each may fail, the report never. *)
Probe(r) ==
    /\ pc[r] = "probing"
    /\ Reply(r, "answer")
    /\ UNCHANGED <<server, entry, jobs, history>>

(* DataFusion executes what the guard lets through, with no limit of time. *)
Execute(r) ==
    /\ pc[r] = "executing"
    /\ \/ Reply(r, "answer") /\ UNCHANGED broke
       \/ Reply(r, "error") /\ broke' = broke \cup {r}
    /\ UNCHANGED <<server, entry, jobs, heard>>

(* The embedding arrives: the second tier of the cache answers, or the     *)
(* search succeeds, or one of them fails.                                  *)
Embed(r) ==
    /\ pc[r] = "embedding"
    /\ jobs' = jobs \ {r}
    /\ \/ Reply(r, "answer") /\ UNCHANGED broke
       \/ Await(r, "generating") /\ UNCHANGED broke
       \/ Reply(r, "error") /\ broke' = broke \cup {r}
    /\ UNCHANGED <<server, entry, heard>>

(* Mutant of Rescan: what was found is asked about as in the first round.  *)
RescanAndGenerate(r) ==
    /\ pc[r] = "rescanning"
    /\ \/ Reply(r, "answer") /\ UNCHANGED broke
       \/ Await(r, "generating") /\ UNCHANGED broke
       \/ Reply(r, "error") /\ broke' = broke \cup {r}
    /\ UNCHANGED <<server, entry, jobs, heard>>

(* The keyword scan finds nothing, or something to ask about, or fails. *)
Rescan(r) ==
    /\ pc[r] = "rescanning"
    /\ \/ Reply(r, "answer") /\ UNCHANGED broke
       \/ Await(r, "regenerating") /\ UNCHANGED broke
       \/ Reply(r, "error") /\ broke' = broke \cup {r}
    /\ UNCHANGED <<server, entry, jobs, heard>>

(* Mutant of Disconnect: the permit stays taken. *)
DisconnectLeaking(r) ==
    /\ r \in InFlight
    /\ pc' = [pc EXCEPT ![r] = "gone"]
    /\ posted' = [posted EXCEPT ![r] = 0]
    /\ UNCHANGED <<server, entry, permits, jobs, reply, history>>

(* The client goes away and the task is dropped, its embedding is not.     *)
Disconnect(r) ==
    /\ r \in InFlight
    /\ pc' = [pc EXCEPT ![r] = "gone"]
    /\ posted' = [posted EXCEPT ![r] = 0]
    /\ Release(r)
    /\ UNCHANGED <<server, entry, jobs, reply, history>>

(* An embedding nobody waits for any more is finished all the same. *)
EndJob(r) ==
    /\ r \in jobs
    /\ pc[r] = "gone"
    /\ jobs' = jobs \ {r}
    /\ UNCHANGED <<server, pc, entry, posted, permits, reply, history>>

-----------------------------------------------------------------------------
(* What waits for the client, or for SQL, may wait for ever. *)
OpenEnded == {"arriving", "receiving", "executing", "replying"}

Unbounded(r) == Shed(r) \/ Admit(r) \/ Receive(r) \/ Execute(r) \/ Deliver(r)

Step(r) ==
    \/ Repost(r) \/ Unheard(r) \/ Heard(r)
    \/ Probe(r) \/ Embed(r) \/ Rescan(r) \/ EndJob(r)

Lifecycle == Boot \/ Exit \/ \E d \in Doors : Notice(d) \/ Close(d)

Next ==
    \/ Lifecycle
    \/ Signal
    \/ \E r \in Requests : Connect(r) \/ Unbounded(r) \/ Step(r) \/ Disconnect(r)

(* Posts and probes time out, the other computations are finite and the    *)
(* doors are polled.  Nothing is assumed of clients or of SQL: no head,    *)
(* body or disconnection need ever come, no reply need be taken, and a     *)
(* query may run for ever.                                                 *)
Fairness ==
    /\ WF_vars(Boot) /\ WF_vars(Exit)
    /\ \A d \in Doors : WF_vars(Notice(d)) /\ WF_vars(Close(d))
    /\ \A r \in Requests : WF_vars(Step(r))

Spec == Init /\ [][Next]_vars /\ Fairness
-----------------------------------------------------------------------------
TypeOK ==
    /\ process \in {"up", "exited", "failed"}
    /\ door \in [Doors -> {"booting", "open", "draining", "closed"}]
    /\ signalled \in BOOLEAN /\ told \in [Doors -> BOOLEAN]
    /\ pc \in [Requests -> Prompting \cup Over \cup OpenEnded \cup
                  {"idle", "probing", "embedding", "rescanning"}]
    /\ entry \in [Requests -> Routes \cup Methods]
    /\ posted \in [Requests -> 0 .. Posts - 1]
    /\ permits \in [Routes -> 0 .. Limit]
    /\ jobs \subseteq Requests
    /\ reply \in [Requests -> {"none", "answer", "degraded", "error",
                               "rejected", "overloaded"}]
    /\ heard \subseteq Requests /\ broke \subseteq Requests

(* No route ever has more requests admitted than its limit, whatever mix   *)
(* of replies, errors, retries and disconnections came before.             *)
RouteBound == \A route \in Routes : Cardinality(On(route)) <= Limit

(* A request is refused as one too many only while the limit of requests   *)
(* are admitted to its route: no permit is ever lost.                      *)
ShedOnlyWhenFull ==
    [][\A r \in Requests :
          reply'[r] = "overloaded" /\ reply[r] # "overloaded" =>
              Cardinality(On(entry[r])) = Limit]_vars

(* While the model is out, questions still get an answer: one that needs   *)
(* no SQL fails only if the model did answer it at some point, or a local  *)
(* step failed.                                                            *)
OutageDegrades ==
    \A r \in Requests :
        /\ entry[r] \in {"/query", "/query/semantic", "ExecuteSemantic"}
        /\ reply[r] = "error"
        => r \in heard \cup broke

(* The process does not exit before what it accepted, at either door, is   *)
(* replied to or given up by its client.                                   *)
DrainedAtExit == process = "exited" => InFlight = {} /\ jobs = {}

(* No request waits for ever for its client or for SQL.  Nothing in the    *)
(* code sees to that: it is what the next two properties depend on.        *)
NoneStalls == \A r \in Requests : []<>(pc[r] \notin OpenEnded)

(* Told to stop, at any time, the process stops, unless a client or a      *)
(* query stalls: however prompts are retried, and whatever was dropped     *)
(* with its embedding still on the pool.                                   *)
ShutdownCompletes == NoneStalls => (signalled ~> process # "up")

(* What is accepted is over at some point, whatever becomes of the other   *)
(* requests, unless its own client or query stalls.                        *)
RequestsEnd ==
    \A r \in Requests :
        []<>(pc[r] \notin OpenEnded) => (r \in InFlight ~> r \notin InFlight)

(* What a request does in the semantic pipeline is the course that         *)
(* SemanticPipeline takes too: the sequence of awaits assumed here is the  *)
(* one of the pipeline.                                                    *)
StageOf(at) ==
    CASE at \in {"parsing", "embedding", "generating", "rescanning", "regenerating"} -> at
      [] at \in Over \cup {"replying"} -> "over"
      [] OTHER -> "outside"

Course == INSTANCE SemanticCourse WITH
    stage <- [r \in Requests |-> StageOf(pc[r])],
    outcome <- reply

KeepsCourse == Course!Spec

(* The server handles no more queries at a time than the limit.  The code  *)
(* does not keep this: each route has a limit, and gRPC has none.          *)
QueriesBounded ==
    Cardinality({r \in Admitted : pc[r] \notin {"receiving", "probing"}}) <= Limit
=============================================================================
