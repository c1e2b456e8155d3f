---------------------------- MODULE CommandLine ----------------------------
(***************************************************************************)
(* The commands of the program: run (src/gateway/mod.rs) with the queries  *)
(* it is given or piped (src/gateway/cli.rs), the SQL guard and engine     *)
(* (src/engines/ast_guard.rs, sql.rs) and, by ModelFiles, the loading of   *)
(* the model, which `ask` puts off until a question needs it.              *)
(*                                                                         *)
(* A step of a process is what runs between two awaits, or between two     *)
(* system calls on what processes share.  A question to the language       *)
(* model, and the semantic pipeline, are one step: what happens inside     *)
(* them is in Gateway and in SemanticPipeline.  `serve` and `ingest` are   *)
(* followed until Gateway and Ingestion take over.                         *)
(***************************************************************************)
EXTENDS ModelFiles

CONSTANTS
    Texts,       \* the questions, and the SQL texts
    Statements,  \* Statements[t]: the kinds of the statements t parses into,
                 \* << >> when it does not parse
    Inputs       \* the sequences of lines a command may be given

Lines == Texts \cup {"blank", "unreadable"}

ASSUME CommandAssumption ==
    /\ Texts \cap {"blank", "unreadable"} = {}
    /\ Inputs \subseteq Seq(Lines)

Commands == {"ingest", "ask", "ask-semantic", "execute-sql", "ask-ai-sql",
             "health", "serve"}

VARIABLES
    command,  \* command[p]: what the process was started as
    input,    \* input[p]: the lines it is given; an argument is one line
    line,     \* line[p]: the line to read next, or being answered
    engine,   \* engine[p]: whether the table is registered with DataFusion
    answered  \* answered[p]: the lines whose answers are printed, in order

commandVars == <<command, input, line, engine, answered>>
vars == <<modelVars, commandVars>>

(* validate_sql_is_safe: one statement, and that a query. *)
IsSafe(text) == Statements[text] = <<"query">>

-----------------------------------------------------------------------------
Init ==
    /\ InitModelFiles
    /\ command \in [Processes -> Commands]
    /\ input \in [Processes -> Inputs]
    /\ line = [p \in Processes |-> 1]
    /\ engine = [p \in Processes |-> FALSE]
    /\ answered = [p \in Processes |-> << >>]

(* The steps of a command change nothing of the files. *)
files == <<disk, mixed, file, body, model, faults>>

Move(p, next) == Goto(p, next) /\ UNCHANGED <<files, why>>
GiveUp(p, reason) == Fail(p, reason) /\ UNCHANGED files

(* The client of the language model may not be built, and the address of   *)
(* `serve` not parse.                                                      *)
Begin(p) ==
    /\ step[p] = "idle"
    /\ \/ GiveUp(p, "input")
       \/ CASE command[p] \in {"ingest", "ask-semantic", "serve"} -> StartLoading(p)
            [] command[p] \in {"ask", "execute-sql", "ask-ai-sql"} -> Move(p, "resolving")
            [] command[p] = "health" -> Move(p, "probing")
    /\ UNCHANGED commandVars

Loading(p) == (Load(p) \/ Get(p)) /\ UNCHANGED commandVars

AfterLoad(p) ==
    /\ step[p] = "loaded"
    /\ \/ command[p] = "ingest" /\ Move(p, "ended")
       \/ command[p] = "serve" /\ Move(p, "registering")
       \/ command[p] = "ask-semantic" /\ Move(p, "resolving")
       \/ command[p] = "ask" /\ Move(p, "answering")
    /\ UNCHANGED commandVars

(* The three probes of the health report: each may fail, the report never. *)
Probe(p) ==
    /\ step[p] = "probing"
    /\ Move(p, "ended")
    /\ UNCHANGED commandVars

(* resolve_query_inputs refuses an argument of blanks, and a terminal.     *)
Resolve(p) ==
    /\ step[p] = "resolving"
    /\ \/ GiveUp(p, "input")
       \/ Move(p, IF command[p] \in {"execute-sql", "ask-ai-sql"}
                  THEN "registering" ELSE "reading")
    /\ UNCHANGED commandVars

(* init_datafusion: there may be no CSV file to register.                  *)
Register(p) ==
    /\ step[p] = "registering"
    /\ \/ GiveUp(p, "engine") /\ UNCHANGED engine
       \/ /\ \/ command[p] = "serve" /\ Move(p, "ended")
             \/ command[p] = "ask" /\ Move(p, "executing")
             \/ command[p] \in {"execute-sql", "ask-ai-sql"} /\ Move(p, "reading")
          /\ engine' = [engine EXCEPT ![p] = TRUE]
    /\ UNCHANGED <<command, input, line, answered>>

-----------------------------------------------------------------------------
(* The loop over the questions.                                            *)
Reads(p, what) ==
    /\ step[p] = "reading"
    /\ line[p] <= Len(input[p])
    /\ what = input[p][line[p]]

EndOfInput(p) ==
    /\ step[p] = "reading"
    /\ line[p] > Len(input[p])
    /\ Move(p, "ended")
    /\ UNCHANGED commandVars

(* Mutant of SkipBlank: the line is read again. *)
RereadBlank(p) == Reads(p, "blank") /\ UNCHANGED vars

SkipBlank(p) ==
    /\ Reads(p, "blank")
    /\ line' = [line EXCEPT ![p] = @ + 1]
    /\ UNCHANGED <<modelVars, command, input, engine, answered>>

ReadFails(p) ==
    /\ Reads(p, "unreadable")
    /\ GiveUp(p, "input")
    /\ UNCHANGED commandVars

(* SQL that is given is checked at once. *)
ReadQuestion(p) ==
    /\ \E text \in Texts :
          /\ Reads(p, text)
          /\ CASE command[p] = "ask" -> Move(p, "routing")
               [] command[p] = "ask-semantic" -> Move(p, "answering")
               [] command[p] = "ask-ai-sql" -> Move(p, "executing")
               [] command[p] = "execute-sql" /\ IsSafe(text) -> Move(p, "executing")
               [] OTHER -> GiveUp(p, "sql")
    /\ UNCHANGED commandVars

(* The model says "SQL", or anything else, or nothing.  The engine and the *)
(* embedding model are made ready for the first question that needs them.  *)
Route(p) ==
    /\ step[p] = "routing"
    /\ \/ Move(p, IF engine[p] THEN "executing" ELSE "registering")
       \/ IF model[p] = "none" THEN StartLoading(p) ELSE Move(p, "answering")
    /\ UNCHANGED commandVars

(* The answer to a question is printed when it is complete. *)
Answer(p) ==
    /\ step[p] \in {"executing", "answering"}
    /\ Move(p, "reading")
    /\ answered' = [answered EXCEPT ![p] = Append(@, line[p])]
    /\ line' = [line EXCEPT ![p] = @ + 1]
    /\ UNCHANGED <<command, input, engine>>

(* Mutant of AnswerFails: the question that fails is passed over. *)
PassOver(p) ==
    /\ step[p] \in {"executing", "answering"}
    /\ Move(p, "reading")
    /\ line' = [line EXCEPT ![p] = @ + 1]
    /\ UNCHANGED <<command, input, engine, answered>>

AnswerFails(p) ==
    /\ step[p] \in {"executing", "answering"}
    /\ GiveUp(p, IF step[p] = "executing" THEN "sql" ELSE "question")
    /\ UNCHANGED commandVars

(* The process ends early by a signal. *)
Over == {"ended", "failed", "killed"}

Kill(p) ==
    /\ step[p] \notin Over \cup {"idle"}
    /\ Goto(p, "killed")
    /\ Abandon(p)
    /\ UNCHANGED <<disk, file, body, model, why, commandVars>>

-----------------------------------------------------------------------------
Asking(p) ==
    \/ AfterLoad(p) \/ Probe(p) \/ Resolve(p) \/ Register(p)
    \/ EndOfInput(p) \/ SkipBlank(p) \/ ReadFails(p) \/ ReadQuestion(p)
    \/ Route(p) \/ Answer(p) \/ AnswerFails(p)

Next ==
    \E p \in Processes : Begin(p) \/ Loading(p) \/ Asking(p) \/ Kill(p)

(* A process runs on, but for a download, as reqwest::get has no timeout,  *)
(* and for SQL, as the guard passes recursive queries that never end and   *)
(* nothing stops them.  Whoever pipes questions closes the pipe at some    *)
(* point.                                                                  *)
Fairness ==
    \A p \in Processes :
        WF_vars(\/ Load(p) /\ UNCHANGED commandVars
                \/ step[p] # "executing" /\ Asking(p))

Spec == Init /\ [][Next]_vars /\ Fairness
-----------------------------------------------------------------------------
Steps == LoadingSteps \cup Over \cup
    {"idle", "resolving", "probing", "registering", "reading", "routing",
     "executing", "answering"}

Reasons == {"none", "network", "disk", "files", "input", "engine", "sql", "question"}

TypeOK ==
    /\ ModelFilesType(Steps)
    /\ why \in [Processes -> Reasons]
    /\ command \in [Processes -> Commands]
    /\ input \in [Processes -> Inputs]
    /\ line \in [Processes -> Nat \ {0}]
    /\ engine \in [Processes -> BOOLEAN]
    /\ answered \in [Processes -> Seq(Nat)]

(* What is printed answers the questions one by one in the order they were *)
(* given, up to the one at hand; a command that ended has answered all of  *)
(* them, one that failed those before the question it failed at.           *)
Questions(p, last) == {n \in 1 .. last : input[p][n] \in Texts}

AnswersInOrder ==
    \A p \in Processes :
        /\ \A i, j \in DOMAIN answered[p] :
              i < j => answered[p][i] < answered[p][j]
        /\ line[p] <= Len(input[p]) + 1
        /\ {answered[p][i] : i \in DOMAIN answered[p]} = Questions(p, line[p] - 1)

(* Every command ends, but one whose download or SQL never does. *)
CommandsEnd ==
    \A p \in Processes :
        step[p] \notin Over \cup {"idle"} ~> step[p] \in Over \cup {"get", "executing"}
=============================================================================
