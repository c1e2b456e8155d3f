----------------------------- MODULE Ingestion -----------------------------
(***************************************************************************)
(* execute_ingestion (src/pipelines/ingest/): processes that load CSV      *)
(* files into one customers table, in batches.  A batch is looked up in    *)
(* the table first, so that customers already there are not embedded       *)
(* again, and embedded; then the table is opened and the batch merged into *)
(* it.  Each of these awaits a store or a model that another process uses  *)
(* too.                                                                    *)
(*                                                                         *)
(* The table is LanceDB's, which is external.  A handle reads the version  *)
(* it was opened at: a merge adds to the table, whatever was added since,  *)
(* the rows that it does not match in that version.  It is atomic, and so  *)
(* are creating and dropping a table.                                      *)
(***************************************************************************)
EXTENDS Integers, SequencesExt

CONSTANTS
    Loaders,    \* ingestion processes
    Files,      \* Files[f] is the lines of a CSV file
    BatchSize,  \* --batch-size, which is at least 1
    MaxRuns     \* bound on how often a loader is started

(* A line is a customer number, or none, or it cannot be deserialized.     *)
NoNumber == "none"
BadLine == "bad"

ASSUME IngestionAssumption ==
    /\ \A f \in DOMAIN Files : Files[f] \in Seq(STRING)
    /\ BatchSize \in Nat \ {0}
    /\ MaxRuns \in Nat

VARIABLES
    pc,        \* pc[l]: what loader l does next
    file,      \* file[l]: the file it was given
    line,      \* line[l]: the line the current batch starts at
    new,       \* new[l]: the lines of the batch to embed and to insert
    opened,    \* opened[l]: the table and the version that l's handle is of
    exists,    \* whether there is a customers table
    table,     \* its rows
    runs,      \* runs[l]: how often loader l was started
    drops,     \* how often the table was dropped, which tells one table of
               \* the name from the next
    seen,      \* seen[l]: the value of drops when l opened its file (only read
               \* by properties)
    wasted     \* customers embedded again though the lookup that is to tell
               \* that they are in the table went well (likewise)

loader == <<file, line, new, opened, runs, seen>>
vars == <<pc, file, line, new, opened, exists, table, runs, drops, seen, wasted>>

-----------------------------------------------------------------------------
(* The number a line is stored under. *)
Number(text) == IF text = NoNumber THEN "Unknown" ELSE text

Text(l, i) == Files[file[l]][i]
Length(l) == Len(Files[file[l]])

(* Mutant of BatchLines: what does not fill a batch is not read. *)
FullBatchLines(l) ==
    IF line[l] + BatchSize - 1 <= Length(l)
    THEN line[l] .. line[l] + BatchSize - 1
    ELSE {}

(* The lines of the batch that starts at line[l]; the last may be short.   *)
BatchLines(l) == line[l] .. Min({line[l] + BatchSize - 1, Length(l)})

Numbers(rows) == {row.kunnr : row \in rows}

(* Mutant of Asked: the first line of the batch is left out. *)
AskedWithoutFirst(l) ==
    {Text(l, i) : i \in BatchLines(l) \ {line[l]}} \ {NoNumber}

(* The ids the lookup asks for: those of the lines that have one. *)
Asked(l) == {Text(l, i) : i \in BatchLines(l)} \ {NoNumber}

(* The lines left after deduplication: the first of each customer in the   *)
(* batch, unless the lookup found the customer.                            *)
NewLines(l, existing) ==
    {i \in BatchLines(l) :
        /\ Number(Text(l, i)) \notin existing
        /\ \A j \in BatchLines(l) :
              j < i => Number(Text(l, j)) # Number(Text(l, i))}

(* The loaders other than l that hold the table as it is now open to merge *)
(* into it.                                                                *)
Holders(l) == {m \in Loaders \ {l} : pc[m] = "merge" /\ opened[m].drops = drops}

(* Mutant of Row: a line without a number is stored as it is. *)
RowUnnamed(l, i) ==
    [kunnr |-> Text(l, i), file |-> file[l], line |-> i, by |-> l, during |-> Holders(l)]

(* What is stored of a line; by and during are history, and tell rows      *)
(* apart that loaders of one file insert.                                  *)
Row(l, i) ==
    [kunnr |-> Number(Text(l, i)), file |-> file[l], line |-> i,
     by |-> l, during |-> Holders(l)]

NewRows(l) == {Row(l, i) : i \in new[l]}

GoTo(l, next) == pc' = [pc EXCEPT ![l] = next]

(* Mutant of NextBatch: the batch is not cleared. *)
SameBatch(l) == GoTo(l, "read") /\ UNCHANGED line

NextBatch(l) ==
    /\ GoTo(l, "read")
    /\ line' = [line EXCEPT ![l] = @ + BatchSize]

-----------------------------------------------------------------------------
Stopped == {"idle", "done", "failed", "crashed"}
Running == {l \in Loaders : pc[l] \notin Stopped}

Init ==
    /\ pc = [l \in Loaders |-> "idle"]
    /\ file \in [Loaders -> DOMAIN Files]
    /\ line = [l \in Loaders |-> 1]
    /\ new = [l \in Loaders |-> {}]
    /\ opened = [l \in Loaders |-> [drops |-> 0, customers |-> {}]]
    /\ exists = FALSE
    /\ table = {}
    /\ runs = [l \in Loaders |-> 0]
    /\ drops = 0
    /\ seen = [l \in Loaders |-> 0]
    /\ wasted = {}

(* The command is run, perhaps again after it failed or crashed. *)
Begin(l, f, overwrite) ==
    /\ pc[l] \in Stopped
    /\ runs[l] < MaxRuns
    /\ runs' = [runs EXCEPT ![l] = @ + 1]
    /\ file' = [file EXCEPT ![l] = f]
    /\ line' = [line EXCEPT ![l] = 1]
    /\ new' = [new EXCEPT ![l] = {}]
    /\ GoTo(l, IF overwrite THEN "drop" ELSE "open")
    /\ UNCHANGED <<opened, exists, table, drops, seen, wasted>>

(* drop_table, of which the outcome is not looked at. *)
Drop(l) ==
    /\ pc[l] = "drop"
    /\ GoTo(l, "open")
    /\ \/ exists' = FALSE /\ table' = {} /\ drops' = drops + 1
       \/ UNCHANGED <<exists, table, drops>>
    /\ UNCHANGED <<loader, wasted>>

Open(l) ==
    /\ pc[l] = "open"
    /\ seen' = [seen EXCEPT ![l] = drops]
    /\ GoTo(l, "read")
    /\ UNCHANGED <<file, line, new, opened, runs, exists, table, drops, wasted>>

(* Lines are read up to the batch size or the end.  A bad line ends the    *)
(* run, and the lines of the batch before it are not inserted.             *)
Read(l) ==
    /\ pc[l] = "read"
    /\ GoTo(l, IF BatchLines(l) = {} THEN "index"
               ELSE IF \E i \in BatchLines(l) : Text(l, i) = BadLine
               THEN "failed" ELSE "lookup")
    /\ UNCHANGED <<loader, exists, table, drops, wasted>>

(* find_existing_in_db swallows every error, and may then miss customers.  *)
Lookup(l) ==
    /\ pc[l] = "lookup"
    /\ LET present == Asked(l) \cap Numbers(table)
       IN  \E existing \in SUBSET present :
              /\ new' = [new EXCEPT ![l] = NewLines(l, existing)]
              /\ wasted' = IF existing = present
                           THEN wasted \cup ({Number(Text(l, i)) : i \in new'[l]}
                                               \cap Numbers(table))
                           ELSE wasted
    /\ IF new'[l] = {} THEN NextBatch(l)
                       ELSE GoTo(l, "embed") /\ UNCHANGED line
    /\ UNCHANGED <<file, opened, runs, seen, exists, table, drops>>

Embed(l) ==
    /\ pc[l] = "embed"
    /\ GoTo(l, "insert")
    /\ UNCHANGED <<loader, exists, table, drops, wasted>>

(* insert_batch, of a table that opens: what it has to match is what is    *)
(* there now.                                                              *)
OpenTable(l) ==
    /\ pc[l] = "insert"
    /\ exists
    /\ opened' = [opened EXCEPT ![l] = [drops |-> drops, customers |-> Numbers(table)]]
    /\ GoTo(l, "merge")
    /\ UNCHANGED <<file, line, new, runs, seen, exists, table, drops, wasted>>

(* Mutant of Merge: what is matched is updated. *)
MergeAndUpdate(l) ==
    /\ pc[l] = "merge"
    /\ opened[l].drops = drops
    /\ table' = {row \in table : row.kunnr \notin Numbers(NewRows(l))}
                  \cup NewRows(l)
    /\ NextBatch(l)
    /\ UNCHANGED <<file, new, opened, runs, seen, exists, drops, wasted>>

(* Mutant of Merge: the batch is appended. *)
MergeUnmatched(l) ==
    /\ pc[l] = "merge"
    /\ opened[l].drops = drops
    /\ table' = table \cup NewRows(l)
    /\ NextBatch(l)
    /\ UNCHANGED <<file, new, opened, runs, seen, exists, drops, wasted>>

(* The merge inserts the rows not matched in the version that was opened.  *)
(* If that table was dropped it can only fail, its files being gone.       *)
Merge(l) ==
    /\ pc[l] = "merge"
    /\ opened[l].drops = drops
    /\ table' = table \cup
                  {row \in NewRows(l) : row.kunnr \notin opened[l].customers}
    /\ NextBatch(l)
    /\ UNCHANGED <<file, new, opened, runs, seen, exists, drops, wasted>>

(* insert_batch, of a table that does not open: it is to be created. *)
OpenFails(l) ==
    /\ pc[l] = "insert"
    /\ ~ exists
    /\ GoTo(l, "create")
    /\ UNCHANGED <<loader, exists, table, drops, wasted>>

(* create_table fails when another loader created it in the meantime. *)
Create(l) ==
    /\ pc[l] = "create"
    /\ ~ exists
    /\ exists' = TRUE
    /\ table' = NewRows(l)
    /\ NextBatch(l)
    /\ UNCHANGED <<file, new, opened, runs, seen, drops, wasted>>

(* The indexes are created once all batches are in. *)
Index(l) ==
    /\ pc[l] = "index"
    /\ GoTo(l, "done")
    /\ UNCHANGED <<loader, exists, table, drops, wasted>>

(* Any of these may return an error instead, which ends the run. *)
Fail(l) ==
    /\ pc[l] \in {"open", "embed", "insert", "merge", "create", "index"}
    /\ GoTo(l, "failed")
    /\ UNCHANGED <<loader, exists, table, drops, wasted>>

Crash(l) ==
    /\ l \in Running
    /\ GoTo(l, "crashed")
    /\ UNCHANGED <<loader, exists, table, drops, wasted>>

Step(l) ==
    \/ Drop(l) \/ Open(l) \/ Read(l) \/ Lookup(l) \/ Embed(l)
    \/ OpenTable(l) \/ Merge(l) \/ OpenFails(l) \/ Create(l) \/ Index(l)
    \/ Fail(l)

Next ==
    \E l \in Loaders :
        \/ \E f \in DOMAIN Files, overwrite \in BOOLEAN : Begin(l, f, overwrite)
        \/ Step(l)
        \/ Crash(l)

(* A process that runs goes on: its reads, its computation and its calls   *)
(* of the store end.                                                       *)
Spec == Init /\ [][Next]_vars /\ \A l \in Loaders : WF_vars(Step(l))
-----------------------------------------------------------------------------
AllLines ==
    UNION {{[kunnr |-> Number(Files[f][i]), file |-> f, line |-> i,
             by |-> l, during |-> others] :
               i \in DOMAIN Files[f], l \in Loaders, others \in SUBSET Loaders} :
           f \in DOMAIN Files}

TypeOK ==
    /\ pc \in [Loaders -> Stopped \cup {"drop", "open", "read", "lookup", "embed",
                                        "insert", "merge", "create", "index"}]
    /\ file \in [Loaders -> DOMAIN Files]
    /\ runs \in [Loaders -> 0 .. MaxRuns]
    /\ line \in [Loaders -> Nat \ {0}]
    /\ new \in [Loaders -> SUBSET Nat]
    /\ \A l \in Loaders : new[l] \subseteq 1 .. Length(l)
    /\ opened \in [Loaders -> [drops : Nat, customers : SUBSET Numbers(AllLines)]]
    /\ exists \in BOOLEAN
    /\ table \subseteq AllLines
    /\ ~ exists => table = {}
    /\ drops \in Nat /\ seen \in [Loaders -> Nat]
    /\ wasted \subseteq Numbers(AllLines)

(* A customer is stored twice only by two loaders that had the table open  *)
(* at once: the one inserted its row while the other, which then inserted  *)
(* its own, was between opening the table and merging.  So a loader by     *)
(* itself, or one that opens the table after the other's merge, never      *)
(* duplicates a customer, over files that repeat customers within and      *)
(* across batches, after crashes, and whether or not the lookups worked.   *)
TwiceOnlyIfOpenTogether ==
    \A x, y \in table :
        x.kunnr = y.kunnr /\ x # y => y.by \in x.during \/ x.by \in y.during

(* A row, once inserted, is never changed or removed, except with the      *)
(* whole table by an overwrite.                                            *)
FirstRowStays == [][drops' = drops => table \subseteq table']_vars

(* When a run reports success, every customer of its file is in the table, *)
(* unless the table was dropped since the run opened its file.             *)
DoneIsComplete ==
    \A l \in Loaders :
        pc[l] = "done" /\ seen[l] = drops =>
            \A i \in 1 .. Length(l) : Number(Text(l, i)) \in Numbers(table)

(* To whoever reads the table meanwhile, all these loaders are one that    *)
(* inserts and drops.                                                      *)
Customers == INSTANCE CustomerTable WITH Rows <- AllLines

KeepsTable == Customers!Spec

(* Every run ends. *)
Termination == \A l \in Loaders : l \in Running ~> l \notin Running

(* A lookup that works keeps every customer of the table from being        *)
(* embedded again, but one: all the lines without a number are stored as   *)
(* one customer, which no lookup asks for.                                 *)
OnlyUnnumberedEmbeddedAgain == wasted \subseteq {Number(NoNumber)}
=============================================================================
