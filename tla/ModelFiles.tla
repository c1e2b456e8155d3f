----------------------------- MODULE ModelFiles -----------------------------
(***************************************************************************)
(* The files of the embedding model and how a process loads them:          *)
(* download_file and load_model (src/engines/embeddings.rs);               *)
(* load_cross_encoder (src/engines/rerank.rs) has the same steps.          *)
(*                                                                         *)
(* The directory outlives the processes and is shared by those that run at *)
(* the same time.  A file is only tested for existence, is downloaded      *)
(* whatever the status of the response, and is written in place.  What is  *)
(* cut short or an error page is "damaged" and does not parse.  Two that   *)
(* write at once may leave a file that begins and ends as it should, with  *)
(* a hole of zeros between: it is "holed", and holed weights do parse.     *)
(*                                                                         *)
(* The actions are those of one process p; CommandLine has the rest of its *)
(* run.                                                                    *)
(***************************************************************************)
EXTENDS Integers, Sequences

CONSTANTS
    Processes,  \* the runs of the program, one after or beside the other
    Parts       \* how many files a model has, 3 in the code: the configuration,
                \* the tokenizer, and last the weights

ASSUME ModelFilesAssumption == Parts \in Nat \ {0}

Files == 1 .. Parts

VARIABLES
    disk,    \* disk[f]: "absent", "damaged", "holed" or "whole"
    mixed,   \* mixed[f]: whether the processes that write f at present write
             \* different bytes, or one more of them gave up
    step,    \* step[p]: what the process does next
    file,    \* file[p]: the file it is at
    body,    \* body[p]: what it has downloaded, "whole" or "damaged"
    model,   \* model[p]: "none", "intact" or "garbled"
    why,     \* why[p]: what the process failed of, or "none"
    faults   \* what went wrong on this machine so far (only read by properties)

modelVars == <<disk, mixed, step, file, body, model, why, faults>>

Writing(f) == {p \in Processes : step[p] = "fill" /\ file[p] = f}
Downloading(f) ==
    {p \in Processes : step[p] \in {"get", "open", "fill"} /\ file[p] = f}

InitModelFiles ==
    /\ disk \in [Files -> {"absent", "whole"}]
    /\ mixed = [f \in Files |-> FALSE]
    /\ step = [p \in Processes |-> "idle"]
    /\ file = [p \in Processes |-> 1]
    /\ body = [p \in Processes |-> "whole"]
    /\ model = [p \in Processes |-> "none"]
    /\ why = [p \in Processes |-> "none"]
    /\ faults = {}

Goto(p, next) == step' = [step EXCEPT ![p] = next]

Fail(p, reason) == Goto(p, "failed") /\ why' = [why EXCEPT ![p] = reason]

(* Mutant of NextFile: the count goes on. *)
NextFileOn(p, stage, after) ==
    /\ file' = [file EXCEPT ![p] = @ + 1]
    /\ Goto(p, IF file[p] = Parts THEN after ELSE stage)

(* The files are first fetched one by one, then read one by one. *)
NextFile(p, stage, after) ==
    /\ file' = [file EXCEPT ![p] = IF @ = Parts THEN 1 ELSE @ + 1]
    /\ Goto(p, IF file[p] = Parts THEN after ELSE stage)

(* The directory is made if need be. *)
StartLoading(p) ==
    /\ \/ Goto(p, "check") /\ UNCHANGED why
       \/ Fail(p, "disk")
    /\ UNCHANGED <<disk, mixed, file, body, model, faults>>

-----------------------------------------------------------------------------
(* download_file.  Mutant of Check: the file is fetched in any case.       *)
CheckNothing(p) ==
    /\ step[p] = "check"
    /\ Goto(p, "get")
    /\ faults' = IF Downloading(file[p]) = {} THEN faults
                 ELSE faults \cup {"overlap"}
    /\ UNCHANGED <<disk, mixed, file, body, model, why>>

(* Whether the file is there is all that is asked. *)
Check(p) ==
    /\ step[p] = "check"
    /\ IF disk[file[p]] = "absent"
       THEN Goto(p, "get") /\ UNCHANGED file
       ELSE NextFile(p, "check", "read")
    /\ faults' = IF Downloading(file[p]) = {} THEN faults
                 ELSE faults \cup {"overlap"}
    /\ UNCHANGED <<disk, mixed, body, model, why>>

(* The response arrives: the file, or a page that says why it is not sent. *)
Get(p) ==
    /\ step[p] = "get"
    /\ \/ /\ body' = [body EXCEPT ![p] = "whole"]
          /\ Goto(p, "open")
          /\ UNCHANGED <<why, faults>>
       \/ /\ body' = [body EXCEPT ![p] = "damaged"]
          /\ Goto(p, "open")
          /\ faults' = faults \cup {"damage"}
          /\ UNCHANGED why
       \/ Fail(p, "network") /\ UNCHANGED <<body, faults>>
    /\ UNCHANGED <<disk, mixed, file, model>>

(* fs::write opens the file, which creates or truncates it ...             *)
Open(p) ==
    /\ step[p] = "open"
    /\ \/ /\ disk' = [disk EXCEPT ![file[p]] = "damaged"]
          /\ mixed' = [mixed EXCEPT ![file[p]] =
                          @ \/ \E q \in Writing(file[p]) : body[q] # body[p]]
          /\ Goto(p, "fill")
          /\ UNCHANGED why
       \/ Fail(p, "disk") /\ UNCHANGED <<disk, mixed>>
    /\ UNCHANGED <<file, body, model, faults>>

(* What the file is once p has written all of its bytes. *)
Filled(p) ==
    IF ~ mixed[file[p]] /\ (Writing(file[p]) = {p} \/ body[p] = "damaged")
    THEN {body[p]}
    ELSE {"whole", "damaged", "holed"}

(* Mutant of Fill: the process goes on before the bytes are written. *)
FillLater(p) ==
    /\ step[p] = "fill"
    /\ NextFile(p, "check", "read")
    /\ UNCHANGED <<disk, mixed, body, model, why, faults>>

(* ... and then writes it, which may be cut short.                         *)
Fill(p) ==
    /\ step[p] = "fill"
    /\ \E content \in Filled(p) : disk' = [disk EXCEPT ![file[p]] = content]
    /\ mixed' = [mixed EXCEPT ![file[p]] = @ /\ Writing(file[p]) # {p}]
    /\ body' = [body EXCEPT ![p] = "whole"]
    /\ NextFile(p, "check", "read")
    /\ UNCHANGED <<model, why, faults>>

(* The file stays as it is when its writer gives up or dies. *)
Abandon(p) ==
    IF step[p] = "fill"
    THEN /\ mixed' = [mixed EXCEPT ![file[p]] = Writing(file[p]) # {p}]
         /\ faults' = faults \cup {"damage"}
    ELSE UNCHANGED <<mixed, faults>>

FillFails(p) ==
    /\ step[p] = "fill"
    /\ Fail(p, "disk")
    /\ Abandon(p)
    /\ UNCHANGED <<disk, file, body, model>>

-----------------------------------------------------------------------------
(* The rest of load_model.  The first two files are read and parsed, the   *)
(* weights are mapped and their header is checked.                         *)
Parses(f) == disk[f] = "whole" \/ (f = Parts /\ disk[f] = "holed")

Read(p) ==
    /\ step[p] = "read"
    /\ IF Parses(file[p])
       THEN NextFile(p, "read", "copy") /\ UNCHANGED why
       ELSE Fail(p, "files") /\ UNCHANGED file
    /\ UNCHANGED <<disk, mixed, body, model, faults>>

(* The tensors are copied out of the mapped file.  If it is not whole any  *)
(* more, a page beyond its end kills the process, and a hole in it reads   *)
(* as zeros.                                                               *)
Copy(p) ==
    /\ step[p] = "copy"
    /\ \/ /\ model' = [model EXCEPT ![p] =
                          IF disk[Parts] = "whole" THEN "intact" ELSE "garbled"]
          /\ Goto(p, "loaded")
       \/ disk[Parts] # "whole" /\ Goto(p, "killed") /\ UNCHANGED model
    /\ UNCHANGED <<disk, mixed, file, body, why, faults>>

Load(p) ==
    \/ Check(p) \/ Open(p) \/ Fill(p) \/ FillFails(p) \/ Read(p) \/ Copy(p)

-----------------------------------------------------------------------------
LoadingSteps == {"check", "get", "open", "fill", "read", "copy", "loaded"}

ModelFilesType(steps) ==
    /\ disk \in [Files -> {"absent", "damaged", "holed", "whole"}]
    /\ mixed \in [Files -> BOOLEAN]
    /\ step \in [Processes -> steps]
    /\ file \in [Processes -> Files]
    /\ body \in [Processes -> {"whole", "damaged"}]
    /\ model \in [Processes -> {"none", "intact", "garbled"}]
    /\ faults \subseteq {"overlap", "damage"}

(* A process fails for what it reads only on a machine where a download    *)
(* was cut short, brought an error page, or ran beside another start: a    *)
(* start that is alone and meets no fault gets its model.                  *)
FailureHasCause ==
    \A p \in Processes : why[p] = "files" => faults # {}

(* A process works with garbled weights, without noticing, only where two  *)
(* processes fetched a model at once.                                      *)
GarbledOnlyByOverlap ==
    \A p \in Processes : model[p] = "garbled" => "overlap" \in faults

(* Once every file is whole and nobody is about to write one, it stays so, *)
(* whatever starts, fails or dies after that.                              *)
Settled ==
    /\ \A f \in Files : disk[f] = "whole"
    /\ \A p \in Processes : step[p] \notin {"get", "open", "fill"}

SettledForGood == [][Settled => Settled']_modelVars

(* From then on a start needs no network: it gets the model, or is killed. *)
SettledStartsLoad ==
    \A p \in Processes :
        Settled /\ step[p] = "check" ~> model[p] = "intact" \/ step[p] = "killed"
=============================================================================
