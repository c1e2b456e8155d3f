-------------------------- MODULE CommandLineProofs --------------------------
(***************************************************************************)
(* Proofs about CommandLine, for any number of processes, files and        *)
(* questions.  FailureHasCause and GarbledOnlyByOverlap rest on what one   *)
(* start can rely on while no other overlaps it (Alone) and nothing else   *)
(* went wrong (Clean); AnswersInOrder on AtQuestion: a command that is     *)
(* about to answer is at a question.                                       *)
(***************************************************************************)
EXTENDS CommandLine, TLAPS

Fetching == {"get", "open", "fill"}
Busy == {"check", "get", "open", "fill", "read", "copy"}

(* The count of the files starts from the first. *)
Rewound ==
    \A p \in Processes :
        step[p] \notin {"check", "get", "open", "fill", "read"} \cup Over => file[p] = 1

(* While no two processes fetched a file at once: each file has at most    *)
(* one that fetches it, which alone changes it, from absent to damaged to  *)
(* what was downloaded.                                                    *)
OneFetches ==
    \A p, q \in Processes :
        step[p] \in Fetching /\ step[q] \in Fetching /\ file[p] = file[q] => p = q

Untouched == \A p \in Processes : step[p] \in {"get", "open"} => disk[file[p]] = "absent"

Opened == \A p \in Processes : step[p] = "fill" => disk[file[p]] = "damaged"

Mapped == \A p \in Processes : step[p] = "copy" => disk[Parts] = "whole"

NoHole == \A f \in Files : disk[f] # "holed" /\ ~ mixed[f]

NoneGarbled == \A p \in Processes : model[p] # "garbled"

Apart == OneFetches /\ Untouched /\ Opened /\ Mapped /\ NoHole /\ NoneGarbled

Alone == "overlap" \notin faults => Apart

(* While nothing went wrong at all: a file that is not complete is being   *)
(* written, and what a start has behind it is whole.                       *)
Passed(p, f) ==
    \/ step[p] \in {"check", "get", "open", "fill"} /\ f < file[p]
    \/ step[p] \in {"read", "copy"}

BehindWhole ==
    \A p \in Processes, f \in Files : Passed(p, f) => disk[f] = "whole"

DamagedWritten == \A f \in Files : disk[f] = "damaged" => Writing(f) # {}

NoneFailed == \A p \in Processes : why[p] # "files" /\ body[p] = "whole"

Sound == BehindWhole /\ DamagedWritten /\ NoneFailed

Clean == faults = {} => Sound

FilesInv == TypeOK /\ Rewound /\ Alone /\ Clean

(* A command that is about to answer is at a question. *)
ToAnswer(p) ==
    \/ step[p] \in {"routing", "executing", "answering"}
    \/ command[p] = "ask" /\ step[p] \in LoadingSteps \cup {"registering"}

AtQuestion ==
    \A p \in Processes :
        ToAnswer(p) => line[p] <= Len(input[p]) /\ input[p][line[p]] \in Texts

-----------------------------------------------------------------------------
(* The steps that have nothing to do with the files. *)
Quiet(p) ==
    /\ step[p] \notin Busy \cup Over
    /\ disk' = disk /\ mixed' = mixed /\ file' = file
    /\ body' = body /\ model' = model /\ faults' = faults
    /\ \E s \in Steps \ {"get", "open", "fill", "read", "copy"} :
          step' = [step EXCEPT ![p] = s]
    /\ \/ why' = why
       \/ \E r \in Reasons \ {"files"} : why' = [why EXCEPT ![p] = r]

CommandsSame ==
    /\ command' = command /\ input' = input /\ line' = line
    /\ engine' = engine /\ answered' = answered

(* What the steps of a command, other than loading, leave alone. *)
LEMMA QuietSteps ==
  ASSUME TypeOK, NEW p \in Processes, Begin(p) \/ Asking(p)
  PROVE  Quiet(p)
<1> USE DEF TypeOK, ModelFilesType, Quiet, Busy, Over, Steps, LoadingSteps, Reasons,
            Goto, Fail, Move, GiveUp, files
<1>1. CASE Begin(p)
  BY <1>1 DEF Begin, StartLoading, Commands
<1>2. CASE AfterLoad(p)
  BY <1>2 DEF AfterLoad, Commands
<1>3. CASE Probe(p) \/ Resolve(p) \/ EndOfInput(p)
  BY <1>3 DEF Probe, Resolve, EndOfInput
<1>4. CASE Register(p)
  BY <1>4 DEF Register, Commands
<1>5. CASE SkipBlank(p)
  BY <1>5 DEF SkipBlank, Reads, modelVars
<1>6. CASE ReadFails(p) \/ ReadQuestion(p)
  BY <1>6 DEF ReadFails, ReadQuestion, Reads
<1>7. CASE Route(p)
  BY <1>7 DEF Route, StartLoading
<1>8. CASE Answer(p) \/ AnswerFails(p)
  BY <1>8 DEF Answer, AnswerFails
<1> QED BY <1>1, <1>2, <1>3, <1>4, <1>5, <1>6, <1>7, <1>8 DEF Asking

-----------------------------------------------------------------------------
(* Type correctness. *)
FilesType ==
    /\ disk \in [Files -> {"absent", "damaged", "holed", "whole"}]
    /\ mixed \in [Files -> BOOLEAN]
    /\ step \in [Processes -> Steps]
    /\ file \in [Processes -> Files]
    /\ body \in [Processes -> {"whole", "damaged"}]
    /\ model \in [Processes -> {"none", "intact", "garbled"}]
    /\ faults \subseteq {"overlap", "damage"}
    /\ why \in [Processes -> Reasons]

CommandType ==
    /\ command \in [Processes -> Commands]
    /\ input \in [Processes -> Inputs]
    /\ line \in [Processes -> Nat \ {0}]
    /\ engine \in [Processes -> BOOLEAN]
    /\ answered \in [Processes -> Seq(Nat)]

LEMMA Types == TypeOK <=> FilesType /\ CommandType
BY DEF TypeOK, ModelFilesType, FilesType, CommandType

LEMMA InitTypes == Init => TypeOK
<1> SUFFICES ASSUME Init PROVE TypeOK
  OBVIOUS
<1>1. 1 \in Files
  BY ModelFilesAssumption DEF Files
<1>2. FilesType
  BY <1>1 DEF Init, InitModelFiles, FilesType, Steps, LoadingSteps, Reasons
<1>3. CommandType
  BY DEF Init, CommandType
<1> QED BY <1>2, <1>3, Types

LEMMA LoadTypes ==
  ASSUME FilesType, NEW p \in Processes, Load(p) \/ Get(p)
  PROVE  FilesType'
<1> USE DEF FilesType, Goto, Fail
<1>1. {"check", "get", "open", "fill", "read", "copy", "loaded", "killed", "failed"} \subseteq Steps
  BY DEF Steps, LoadingSteps, Over
<1>2. {"network", "disk", "files"} \subseteq Reasons
  BY DEF Reasons
<1>3. file[p] \in Files /\ (file[p] # Parts => file[p] + 1 \in Files) /\ 1 \in Files
  BY ModelFilesAssumption DEF Files
<1>4. CASE Check(p)
  BY <1>1, <1>3, <1>4 DEF Check, NextFile
<1>5. CASE Get(p)
  <2>1. body' \in [Processes -> {"whole", "damaged"}] /\ faults' \subseteq {"overlap", "damage"}
    BY <1>5 DEF Get
  <2>2. step' \in [Processes -> Steps] /\ why' \in [Processes -> Reasons]
    BY <1>1, <1>2, <1>5 DEF Get
  <2> QED BY <1>5, <2>1, <2>2 DEF Get
<1>6. CASE Open(p)
  <2>1. disk' \in [Files -> {"absent", "damaged", "holed", "whole"}] /\ UNCHANGED <<file, body, model, faults>>
    BY <1>6 DEF Open
  <2>2. mixed' \in [Files -> BOOLEAN]
    BY <1>3, <1>6 DEF Open
  <2>3. step' \in [Processes -> Steps] /\ why' \in [Processes -> Reasons]
    BY <1>1, <1>2, <1>6 DEF Open
  <2> QED BY <2>1, <2>2, <2>3
<1>7. CASE Fill(p)
  <2>1. disk' \in [Files -> {"absent", "damaged", "holed", "whole"}]
    BY <1>7 DEF Fill, Filled
  <2>2. mixed' \in [Files -> BOOLEAN]
    BY <1>3, <1>7 DEF Fill
  <2>3. step' \in [Processes -> Steps] /\ file' \in [Processes -> Files]
    BY <1>1, <1>3, <1>7 DEF Fill, NextFile
  <2>4. body' \in [Processes -> {"whole", "damaged"}] /\ UNCHANGED <<model, why, faults>>
    BY <1>7 DEF Fill
  <2> QED BY <2>1, <2>2, <2>3, <2>4
<1>8. CASE FillFails(p)
  <2>1. mixed' \in [Files -> BOOLEAN]
    BY <1>3, <1>8 DEF FillFails, Abandon
  <2> QED BY <1>1, <1>2, <1>8, <2>1 DEF FillFails, Abandon
<1>9. CASE Read(p)
  BY <1>1, <1>2, <1>3, <1>9 DEF Read, NextFile
<1>10. CASE Copy(p)
  BY <1>1, <1>10 DEF Copy
<1> QED BY <1>4, <1>5, <1>6, <1>7, <1>8, <1>9, <1>10 DEF Load

LEMMA KillTypes ==
  ASSUME FilesType, NEW p \in Processes, Kill(p)
  PROVE  FilesType'
<1>1. mixed' \in [Files -> BOOLEAN] /\ faults' \subseteq {"overlap", "damage"}
  BY DEF FilesType, Kill, Abandon
<1> QED BY <1>1 DEF FilesType, Kill, Goto, Steps, Over

LEMMA QuietTypes ==
  ASSUME FilesType, NEW p \in Processes, Quiet(p)
  PROVE  FilesType'
BY DEF FilesType, Quiet

LEMMA CommandTypes ==
  ASSUME CommandType, NEW p \in Processes, Begin(p) \/ Asking(p)
  PROVE  CommandType'
<1> USE DEF CommandType, commandVars
<1>1. CASE Register(p)
  BY <1>1 DEF Register
<1>2. CASE SkipBlank(p)
  <2>1. line' \in [Processes -> Nat \ {0}]
    BY <1>2 DEF SkipBlank
  <2> QED BY <1>2, <2>1 DEF SkipBlank
<1>3. CASE Answer(p)
  <2>1. line' \in [Processes -> Nat \ {0}]
    BY <1>3 DEF Answer
  <2>2. Append(answered[p], line[p]) \in Seq(Nat)
    OBVIOUS
  <2>3. answered' \in [Processes -> Seq(Nat)]
    BY <1>3, <2>2 DEF Answer
  <2> QED BY <1>3, <2>1, <2>3 DEF Answer
<1>4. CASE UNCHANGED commandVars
  BY <1>4
<1> QED
  BY <1>1, <1>2, <1>3, <1>4
     DEF Begin, Asking, AfterLoad, Probe, Resolve, EndOfInput, ReadFails, ReadQuestion,
         Route, AnswerFails

LEMMA TypesKept == TypeOK /\ [Next]_vars => TypeOK'
<1> SUFFICES ASSUME TypeOK, [Next]_vars PROVE FilesType' /\ CommandType'
  BY Types DEF TypeOK, ModelFilesType, FilesType, CommandType
<1>1. FilesType /\ CommandType
  BY Types
<1>2. CASE UNCHANGED vars
  BY <1>1, <1>2 DEF vars, modelVars, commandVars, FilesType, CommandType
<1>3. ASSUME NEW p \in Processes, Begin(p) \/ Asking(p) PROVE FilesType' /\ CommandType'
  BY <1>1, <1>3, QuietSteps, QuietTypes, CommandTypes
<1>4. ASSUME NEW p \in Processes, Loading(p) \/ Kill(p) PROVE FilesType' /\ CommandType'
  <2>1. CommandType'
    BY <1>1, <1>4 DEF Loading, Kill, commandVars, CommandType
  <2> QED BY <1>1, <1>4, <2>1, LoadTypes, KillTypes DEF Loading
<1> QED BY <1>2, <1>3, <1>4 DEF Next

(* Type correctness, for any processes, files, texts and inputs. *)
THEOREM CommandLineTypeCorrect == Spec => []TypeOK
BY InitTypes, TypesKept, PTL DEF Spec

-----------------------------------------------------------------------------
(* The count of the files. *)
LEMMA RewoundKept ==
  ASSUME TypeOK, Rewound,
         NEW p \in Processes, Quiet(p) \/ Loading(p) \/ Kill(p)
  PROVE  Rewound'
<1> USE DEF TypeOK, ModelFilesType, Rewound, Over, Goto, Fail
<1>1. CASE Quiet(p)
  BY <1>1 DEF Quiet, Busy
<1>2. CASE Check(p) \/ Fill(p) \/ Read(p)
  <2>1. ASSUME NEW stage \in {"check", "read"}, NEW after \in {"read", "copy"},
               NextFile(p, stage, after)
        PROVE  Rewound'
    BY <2>1 DEF NextFile
  <2>2. CASE Check(p)
    BY <2>1, <2>2, ZenonT(30) DEF Check
  <2>3. CASE Fill(p)
    BY <2>1, <2>3, ZenonT(30) DEF Fill
  <2>4. CASE Read(p)
    BY <2>1, <2>4, ZenonT(30) DEF Read
  <2> QED BY <1>2, <2>2, <2>3, <2>4
<1>3. CASE Get(p)
  BY <1>3, ZenonT(30) DEF Get
<1>4. CASE Open(p)
  <2>1. file' = file /\ step' \in {[step EXCEPT ![p] = "fill"], [step EXCEPT ![p] = "failed"]}
    BY <1>4 DEF Open
  <2> QED BY <2>1, ZenonT(30)
<1>5. CASE FillFails(p)
  BY <1>5 DEF FillFails
<1>6. CASE Copy(p)
  BY <1>6 DEF Copy
<1>7. CASE Kill(p)
  BY <1>7 DEF Kill
<1> QED BY <1>1, <1>2, <1>3, <1>4, <1>5, <1>6, <1>7 DEF Loading, Load

(* What holds while no two fetch a file at once.  A step that lets nobody  *)
(* begin to fetch leaves each file at most one that does.                  *)
LEMMA NoNewFetcher ==
  ASSUME OneFetches,
         \A q \in Processes :
            step'[q] \in Fetching => step[q] \in Fetching /\ file'[q] = file[q]
  PROVE  OneFetches'
BY DEF OneFetches

(* While no two starts overlap: what each step of a start keeps.           *)
LEMMA QuietAlone ==
  ASSUME TypeOK, Rewound, Alone, NEW p \in Processes, Quiet(p)
  PROVE  Alone'
<1> SUFFICES ASSUME "overlap" \notin faults, Apart PROVE Apart'
  BY DEF Alone, Quiet
<1>1. \A q \in Processes : step'[q] \in Busy \ {"check"} => step'[q] = step[q]
  BY DEF Quiet, Busy, TypeOK, ModelFilesType
<1>2. OneFetches'
  BY <1>1, NoNewFetcher DEF Apart, Fetching, Busy, Quiet
<1>3. Untouched' /\ Opened' /\ Mapped'
  BY <1>1 DEF Apart, Untouched, Opened, Mapped, Busy, Quiet
<1>4. NoHole' /\ NoneGarbled'
  BY DEF Apart, NoHole, NoneGarbled, Quiet
<1> QED BY <1>2, <1>3, <1>4 DEF Apart

LEMMA CheckAlone ==
  ASSUME TypeOK, Alone, NEW p \in Processes, Check(p)
  PROVE  Alone'
<1> SUFFICES ASSUME "overlap" \notin faults' PROVE Apart'
  BY DEF Alone
<1>1. "overlap" \notin faults /\ Downloading(file[p]) = {} /\ Apart
  BY DEF Check, Alone
<1>2. \A q \in Processes : step[q] \in Fetching => file[q] # file[p]
  BY <1>1 DEF Downloading, Fetching
<1>3. \A q \in Processes : q # p => step'[q] = step[q] /\ file'[q] = file[q]
  BY DEF Check, NextFile, Goto, TypeOK, ModelFilesType
<1>4. \/ step'[p] = "get" /\ file'[p] = file[p] /\ disk[file[p]] = "absent"
      \/ step'[p] \in {"check", "read"}
  BY DEF Check, NextFile, Goto, TypeOK, ModelFilesType
<1>5. OneFetches'
  <2> SUFFICES ASSUME NEW a \in Processes, NEW b \in Processes,
                      step'[a] \in Fetching, step'[b] \in Fetching, file'[a] = file'[b]
               PROVE  a = b
    BY DEF OneFetches
  <2>1. CASE a # p /\ b # p
    BY <1>1, <1>3, <2>1 DEF Apart, OneFetches
  <2>2. CASE a = p \/ b = p
    BY <1>2, <1>3, <1>4, <2>2 DEF Fetching
  <2> QED BY <2>1, <2>2
<1>6. disk' = disk /\ mixed' = mixed /\ model' = model
  BY DEF Check
<1>7. Untouched' /\ Opened' /\ Mapped'
  BY <1>1, <1>3, <1>4, <1>6 DEF Apart, Untouched, Opened, Mapped
<1>8. NoHole' /\ NoneGarbled'
  BY <1>1, <1>6 DEF Apart, NoHole, NoneGarbled
<1> QED BY <1>5, <1>7, <1>8 DEF Apart

LEMMA GetAlone ==
  ASSUME TypeOK, Alone, NEW p \in Processes, Get(p)
  PROVE  Alone'
<1> SUFFICES ASSUME "overlap" \notin faults' PROVE Apart'
  BY DEF Alone
<1>1. Apart
  BY DEF Alone, Get
<1>2. disk' = disk /\ mixed' = mixed /\ model' = model /\ file' = file
  BY DEF Get
<1>3. \A q \in Processes : step'[q] # step[q] => step[q] = "get" /\ step'[q] \in {"open", "failed"}
  BY DEF Get, Goto, Fail, TypeOK, ModelFilesType
<1>4. OneFetches'
  BY <1>1, <1>2, <1>3, NoNewFetcher DEF Apart, Fetching
<1>5. Untouched' /\ Opened' /\ Mapped'
  BY <1>1, <1>2, <1>3 DEF Apart, Untouched, Opened, Mapped
<1>6. NoHole' /\ NoneGarbled'
  BY <1>1, <1>2 DEF Apart, NoHole, NoneGarbled
<1> QED BY <1>4, <1>5, <1>6 DEF Apart

LEMMA OpenAlone ==
  ASSUME TypeOK, Alone, NEW p \in Processes, Open(p)
  PROVE  Alone'
<1> SUFFICES ASSUME "overlap" \notin faults' PROVE Apart'
  BY DEF Alone
<1>1. Apart /\ file[p] \in Files /\ Parts \in Files
  BY ModelFilesAssumption DEF Alone, Open, TypeOK, ModelFilesType, Files
<1>2. model' = model /\ file' = file
  BY DEF Open
<1>3. \A q \in Processes : q # p => step'[q] = step[q]
  BY DEF Open, Goto, Fail, TypeOK, ModelFilesType
<1>4. \A q \in Processes : q # p /\ step[q] \in Fetching => file[q] # file[p]
  BY <1>1 DEF Apart, OneFetches, Fetching, Open
<1>5. disk[file[p]] = "absent"
  BY <1>1 DEF Apart, Untouched, Open
<1>6. \/ step'[p] = "fill" /\ disk' = [disk EXCEPT ![file[p]] = "damaged"]
      \/ step'[p] = "failed" /\ disk' = disk
  BY DEF Open, Goto, Fail, TypeOK, ModelFilesType
<1>7. \A f \in Files : disk'[f] = disk[f] \/ (f = file[p] /\ disk'[f] = "damaged")
  BY <1>6 DEF TypeOK, ModelFilesType
<1>8. OneFetches'
  BY <1>1, <1>2, <1>3, NoNewFetcher DEF Apart, Fetching, Open
<1>9. Untouched'
  BY <1>1, <1>2, <1>3, <1>4, <1>6, <1>7 DEF Apart, Untouched, Fetching, TypeOK,
     ModelFilesType
<1>10. Opened'
  BY <1>1, <1>2, <1>3, <1>4, <1>6, <1>7 DEF Apart, Opened, Fetching, TypeOK,
     ModelFilesType
<1>11. Mapped'
  BY <1>1, <1>3, <1>5, <1>6, <1>7 DEF Apart, Mapped
<1>12. Writing(file[p]) = {}
  BY <1>4 DEF Writing, Fetching, Open
<1>13. mixed' = mixed
  BY <1>12 DEF Open, TypeOK, ModelFilesType
<1>14. NoHole' /\ NoneGarbled'
  BY <1>1, <1>2, <1>7, <1>13 DEF Apart, NoHole, NoneGarbled
<1> QED BY <1>8, <1>9, <1>10, <1>11, <1>14 DEF Apart

(* A writer that is alone and ends well leaves what it downloaded. *)
LEMMA FillAlone ==
  ASSUME TypeOK, Alone, NEW p \in Processes, Fill(p)
  PROVE  /\ Alone'
         /\ "overlap" \notin faults => disk' = [disk EXCEPT ![file[p]] = body[p]]
<1>1. ASSUME "overlap" \notin faults
      PROVE  Apart' /\ disk' = [disk EXCEPT ![file[p]] = body[p]]
  <2>1. Apart /\ file[p] \in Files /\ Parts \in Files
    BY <1>1, ModelFilesAssumption DEF Alone, TypeOK, ModelFilesType, Files
  <2>2. \A q \in Processes : q # p => step'[q] = step[q] /\ file'[q] = file[q]
    BY DEF Fill, NextFile, Goto, TypeOK, ModelFilesType
  <2>3. step'[p] \in {"check", "read"}
    BY DEF Fill, NextFile, Goto, TypeOK, ModelFilesType
  <2>4. \A q \in Processes : q # p /\ step[q] \in Fetching => file[q] # file[p]
    BY <2>1 DEF Apart, OneFetches, Fetching, Fill
  <2>5. Writing(file[p]) = {p}
    BY <2>4 DEF Writing, Fetching, Fill
  <2>6. disk' = [disk EXCEPT ![file[p]] = body[p]]
    BY <2>1, <2>5 DEF Fill, Filled, Apart, NoHole
  <2>7. mixed' = mixed /\ model' = model
    BY <2>1, <2>5 DEF Fill, Apart, NoHole, TypeOK, ModelFilesType
  <2>8. \A f \in Files : disk'[f] = disk[f] \/ (f = file[p] /\ disk'[f] \in {"whole", "damaged"})
    BY <2>1, <2>6 DEF TypeOK, ModelFilesType
  <2>9. disk[file[p]] = "damaged"
    BY <2>1 DEF Apart, Opened, Fill
  <2>10. OneFetches'
    BY <2>1, <2>2, <2>3, NoNewFetcher DEF Apart, Fetching
  <2>11. Untouched' /\ Opened'
    <3>1. \A q \in Processes :
             q # p /\ step[q] \in Fetching => disk'[file[q]] = disk[file[q]]
      BY <2>4, <2>6 DEF TypeOK, ModelFilesType
    <3> QED BY <2>1, <2>2, <2>3, <3>1 DEF Apart, Untouched, Opened, Fetching
  <2>12. Mapped'
    BY <2>1, <2>2, <2>3, <2>8, <2>9 DEF Apart, Mapped
  <2>13. NoHole' /\ NoneGarbled'
    BY <2>1, <2>7, <2>8 DEF Apart, NoHole, NoneGarbled
  <2> QED BY <2>6, <2>10, <2>11, <2>12, <2>13 DEF Apart
<1> QED BY <1>1 DEF Alone, Fill

(* A writer that gives up or dies changes no file. *)
LEMMA EndsAlone ==
  ASSUME TypeOK, Alone, NEW p \in Processes, FillFails(p) \/ Kill(p)
  PROVE  Alone'
<1> SUFFICES ASSUME "overlap" \notin faults' PROVE Apart'
  BY DEF Alone
<1>1. Apart
  BY DEF Alone, FillFails, Kill, Abandon
<1>2. disk' = disk /\ file' = file /\ model' = model
  BY DEF FillFails, Kill
<1>3. \A q \in Processes : step'[q] = step[q] \/ step'[q] \in {"failed", "killed"}
  BY DEF FillFails, Kill, Goto, Fail, TypeOK, ModelFilesType
<1>4. step[p] = "fill" => Writing(file[p]) = {p}
  BY <1>1 DEF Apart, OneFetches, Writing, Fetching
<1>5. mixed' = mixed
  BY <1>1, <1>4 DEF FillFails, Kill, Abandon, Apart, NoHole, TypeOK,
     ModelFilesType
<1>6. OneFetches'
  BY <1>1, <1>2, <1>3, NoNewFetcher DEF Apart, Fetching
<1>7. Untouched' /\ Opened' /\ Mapped'
  BY <1>1, <1>2, <1>3 DEF Apart, Untouched, Opened, Mapped
<1>8. NoHole' /\ NoneGarbled'
  BY <1>1, <1>2, <1>5 DEF Apart, NoHole, NoneGarbled
<1> QED BY <1>6, <1>7, <1>8 DEF Apart

(* Without holes, what parses is whole, and what is mapped stays so. *)
LEMMA ReadAlone ==
  ASSUME TypeOK, Alone, NEW p \in Processes, Read(p) \/ Copy(p)
  PROVE  Alone'
<1> SUFFICES ASSUME "overlap" \notin faults' PROVE Apart'
  BY DEF Alone
<1>1. Apart
  BY DEF Alone, Read, Copy
<1>2. disk' = disk /\ mixed' = mixed
  BY DEF Read, Copy
<1>3. \A q \in Processes :
         q # p => step'[q] = step[q] /\ file'[q] = file[q] /\ model'[q] = model[q]
  BY DEF Read, Copy, NextFile, Goto, Fail, TypeOK, ModelFilesType
<1>4. step'[p] \in {"read", "copy", "failed", "loaded", "killed"}
  BY DEF Read, Copy, NextFile, Goto, Fail, TypeOK, ModelFilesType
<1>5. step'[p] = "copy" => disk[Parts] = "whole"
  BY <1>1 DEF Apart, NoHole, Read, Copy, Parses, NextFile, Goto, Fail, TypeOK,
     ModelFilesType
<1>6. model'[p] # "garbled"
  BY <1>1 DEF Apart, NoneGarbled, Mapped, Read, Copy, TypeOK, ModelFilesType
<1>7. OneFetches'
  BY <1>1, <1>3, <1>4, NoNewFetcher DEF Apart, Fetching
<1>8. Untouched' /\ Opened' /\ Mapped'
  BY <1>1, <1>2, <1>3, <1>4, <1>5 DEF Apart, Untouched, Opened, Mapped
<1>9. NoHole' /\ NoneGarbled'
  BY <1>1, <1>2, <1>3, <1>6 DEF Apart, NoHole, NoneGarbled
<1> QED BY <1>7, <1>8, <1>9 DEF Apart

-----------------------------------------------------------------------------
(* What holds while nothing went wrong.  Then nothing did before, and no   *)
(* two were fetching one file.                                             *)
Fine == TypeOK /\ Apart /\ Sound /\ faults' = {}

(* While nothing went wrong: what each step of a start keeps.              *)
LEMMA FineBefore ==
  ASSUME TypeOK, Alone, Clean, NEW p \in Processes,
         Quiet(p) \/ Loading(p) \/ Kill(p), faults' = {}
  PROVE  Fine /\ faults = {}
<1>1. faults = {}
  BY DEF Quiet, Loading, Load, Check, Get, Open, Fill, FillFails, Read, Copy,
     Kill, Abandon
<1> QED BY <1>1 DEF Fine, Alone, Clean

LEMMA QuietClean ==
  ASSUME Fine, NEW p \in Processes, Quiet(p), Rewound
  PROVE  Sound'
<1>1. \A q \in Processes :
         step'[q] = step[q] \/ (step[q] \notin Busy \cup Over /\ file[q] = 1
                                /\ step'[q] \notin Fetching \cup {"read", "copy"})
  BY DEF Quiet, Fine, TypeOK, ModelFilesType, Rewound, Busy, Fetching
<1>2. disk' = disk /\ file' = file /\ body' = body
  BY DEF Quiet
<1>3. BehindWhole'
  BY <1>1, <1>2 DEF Fine, Sound, BehindWhole, Passed, Fetching, Files
<1>4. \A f \in Files : Writing(f)' = Writing(f)
  BY <1>1, <1>2 DEF Writing, Busy, Fetching
<1>5. DamagedWritten'
  BY <1>2, <1>4 DEF Fine, Sound, DamagedWritten
<1>6. NoneFailed'
  BY <1>2 DEF Fine, Sound, NoneFailed, Quiet, TypeOK
<1> QED BY <1>3, <1>5, <1>6 DEF Sound

(* What is behind a process that goes on to the next file. *)
LEMMA NextFileBehind ==
  ASSUME TypeOK, NEW p \in Processes, NextFile(p, "check", "read"),
         \A f \in Files : f <= file[p] => disk'[f] = "whole",
         NEW f \in Files, Passed(p, f)'
  PROVE  disk'[f] = "whole"
<1>1. \/ step'[p] = "check" /\ file'[p] = file[p] + 1
      \/ step'[p] = "read" /\ file[p] = Parts
  BY DEF NextFile, Goto, TypeOK, ModelFilesType
<1> QED BY <1>1, ModelFilesAssumption DEF Passed, Files, TypeOK, ModelFilesType

LEMMA CheckClean ==
  ASSUME Fine, NEW p \in Processes, Check(p)
  PROVE  Sound'
<1>1. Downloading(file[p]) = {} /\ file[p] \in Files
  BY DEF Fine, Check, TypeOK, ModelFilesType
<1>2. \A q \in Processes : q # p => step'[q] = step[q] /\ file'[q] = file[q]
  BY DEF Fine, Check, NextFile, Goto, TypeOK, ModelFilesType
<1>3. disk' = disk /\ body' = body /\ why' = why
  BY DEF Check
<1>4. CASE disk[file[p]] = "absent"
  <2>1. step'[p] = "get" /\ file'[p] = file[p]
    BY <1>4 DEF Fine, Check, Goto, TypeOK, ModelFilesType
  <2>2. BehindWhole'
    BY <1>2, <1>3, <2>1 DEF Fine, Sound, BehindWhole, Passed, Check
  <2>3. \A f \in Files : Writing(f)' = Writing(f)
    BY <1>2, <2>1 DEF Writing, Check
  <2> QED BY <1>3, <2>2, <2>3 DEF Fine, Sound, DamagedWritten, NoneFailed
<1>5. CASE disk[file[p]] # "absent"
  <2>1. NextFile(p, "check", "read") /\ step[p] = "check"
    BY <1>5 DEF Check
  <2>2. disk[file[p]] = "whole"
    BY <1>1, <1>5 DEF Fine, Apart, NoHole, Sound, DamagedWritten, Writing,
       Downloading,
                      TypeOK, ModelFilesType
  <2>3. \A f \in Files : f <= file[p] => disk'[f] = "whole"
    BY <1>1, <1>3, <2>1, <2>2 DEF Fine, Sound, BehindWhole, Passed, Files
  <2>4. \A f \in Files : Passed(p, f)' => disk'[f] = "whole"
    BY <2>1, <2>3, NextFileBehind DEF Fine
  <2>5. BehindWhole'
    BY <1>2, <1>3, <2>4 DEF Fine, Sound, BehindWhole, Passed
  <2>6. step'[p] # "fill"
    BY <2>1 DEF Fine, NextFile, Goto, TypeOK, ModelFilesType
  <2>7. \A f \in Files : Writing(f)' = Writing(f)
    BY <1>2, <2>1, <2>6 DEF Writing
  <2> QED BY <1>3, <2>5, <2>7 DEF Fine, Sound, DamagedWritten, NoneFailed
<1> QED BY <1>4, <1>5

LEMMA GetClean ==
  ASSUME Fine, NEW p \in Processes, Get(p)
  PROVE  Sound'
<1>1. disk' = disk /\ file' = file
  BY DEF Get
<1>2. \A q \in Processes :
         step'[q] # step[q] => step[q] = "get" /\ step'[q] \in {"open", "failed"}
  BY DEF Get, Goto, Fail, Fine, TypeOK, ModelFilesType
<1>3. BehindWhole'
  BY <1>1, <1>2 DEF Fine, Sound, BehindWhole, Passed
<1>4. \A f \in Files : Writing(f)' = Writing(f)
  BY <1>1, <1>2 DEF Writing
<1>5. DamagedWritten'
  BY <1>1, <1>4 DEF Fine, Sound, DamagedWritten
<1>6. NoneFailed'
  BY DEF Fine, Sound, NoneFailed, Get, Fail, TypeOK, ModelFilesType
<1> QED BY <1>3, <1>5, <1>6 DEF Sound

LEMMA OpenClean ==
  ASSUME Fine, NEW p \in Processes, Open(p)
  PROVE  Sound'
<1>1. file' = file /\ body' = body /\ file[p] \in Files
  BY DEF Fine, Open, TypeOK, ModelFilesType
<1>2. \A q \in Processes : q # p => step'[q] = step[q]
  BY DEF Open, Goto, Fail, Fine, TypeOK, ModelFilesType
<1>3. disk[file[p]] = "absent"
  BY DEF Fine, Apart, Untouched, Open
<1>4. \/ step'[p] = "fill" /\ disk' = [disk EXCEPT ![file[p]] = "damaged"]
      \/ step'[p] = "failed" /\ disk' = disk
  BY DEF Open, Goto, Fail, Fine, TypeOK, ModelFilesType
<1>5. \A f \in Files :
         disk'[f] = disk[f] \/ (f = file[p] /\ disk'[f] = "damaged" /\ step'[p] = "fill")
  BY <1>4 DEF Fine, TypeOK, ModelFilesType
<1>6. BehindWhole'
  BY <1>1, <1>2, <1>3, <1>4, <1>5 DEF Fine, Sound, BehindWhole, Passed, Open
<1>7. \A f \in Files : Writing(f) \subseteq Writing(f)'
  BY <1>1, <1>2 DEF Writing, Open
<1>8. DamagedWritten'
  <2> SUFFICES ASSUME NEW f \in Files, disk'[f] = "damaged" PROVE Writing(f)' # {}
    BY DEF DamagedWritten
  <2>1. CASE disk'[f] = disk[f]
    BY <1>7, <2>1 DEF Fine, Sound, DamagedWritten
  <2>2. CASE f = file[p] /\ step'[p] = "fill"
    BY <1>1, <2>2 DEF Writing
  <2> QED BY <1>5, <2>1, <2>2
<1>9. NoneFailed'
  BY <1>1 DEF Fine, Sound, NoneFailed, Open, Fail, TypeOK, ModelFilesType
<1> QED BY <1>6, <1>8, <1>9 DEF Sound

LEMMA FillClean ==
  ASSUME Fine, NEW p \in Processes, Fill(p),
         disk' = [disk EXCEPT ![file[p]] = body[p]]
  PROVE  Sound'
<1>1. file[p] \in Files /\ body[p] = "whole"
  BY DEF Fine, Sound, NoneFailed, TypeOK, ModelFilesType
<1>2. \A q \in Processes : q # p => step'[q] = step[q] /\ file'[q] = file[q]
  BY DEF Fill, NextFile, Goto, Fine, TypeOK, ModelFilesType
<1>3. \A f \in Files : disk'[f] = IF f = file[p] THEN "whole" ELSE disk[f]
  BY <1>1 DEF Fine, TypeOK, ModelFilesType
<1>4. \A f \in Files : f <= file[p] => disk'[f] = "whole"
  BY <1>1, <1>3 DEF Fine, Sound, BehindWhole, Passed, Fill, Files
<1>5. \A f \in Files : Passed(p, f)' => disk'[f] = "whole"
  BY <1>4, NextFileBehind DEF Fine, Fill
<1>6. BehindWhole'
  <2> SUFFICES ASSUME NEW q \in Processes, NEW f \in Files, Passed(q, f)'
               PROVE  disk'[f] = "whole"
    BY DEF BehindWhole
  <2>1. CASE q = p
    BY <1>5, <2>1
  <2>2. CASE q # p
    BY <1>2, <1>3, <2>2 DEF Fine, Sound, BehindWhole, Passed
  <2> QED BY <2>1, <2>2
<1>7. \A f \in Files : f # file[p] => Writing(f)' = Writing(f)
  <2>1. step'[p] # "fill" /\ step[p] = "fill"
    BY DEF Fill, NextFile, Goto, Fine, TypeOK, ModelFilesType
  <2> QED BY <1>2, <2>1 DEF Writing
<1>8. DamagedWritten'
  BY <1>3, <1>7 DEF Fine, Sound, DamagedWritten
<1>9. NoneFailed'
  BY DEF Fine, Sound, NoneFailed, Fill, TypeOK, ModelFilesType
<1> QED BY <1>6, <1>8, <1>9 DEF Sound

LEMMA EndsClean ==
  ASSUME Fine, NEW p \in Processes, FillFails(p) \/ Kill(p)
  PROVE  Sound'
<1>1. Kill(p) /\ step[p] # "fill"
  BY DEF Fine, FillFails, Kill, Abandon
<1>2. disk' = disk /\ file' = file /\ body' = body /\ why' = why
  BY <1>1 DEF Kill
<1>3. \A q \in Processes : step'[q] = step[q] \/ (step'[q] = "killed" /\ step[q] # "fill")
  BY <1>1 DEF Kill, Goto, Fine, TypeOK, ModelFilesType
<1>4. BehindWhole'
  BY <1>2, <1>3 DEF Fine, Sound, BehindWhole, Passed
<1>5. \A f \in Files : Writing(f)' = Writing(f)
  BY <1>2, <1>3 DEF Writing
<1> QED BY <1>2, <1>4, <1>5 DEF Fine, Sound, DamagedWritten, NoneFailed

LEMMA ReadClean ==
  ASSUME Fine, NEW p \in Processes, Read(p) \/ Copy(p)
  PROVE  Sound'
<1>1. disk' = disk /\ body' = body
  BY DEF Read, Copy
<1>2. \A q \in Processes : q # p => step'[q] = step[q] /\ file'[q] = file[q]
  BY DEF Read, Copy, NextFile, Goto, Fail, Fine, TypeOK, ModelFilesType
<1>3. step[p] \in {"read", "copy"} /\ step'[p] \in {"read", "copy", "failed", "loaded", "killed"}
  BY DEF Read, Copy, NextFile, Goto, Fail, Fine, TypeOK, ModelFilesType
<1>4. \A f \in Files : disk[f] = "whole"
  BY <1>3 DEF Fine, Sound, BehindWhole, Passed
<1>5. BehindWhole' /\ DamagedWritten'
  BY <1>1, <1>4 DEF BehindWhole, DamagedWritten
<1>6. why' = why
  BY <1>4 DEF Read, Copy, Parses, Fine, TypeOK, ModelFilesType
<1> QED BY <1>1, <1>5, <1>6 DEF Fine, Sound, NoneFailed

-----------------------------------------------------------------------------
(* The invariant of the files holds at the start and is kept. *)
LEMMA InitFiles == Init => FilesInv
<1> SUFFICES ASSUME Init PROVE FilesInv
  OBVIOUS
<1>1. TypeOK
  BY InitTypes
<1>2. Rewound
  BY DEF Init, InitModelFiles, Rewound
<1>3. Apart
  BY DEF Init, InitModelFiles, Apart, OneFetches, Untouched, Opened, Mapped,
     NoHole,
         NoneGarbled, Fetching
<1>4. Sound
  BY DEF Init, InitModelFiles, Sound, BehindWhole, DamagedWritten, NoneFailed,
     Passed
<1> QED BY <1>1, <1>2, <1>3, <1>4 DEF FilesInv, Alone, Clean

LEMMA FilesKept == FilesInv /\ [Next]_vars => FilesInv'
<1> SUFFICES ASSUME FilesInv, [Next]_vars PROVE FilesInv'
  OBVIOUS
<1>1. TypeOK'
  BY TypesKept DEF FilesInv
<1>2. CASE UNCHANGED vars
  <2>1. Rewound' /\ Alone'
    BY <1>2 DEF FilesInv, vars, modelVars, Rewound, Alone, Apart, OneFetches,
       Untouched,
                Opened, Mapped, NoHole, NoneGarbled
  <2>2. Clean'
    BY <1>2 DEF FilesInv, vars, modelVars, Clean, Sound, BehindWhole,
       DamagedWritten,
                NoneFailed, Passed, Writing
  <2> QED BY <1>1, <2>1, <2>2 DEF FilesInv
<1>3. ASSUME NEW p \in Processes, Quiet(p) \/ Loading(p) \/ Kill(p)
      PROVE  Rewound' /\ Alone' /\ Clean'
  <2>1. Rewound'
    BY <1>3, RewoundKept DEF FilesInv
  <2>2. Alone'
    BY <1>3, QuietAlone, CheckAlone, GetAlone, OpenAlone, FillAlone, EndsAlone,
       ReadAlone
       DEF FilesInv, Loading, Load
  <2>3. Clean'
    <3> SUFFICES ASSUME faults' = {} PROVE Sound'
      BY DEF Clean
    <3>1. Fine /\ faults = {}
      BY <1>3, FineBefore DEF FilesInv
    <3>2. Fill(p) => disk' = [disk EXCEPT ![file[p]] = body[p]]
      BY <3>1, FillAlone DEF FilesInv
    <3> QED
      BY <1>3, <3>1, <3>2, QuietClean, CheckClean, GetClean, OpenClean, FillClean,
         EndsClean, ReadClean DEF FilesInv, Loading, Load
  <2> QED BY <2>1, <2>2, <2>3
<1> QED
  BY <1>1, <1>2, <1>3, QuietSteps DEF FilesInv, Next

LEMMA FilesAlways == Spec => []FilesInv
BY InitFiles, FilesKept, PTL DEF Spec

(* A process fails for what it reads only on a machine where something     *)
(* went wrong with a download before, or another start ran beside one.     *)
THEOREM FailuresHaveCause == Spec => []FailureHasCause
<1>1. FilesInv => FailureHasCause
  BY DEF FilesInv, Clean, Sound, NoneFailed, FailureHasCause
<1> QED BY <1>1, FilesAlways, PTL

(* Garbled weights come from two processes that fetched a model at once.   *)
THEOREM GarbledNeedsOverlap == Spec => []GarbledOnlyByOverlap
<1>1. FilesInv => GarbledOnlyByOverlap
  BY DEF FilesInv, Alone, Apart, NoneGarbled, GarbledOnlyByOverlap
<1> QED BY <1>1, FilesAlways, PTL

-----------------------------------------------------------------------------
(* Once all files are whole and nobody is about to write one, no step that *)
(* reads them or has nothing to do with them changes that.                 *)
LEMMA SettledStep ==
  ASSUME TypeOK, [Next]_vars, Settled
  PROVE  Settled'
<1>1. CASE UNCHANGED vars
  BY <1>1 DEF vars, modelVars, Settled
<1>2. ASSUME NEW p \in Processes, Quiet(p) PROVE Settled'
  BY <1>2 DEF Settled, Quiet, TypeOK, ModelFilesType
<1>3. ASSUME NEW p \in Processes, Loading(p) PROVE Settled'
  <2>1. Check(p) \/ Read(p) \/ Copy(p)
    BY <1>3 DEF Settled, Loading, Load, Get, Open, Fill, FillFails
  <2>2. disk' = disk
    BY <2>1 DEF Check, Read, Copy
  <2>3. CASE Check(p)
    <3>1. disk[file[p]] # "absent"
      BY DEF Settled, TypeOK, ModelFilesType
    <3> QED BY <2>2, <2>3, <3>1 DEF Settled, Check, NextFile, Goto, TypeOK,
               ModelFilesType
  <2>4. CASE Read(p) \/ Copy(p)
    BY <2>2, <2>4 DEF Settled, Read, Copy, NextFile, Goto, Fail, TypeOK,
       ModelFilesType
  <2> QED BY <2>1, <2>3, <2>4
<1>4. ASSUME NEW p \in Processes, Kill(p) PROVE Settled'
  BY <1>4 DEF Settled, Kill, Goto, TypeOK, ModelFilesType
<1> QED BY <1>1, <1>2, <1>3, <1>4, QuietSteps DEF Next

(* A directory that is complete stays so, whatever starts, fails or dies.  *)
THEOREM CompleteForGood == Spec => SettledForGood
<1>1. TypeOK /\ [Next]_vars => [Settled => Settled']_modelVars
  BY SettledStep
<1> QED BY <1>1, CommandLineTypeCorrect, PTL DEF Spec, SettledForGood

-----------------------------------------------------------------------------
(* The steps of load_model that a start has before it when there is        *)
(* nothing to download.                                                    *)
Local == {"check", "read", "copy"}

ToLoad(p) ==
    CASE step[p] = "check" -> 2 * Parts + 2 - file[p]
      [] step[p] = "read" -> Parts + 2 - file[p]
      [] step[p] = "copy" -> 1
      [] OTHER -> 0

(* What a start does next when the files are complete, and how much nearer *)
(* it is its model after that.                                             *)
LoadsOn(p) ==
    \/ step'[p] \in Local /\ ToLoad(p)' < ToLoad(p)
    \/ step'[p] = "loaded" /\ model'[p] = "intact"
    \/ step'[p] = "killed"

LEMMA LoadsOnAlone ==
  ASSUME TypeOK, Settled, NEW p \in Processes, step[p] \in Local, Loading(p)
  PROVE  LoadsOn(p)
<1> USE DEF TypeOK, ModelFilesType, Goto
<1>1. /\ file[p] \in Files /\ Parts \in Files /\ Parts \in Nat \ {0}
      /\ disk[file[p]] = "whole" /\ disk[Parts] = "whole"
  BY ModelFilesAssumption DEF Settled, Files
<1>2. file[p] \in 1 .. Parts
  BY <1>1 DEF Files
<1>3. CASE Check(p)
  <2>1. CASE file[p] = Parts
    <3>1. step[p] = "check" /\ step'[p] = "read" /\ file'[p] = 1
      BY <1>1, <1>3, <2>1 DEF Check, NextFile
    <3>2. ToLoad(p) = Parts + 2 /\ ToLoad(p)' = Parts + 1
      BY <1>1, <2>1, <3>1 DEF ToLoad
    <3> QED BY <1>1, <3>1, <3>2 DEF LoadsOn, Local
  <2>2. CASE file[p] # Parts
    <3>1. step[p] = "check" /\ step'[p] = "check" /\ file'[p] = file[p] + 1
      BY <1>1, <1>3, <2>2 DEF Check, NextFile
    <3>2. ToLoad(p) = 2 * Parts + 2 - file[p] /\ ToLoad(p)' = 2 * Parts + 1 - file[p]
      BY <1>1, <1>2, <3>1 DEF ToLoad
    <3> QED BY <1>1, <1>2, <3>1, <3>2 DEF LoadsOn, Local
  <2> QED BY <2>1, <2>2
<1>4. CASE Read(p)
  <2>1. CASE file[p] = Parts
    <3>1. step[p] = "read" /\ step'[p] = "copy"
      BY <1>1, <1>4, <2>1 DEF Read, Parses, NextFile
    <3>2. ToLoad(p) = 2 /\ ToLoad(p)' = 1
      BY <1>1, <2>1, <3>1 DEF ToLoad
    <3> QED BY <3>1, <3>2 DEF LoadsOn, Local
  <2>2. CASE file[p] # Parts
    <3>1. step[p] = "read" /\ step'[p] = "read" /\ file'[p] = file[p] + 1
      BY <1>1, <1>4, <2>2 DEF Read, Parses, NextFile
    <3>2. ToLoad(p) = Parts + 2 - file[p] /\ ToLoad(p)' = Parts + 1 - file[p]
      BY <1>1, <1>2, <3>1 DEF ToLoad
    <3> QED BY <1>1, <1>2, <3>1, <3>2 DEF LoadsOn, Local
  <2> QED BY <2>1, <2>2
<1>5. CASE Copy(p)
  BY <1>1, <1>5 DEF Copy, LoadsOn
<1> QED BY <1>3, <1>4, <1>5 DEF Loading, Load, Get, Open, Fill, FillFails, Local

(* Others do nothing to a start: the files are complete and stay so. *)
LEMMA LoadsOnBeside ==
  ASSUME TypeOK, Settled, NEW p \in Processes, step[p] \in Local, [Next]_vars
  PROVE  UNCHANGED <<step[p], file[p]>> \/ LoadsOn(p)
<1> USE DEF TypeOK, ModelFilesType
<1>1. CASE UNCHANGED vars
  BY <1>1 DEF vars, modelVars
<1>2. CASE Loading(p)
  BY <1>2, LoadsOnAlone
<1>3. CASE Kill(p)
  BY <1>3 DEF Kill, Goto, LoadsOn
<1>4. ASSUME NEW q \in Processes, Quiet(q) PROVE UNCHANGED <<step[p], file[p]>>
  BY <1>4 DEF Quiet, Local, Busy
<1>5. ASSUME NEW q \in Processes \ {p}, Loading(q) PROVE UNCHANGED <<step[p], file[p]>>
  BY <1>5
     DEF Loading, Load, Check, Get, Open, Fill, FillFails, Read, Copy, NextFile, Goto,
         Fail
<1>6. ASSUME NEW q \in Processes \ {p}, Kill(q) PROVE UNCHANGED <<step[p], file[p]>>
  BY <1>6 DEF Kill, Goto
<1> QED BY <1>1, <1>2, <1>3, <1>4, <1>5, <1>6, QuietSteps DEF Next

LEMMA ToLoadRange ==
  ASSUME TypeOK, NEW p \in Processes, step[p] \in Local
  PROVE  ToLoad(p) \in 1 .. 2 * Parts + 1
<1>1. file[p] \in 1 .. Parts /\ Parts \in Nat \ {0}
  BY ModelFilesAssumption DEF TypeOK, ModelFilesType, Files
<1> QED BY <1>1 DEF ToLoad, Local

(* With the files complete a start needs no network and cannot fail: it    *)
(* takes at most 2 * Parts + 1 steps, the last of which gives it an intact *)
(* model, unless it is killed; others, which may start, load, fail or die  *)
(* meanwhile, do not throw it back.  That the steps are taken is fairness: *)
(* SettledStartsLoad is left to the runs.                                  *)
THEOREM CompleteStartsLoad ==
  Spec =>
      /\ [](\A p \in Processes : step[p] \in Local => ToLoad(p) \in 1 .. 2 * Parts + 1)
      /\ [][\A p \in Processes : Settled /\ step[p] \in Local =>
               /\ Loading(p) => LoadsOn(p)
               /\ UNCHANGED <<step[p], file[p]>> \/ LoadsOn(p)]_vars
<1>1. TypeOK => \A p \in Processes : step[p] \in Local => ToLoad(p) \in 1 .. 2 * Parts + 1
  BY ToLoadRange
<1>2. TypeOK /\ [Next]_vars =>
         [\A p \in Processes : Settled /\ step[p] \in Local =>
            /\ Loading(p) => LoadsOn(p)
            /\ UNCHANGED <<step[p], file[p]>> \/ LoadsOn(p)]_vars
  BY LoadsOnAlone, LoadsOnBeside
<1> QED BY <1>1, <1>2, CommandLineTypeCorrect, PTL DEF Spec

-----------------------------------------------------------------------------
(* Questions and answers. *)
OrderInv == TypeOK /\ AtQuestion /\ AnswersInOrder

LEMMA Given ==
  ASSUME TypeOK, NEW p \in Processes
  PROVE  Len(input[p]) \in Nat /\ line[p] \in Nat /\ line[p] >= 1
BY CommandAssumption DEF TypeOK

(* A command that is about to answer stays at its question. *)
LEMMA AtQuestionKept ==
  ASSUME TypeOK, AtQuestion, NEW p \in Processes,
         Begin(p) \/ Asking(p) \/ Loading(p) \/ Kill(p)
  PROVE  AtQuestion'
<1>1. \A q \in Processes :
         q # p => ToAnswer(q)' = ToAnswer(q) /\ line'[q] = line[q] /\ input'[q] = input[q]
  <2>1. \A q \in Processes : q # p => step'[q] = step[q]
    <3>1. CASE Begin(p) \/ Asking(p)
      BY <3>1, QuietSteps DEF Quiet, TypeOK, ModelFilesType
    <3>2. CASE Loading(p) \/ Kill(p)
      BY <3>2 DEF Loading, Load, Check, Get, Open, Fill, FillFails, Read, Copy,
                  Kill, NextFile, Goto, Fail, TypeOK, ModelFilesType
    <3> QED BY <3>1, <3>2
  <2>2. command' = command /\ input' = input
    BY DEF Begin, Asking, AfterLoad, Probe, Resolve, Register, EndOfInput,
           SkipBlank, ReadFails, ReadQuestion, Route, Answer, AnswerFails,
           Loading, Kill, commandVars
  <2>3. \A q \in Processes : q # p => line'[q] = line[q]
    BY DEF Begin, Asking, AfterLoad, Probe, Resolve, Register, EndOfInput,
           SkipBlank, ReadFails, ReadQuestion, Route, Answer, AnswerFails,
           Loading, Kill, commandVars, TypeOK
  <2> QED BY <2>1, <2>2, <2>3 DEF ToAnswer
<1> SUFFICES ASSUME ToAnswer(p)'
             PROVE  line'[p] <= Len(input[p]) /\ input'[p][line'[p]] \in Texts /\ input' = input
  BY <1>1 DEF AtQuestion
<1> USE DEF TypeOK, ModelFilesType, commandVars, Goto, Fail, Move, GiveUp, ToAnswer, LoadingSteps
<1>2. CASE ToAnswer(p) /\ UNCHANGED <<line, input>>
  BY <1>2 DEF AtQuestion
<1>3. CASE Loading(p)
  <2>1. UNCHANGED <<command, line, input>> /\ step[p] \in LoadingSteps
    BY <1>3 DEF Loading, Load, Check, Get, Open, Fill, FillFails, Read, Copy
  <2>2. step'[p] \notin {"routing", "executing", "answering"}
    BY <1>3 DEF Loading, Load, Check, Get, Open, Fill, FillFails, Read, Copy,
       NextFile
  <2> QED BY <1>2, <2>1, <2>2
<1>4. CASE Begin(p)
  <2>1. command' = command /\ command[p] \in Commands
    BY <1>4 DEF Begin
  <2>2. \/ step'[p] \in {"failed", "resolving", "probing"}
        \/ step'[p] = "check" /\ command[p] # "ask"
    <3>1. CASE GiveUp(p, "input")
      BY <3>1
    <3>2. CASE StartLoading(p) /\ command[p] \in {"ingest", "ask-semantic", "serve"}
      BY <3>2 DEF StartLoading
    <3>3. CASE Move(p, "resolving") \/ Move(p, "probing")
      BY <3>3
    <3> QED BY <1>4, <2>1, <3>1, <3>2, <3>3 DEF Begin, Commands
  <2> QED BY <2>1, <2>2
<1>5. CASE AfterLoad(p)
  BY <1>2, <1>5 DEF AfterLoad
<1>6. CASE Register(p)
  BY <1>2, <1>6 DEF Register
<1>7. CASE Route(p)
  BY <1>2, <1>7 DEF Route
<1>8. CASE Probe(p) \/ Resolve(p) \/ EndOfInput(p) \/ ReadFails(p)
  BY <1>8 DEF Probe, Resolve, EndOfInput, ReadFails
<1>9. CASE SkipBlank(p) \/ Answer(p) \/ AnswerFails(p)
  BY <1>9 DEF SkipBlank, Reads, modelVars, Answer, AnswerFails
<1>10. CASE ReadQuestion(p)
  BY <1>10 DEF ReadQuestion, Reads
<1>11. CASE Kill(p)
  BY <1>11 DEF Kill
<1> QED
  BY <1>3, <1>4, <1>5, <1>6, <1>7, <1>8, <1>9, <1>10, <1>11 DEF Asking

(* The questions up to a line that is read are those before it and, if it  *)
(* is one, the line itself.                                                *)
LEMMA OneMore ==
  ASSUME NEW p, NEW n \in Nat \ {0}
  PROVE  Questions(p, n) =
            Questions(p, n - 1) \cup (IF input[p][n] \in Texts THEN {n} ELSE {})
BY DEF Questions

(* The answers printed remain those to the questions before the line. *)
LEMMA InOrderKept ==
  ASSUME OrderInv, NEW p \in Processes,
         Begin(p) \/ Asking(p) \/ Loading(p) \/ Kill(p)
  PROVE  AnswersInOrder'
<1> USE DEF OrderInv
<1>1. CASE UNCHANGED <<input, line, answered>>
  BY <1>1 DEF AnswersInOrder, Questions
<1>2. CASE SkipBlank(p)
  <2>1. input' = input /\ answered' = answered
    BY <1>2 DEF SkipBlank
  <2>2. /\ line'[p] = line[p] + 1 /\ line[p] <= Len(input[p])
        /\ input[p][line[p]] \notin Texts
    BY <1>2, CommandAssumption DEF SkipBlank, Reads, TypeOK
  <2>3. \A q \in Processes : q # p => line'[q] = line[q]
    BY <1>2 DEF SkipBlank, TypeOK
  <2>4. Questions(p, line'[p] - 1) = Questions(p, line[p] - 1)
    <3>1. line[p] \in Nat \ {0} /\ line'[p] - 1 = line[p]
      BY <2>2, Given
    <3>2. Questions(p, line[p]) = Questions(p, line[p] - 1) \cup {}
      BY <2>2, <3>1, OneMore
    <3> QED BY <3>1, <3>2
  <2>5. line'[p] <= Len(input[p]) + 1
    BY <2>2, Given
  <2> QED BY <2>1, <2>3, <2>4, <2>5 DEF AnswersInOrder, Questions
<1>3. CASE Answer(p)
  <2>1. input' = input
    BY <1>3 DEF Answer
  <2>2. line[p] <= Len(input[p]) /\ input[p][line[p]] \in Texts
    BY <1>3 DEF Answer, AtQuestion, ToAnswer
  <2>3. line'[p] = line[p] + 1 /\ answered'[p] = Append(answered[p], line[p])
    BY <1>3 DEF Answer, TypeOK
  <2>4. \A q \in Processes : q # p => line'[q] = line[q] /\ answered'[q] = answered[q]
    BY <1>3 DEF Answer, TypeOK
  <2>5. /\ answered[p] \in Seq(Nat)
        /\ {answered[p][i] : i \in DOMAIN answered[p]} = Questions(p, line[p] - 1)
    BY DEF AnswersInOrder, TypeOK
  <2>6. \A i \in DOMAIN answered[p] : answered[p][i] < line[p]
    <3>1. \A n \in Questions(p, line[p] - 1) : n < line[p]
      BY Given DEF Questions
    <3>2. \A i \in DOMAIN answered[p] : answered[p][i] \in Questions(p, line[p] - 1)
      BY <2>5
    <3> QED BY <3>1, <3>2
  <2>7. /\ DOMAIN answered'[p] = DOMAIN answered[p] \cup {Len(answered[p]) + 1}
        /\ \A i \in DOMAIN answered[p] : answered'[p][i] = answered[p][i] /\ i < Len(answered[p]) + 1
        /\ answered'[p][Len(answered[p]) + 1] = line[p]
    BY <2>3, <2>5
  <2>8. \A i, j \in DOMAIN answered'[p] : i < j => answered'[p][i] < answered'[p][j]
    BY <2>5, <2>6, <2>7 DEF AnswersInOrder
  <2>9. Questions(p, line'[p] - 1) = Questions(p, line[p] - 1) \cup {line[p]}
    <3>1. line[p] \in Nat \ {0} /\ line'[p] - 1 = line[p]
      BY <2>3, Given
    <3>2. Questions(p, line[p]) = Questions(p, line[p] - 1) \cup {line[p]}
      BY <2>2, <3>1, OneMore
    <3> QED BY <3>1, <3>2
  <2>10. {answered'[p][i] : i \in DOMAIN answered'[p]} = Questions(p, line'[p] - 1)
    BY <2>5, <2>7, <2>9
  <2>11. line'[p] <= Len(input[p]) + 1
    BY <2>2, <2>3, Given
  <2> QED BY <2>1, <2>4, <2>8, <2>10, <2>11 DEF AnswersInOrder, Questions
<1> QED
  BY <1>1, <1>2, <1>3
     DEF Begin, Asking, AfterLoad, Probe, Resolve, Register, EndOfInput, ReadFails, ReadQuestion,
         Route, AnswerFails, Loading, Kill, commandVars

(* The answers printed are those of the questions read so far, in order,   *)
(* for any input, whatever fails or is loaded in between.                  *)
THEOREM AnsweredInOrder == Spec => []AnswersInOrder
<1>1. Init => OrderInv
  <2> SUFFICES ASSUME Init PROVE OrderInv
    OBVIOUS
  <2>1. TypeOK
    BY InitTypes
  <2>2. AtQuestion
    BY DEF Init, InitModelFiles, AtQuestion, ToAnswer, LoadingSteps
  <2>3. \A p \in Processes : Questions(p, line[p] - 1) = {} /\ answered[p] = << >> /\ line[p] = 1
    <3> SUFFICES ASSUME NEW p \in Processes
                 PROVE  Questions(p, line[p] - 1) = {} /\ answered[p] = << >> /\ line[p] = 1
      OBVIOUS
    <3>1. answered[p] = << >> /\ line[p] = 1
      BY DEF Init
    <3>2. Questions(p, 0) = {}
      BY DEF Questions
    <3>3. line[p] - 1 = 0
      BY <3>1
    <3> QED BY <3>1, <3>2, <3>3
  <2>4. AnswersInOrder
    <3> SUFFICES ASSUME NEW p \in Processes
                 PROVE  /\ \A i, j \in DOMAIN answered[p] :
                              i < j => answered[p][i] < answered[p][j]
                        /\ line[p] <= Len(input[p]) + 1
                        /\ {answered[p][i] : i \in DOMAIN answered[p]} =
                              Questions(p, line[p] - 1)
      BY DEF AnswersInOrder
    <3>1. DOMAIN answered[p] = {}
      BY <2>3
    <3>2. line[p] <= Len(input[p]) + 1
      BY <2>1, <2>3, Given
    <3> QED BY <2>3, <3>1, <3>2
  <2> QED BY <2>1, <2>2, <2>4 DEF OrderInv
<1>2. OrderInv /\ [Next]_vars => OrderInv'
  <2> SUFFICES ASSUME OrderInv, [Next]_vars PROVE OrderInv'
    OBVIOUS
  <2>1. TypeOK'
    BY TypesKept DEF OrderInv
  <2>2. CASE UNCHANGED vars
    BY <2>1, <2>2 DEF OrderInv, vars, modelVars, commandVars, AtQuestion,
       ToAnswer,
                      AnswersInOrder, Questions
  <2>3. CASE Next
    BY <2>1, <2>3, AtQuestionKept, InOrderKept DEF OrderInv, Next
  <2> QED BY <2>2, <2>3
<1>3. OrderInv => AnswersInOrder
  BY DEF OrderInv
<1> QED BY <1>1, <1>2, <1>3, PTL DEF Spec

-----------------------------------------------------------------------------
(* How far a command is from its end: the lines it has not read, and what  *)
(* it has to do about the one at hand.  A model is fetched file by file,   *)
(* four steps for each, and then read.  `ask` prepares what a question     *)
(* needs within its loop, the other commands before it.                    *)
Working == Steps \ (Over \cup {"idle"})

LinesAhead(p) == Len(input[p]) + 1 - line[p]

Way(at, f) ==
    CASE at = "check" -> 5 * Parts - 4 * f + 6
      [] at = "get" -> 5 * Parts - 4 * f + 5
      [] at = "open" -> 5 * Parts - 4 * f + 4
      [] at = "fill" -> 5 * Parts - 4 * f + 3
      [] at = "read" -> Parts - f + 2
      [] at = "copy" -> 1
      [] OTHER -> 0

Rest(name, at, f) ==
    LET ask == name = "ask"
    IN  CASE at \in LoadingSteps -> Way(at, f) + (IF ask THEN 2 ELSE 5)
          [] at = "reading" -> IF ask THEN 5 * Parts + 9 ELSE 2
          [] at = "routing" -> 5 * Parts + 8
          [] at = "registering" -> IF ask THEN 2 ELSE 3
          [] at = "resolving" -> IF ask THEN 5 * Parts + 10 ELSE 4
          [] OTHER -> 1

ToDo(p) == Rest(command[p], step[p], file[p])

Closer(p) ==
    \/ step'[p] \in Over
    \/ LinesAhead(p)' < LinesAhead(p)
    \/ LinesAhead(p)' = LinesAhead(p) /\ ToDo(p)' < ToDo(p)

LEMMA Ways ==
  ASSUME NEW f \in 1 .. Parts, NEW at
  PROVE  Way(at, f) \in 0 .. 5 * Parts + 2 /\ Way("loaded", f) = 0
<1> Parts \in Nat \ {0}
  BY ModelFilesAssumption
<1> QED BY DEF Way

LEMMA RestRange ==
  ASSUME NEW f \in 1 .. Parts, NEW name, NEW at
  PROVE  Rest(name, at, f) \in 1 .. 5 * Parts + 10
<1>1. Way(at, f) \in 0 .. 5 * Parts + 2 /\ Parts \in Nat \ {0}
  BY Ways, ModelFilesAssumption
<1> QED BY <1>1 DEF Rest

(* What the steps of a command leave to do, in the order they are taken. *)
LEMMA RestFalls ==
  ASSUME NEW name, NEW f \in 1 .. Parts
  PROVE  /\ \A at \in {"registering", "executing", "answering"} :
               Rest(name, at, f) < Rest(name, "routing", f)
         /\ Rest(name, "check", 1) < Rest(name, "routing", 1)
         /\ \A at \in {"registering", "reading"} :
               Rest(name, at, f) < Rest(name, "resolving", f)
         /\ \A at \in {"executing", "answering"} :
               Rest(name, at, f) < Rest(name, "reading", f)
         /\ Rest(name, "executing", f) < Rest(name, "registering", f)
         /\ Rest(name, "answering", f) < Rest(name, "loaded", f)
         /\ name = "ask" => Rest(name, "routing", f) < Rest(name, "reading", f)
         /\ name # "ask" =>
               /\ Rest(name, "registering", f) < Rest(name, "loaded", f)
               /\ Rest(name, "resolving", f) < Rest(name, "loaded", f)
               /\ Rest(name, "reading", f) < Rest(name, "registering", f)
<1>1. /\ Parts \in Nat \ {0} /\ Way("loaded", f) = 0
      /\ Way("check", 1) \in 0 .. 5 * Parts + 2
  BY Ways, ModelFilesAssumption
<1> QED BY <1>1 DEF Rest, LoadingSteps

LEMMA ToDoRange ==
  ASSUME TypeOK, AnswersInOrder, NEW p \in Processes
  PROVE  /\ ToDo(p) \in 1 .. 5 * Parts + 10
         /\ LinesAhead(p) \in 0 .. Len(input[p])
<1>1. file[p] \in 1 .. Parts
  BY DEF TypeOK, ModelFilesType, Files
<1>2. ToDo(p) \in 1 .. 5 * Parts + 10
  BY <1>1, RestRange DEF ToDo
<1>3. line[p] \in Nat /\ line[p] >= 1 /\ line[p] <= Len(input[p]) + 1
  BY Given DEF AnswersInOrder
<1>4. LinesAhead(p) \in 0 .. Len(input[p])
  BY <1>3, Given DEF LinesAhead
<1> QED BY <1>2, <1>4

(* Each step of a start leads to one with a shorter way, or fails. *)
LEMMA WithFile ==
  ASSUME NEW f \in 1 .. Parts
  PROVE  /\ Way("get", f) < Way("check", f)
         /\ Way("open", f) < Way("get", f)
         /\ Way("fill", f) < Way("open", f)
         /\ Way("loaded", f) < Way("copy", f)
<1> Parts \in Nat \ {0}
  BY ModelFilesAssumption
<1> QED BY DEF Way

LEMMA ToNextFile ==
  ASSUME NEW f \in 1 .. Parts, NEW g \in 1 .. Parts,
         f # Parts /\ g = f + 1
  PROVE  /\ Way("check", g) < Way("check", f)
         /\ Way("check", g) < Way("fill", f)
         /\ Way("read", g) < Way("read", f)
<1> Parts \in Nat \ {0}
  BY ModelFilesAssumption
<1> QED BY DEF Way

LEMMA ToFirstFile ==
  /\ Way("read", 1) < Way("check", Parts)
  /\ Way("read", 1) < Way("fill", Parts)
  /\ Way("copy", 1) < Way("read", Parts)
<1> Parts \in Nat \ {0}
  BY ModelFilesAssumption
<1> QED BY DEF Way

LEMMA LoadingAhead ==
  ASSUME TypeOK, NEW p \in Processes, Loading(p)
  PROVE  \/ step'[p] \in Over
         \/ /\ step'[p] \in LoadingSteps /\ file'[p] \in 1 .. Parts
            /\ Way(step'[p], file'[p]) < Way(step[p], file[p])
<1>1. file[p] \in 1 .. Parts /\ Parts \in Nat \ {0}
  BY ModelFilesAssumption DEF Files, TypeOK, ModelFilesType
<1>2. \/ step'[p] \in Over
      \/ /\ file'[p] = file[p]
         /\ \/ step[p] = "check" /\ step'[p] = "get"
            \/ step[p] = "get" /\ step'[p] = "open"
            \/ step[p] = "open" /\ step'[p] = "fill"
            \/ step[p] = "copy" /\ step'[p] = "loaded"
      \/ /\ file[p] # Parts /\ file'[p] = file[p] + 1
         /\ \/ step[p] \in {"check", "fill"} /\ step'[p] = "check"
            \/ step[p] = "read" /\ step'[p] = "read"
      \/ /\ file[p] = Parts /\ file'[p] = 1
         /\ \/ step[p] \in {"check", "fill"} /\ step'[p] = "read"
            \/ step[p] = "read" /\ step'[p] = "copy"
  <2> USE DEF TypeOK, ModelFilesType, Goto, Fail
  <2>1. CASE Check(p) \/ Fill(p)
    BY <1>1, <2>1 DEF Check, Fill, NextFile
  <2>2. CASE Get(p) \/ Open(p) \/ Copy(p) \/ FillFails(p)
    BY <2>2 DEF Get, Open, Copy, FillFails, Over
  <2>3. CASE Read(p)
    BY <1>1, <2>3 DEF Read, NextFile, Over
  <2> QED BY <2>1, <2>2, <2>3 DEF Loading, Load
<1>3. step'[p] \in Over \/ (step'[p] \in LoadingSteps /\ file'[p] \in 1 .. Parts)
  BY <1>1, <1>2 DEF LoadingSteps
<1>4. CASE file'[p] = file[p] /\ step'[p] \notin Over
  BY <1>1, <1>2, <1>3, <1>4, WithFile, ToFirstFile
<1>5. CASE file'[p] = file[p] + 1 /\ step'[p] \notin Over
  BY <1>1, <1>2, <1>3, <1>5, WithFile, ToNextFile, ToFirstFile
<1>6. CASE file[p] = Parts /\ file'[p] = 1 /\ step'[p] \notin Over
  BY <1>1, <1>2, <1>3, <1>6, WithFile, ToFirstFile
<1> QED BY <1>2, <1>3, <1>4, <1>5, <1>6

(* So it gets closer to its model, whatever it has to do after that. *)
LEMMA LoadingCloser ==
  ASSUME TypeOK, NEW p \in Processes, Loading(p)
  PROVE  Closer(p)
<1>1. /\ file[p] \in 1 .. Parts /\ Parts \in Nat \ {0}
      /\ line' = line /\ input' = input /\ command' = command
  BY ModelFilesAssumption DEF TypeOK, ModelFilesType, Files, Loading, commandVars
<1>2. LinesAhead(p)' = LinesAhead(p)
  BY <1>1 DEF LinesAhead
<1>3. CASE /\ step'[p] \in LoadingSteps /\ file'[p] \in 1 .. Parts
           /\ Way(step'[p], file'[p]) < Way(step[p], file[p])
  <2>1. step[p] \in LoadingSteps
    BY DEF Loading, Load, Check, Get, Open, Fill, FillFails, Read, Copy, LoadingSteps
  <2>2. Way(step[p], file[p]) \in Int /\ Way(step'[p], file'[p]) \in Int
    BY <1>1, <1>3, Ways
  <2> DEFINE after == IF command[p] = "ask" THEN 2 ELSE 5
  <2>3. ToDo(p) = Way(step[p], file[p]) + after
    BY <2>1 DEF ToDo, Rest, LoadingSteps
  <2>4. ToDo(p)' = Way(step'[p], file'[p]) + after
    BY <1>1, <1>3 DEF ToDo, Rest, LoadingSteps
  <2>5. ToDo(p)' < ToDo(p)
    BY <1>3, <2>2, <2>3, <2>4
  <2> QED BY <1>2, <2>5 DEF Closer
<1> QED BY <1>3, LoadingAhead DEF Closer

(* So does a command with each step that is not part of a start. *)
LEMMA AskingCloser ==
  ASSUME TypeOK, Rewound, NEW p \in Processes, Asking(p)
  PROVE  Closer(p)
<1>1. /\ file[p] \in 1 .. Parts /\ file' = file
      /\ input' = input /\ command' = command
  BY DEF TypeOK, ModelFilesType, Files, Asking, AfterLoad, Probe, Resolve, Register,
         EndOfInput, SkipBlank, ReadFails, ReadQuestion, Reads, Route, Answer, AnswerFails,
         Move, GiveUp, Goto, Fail, StartLoading, files, modelVars, commandVars
<1>2. ASSUME NEW next, step' = [step EXCEPT ![p] = next], line' = line,
             \/ next \in Over
             \/ Rest(command[p], next, file[p]) < Rest(command[p], step[p], file[p])
      PROVE  Closer(p)
  <2>1. step'[p] = next
    BY <1>2 DEF TypeOK, ModelFilesType
  <2>2. LinesAhead(p)' = LinesAhead(p) /\ ToDo(p)' = Rest(command[p], next, file[p])
    BY <1>1, <1>2, <2>1 DEF LinesAhead, ToDo
  <2> QED BY <1>2, <2>1, <2>2 DEF Closer, ToDo
<1>3. ASSUME line' = [line EXCEPT ![p] = line[p] + 1]
      PROVE  Closer(p)
  <2>1. line'[p] = line[p] + 1 /\ line[p] \in Nat /\ Len(input[p]) \in Nat
    BY <1>3, Given DEF TypeOK
  <2>2. LinesAhead(p)' < LinesAhead(p)
    BY <1>1, <2>1 DEF LinesAhead
  <2> QED BY <2>2 DEF Closer
<1> USE DEF Move, GiveUp, Goto, Fail, commandVars
<1>4. CASE SkipBlank(p) \/ Answer(p)
  BY <1>3, <1>4 DEF SkipBlank, Answer
<1>5. CASE Probe(p) \/ EndOfInput(p) \/ ReadFails(p) \/ AnswerFails(p)
  BY <1>2, <1>5 DEF Probe, EndOfInput, ReadFails, AnswerFails, Over
<1>6. CASE AfterLoad(p)
  BY <1>1, <1>2, <1>6, RestFalls DEF AfterLoad, Over
<1>7. CASE Resolve(p)
  BY <1>1, <1>2, <1>7, RestFalls DEF Resolve, Over
<1>8. CASE Register(p)
  BY <1>1, <1>2, <1>8, RestFalls DEF Register, Over
<1>9. CASE ReadQuestion(p)
  BY <1>1, <1>2, <1>9, RestFalls DEF ReadQuestion, Reads, Over
<1>10. CASE Route(p)
  <2>1. file[p] = 1
    BY <1>10 DEF Rewound, Route, Over
  <2> QED BY <1>1, <1>2, <1>10, <2>1, RestFalls DEF Route, StartLoading, Over
<1> QED BY <1>4, <1>5, <1>6, <1>7, <1>8, <1>9, <1>10 DEF Asking

(* Other processes do not throw a command back. *)
LEMMA CommandsCloser ==
  ASSUME TypeOK, Rewound, NEW p \in Processes, step[p] \in Working, [Next]_vars
  PROVE  UNCHANGED <<step[p], file[p], line[p]>> \/ Closer(p)
<1>1. CASE UNCHANGED vars
  BY <1>1 DEF vars, modelVars, commandVars
<1>2. CASE Asking(p) \/ Loading(p)
  BY <1>2, AskingCloser, LoadingCloser
<1>3. CASE Kill(p)
  BY <1>3 DEF Kill, Goto, Over, Closer, TypeOK, ModelFilesType
<1>4. ~ Begin(p)
  BY DEF Begin, Working
<1>5. ASSUME NEW q \in Processes \ {p}, Begin(q) \/ Asking(q) \/ Loading(q) \/ Kill(q)
      PROVE  UNCHANGED <<step[p], file[p], line[p]>>
  <2>1. line'[p] = line[p]
    <3>1. CASE SkipBlank(q) \/ Answer(q)
      BY <3>1 DEF SkipBlank, Answer, TypeOK
    <3>2. CASE UNCHANGED line
      BY <3>2
    <3> QED BY <1>5, <3>1, <3>2
          DEF Begin, Asking, AfterLoad, Probe, Resolve, Register, EndOfInput, ReadFails,
              ReadQuestion, Route, AnswerFails, Loading, Kill, commandVars
  <2>2. CASE Begin(q) \/ Asking(q)
    BY <2>1, <2>2, QuietSteps DEF Quiet, TypeOK, ModelFilesType
  <2>3. CASE Kill(q)
    BY <2>1, <2>3 DEF Kill, Goto, TypeOK, ModelFilesType
  <2>4. CASE Loading(q)
    BY <2>1, <2>4
       DEF Loading, Load, Check, Get, Open, Fill, FillFails, Read, Copy, NextFile, Goto,
           Fail, TypeOK, ModelFilesType
  <2> QED BY <1>5, <2>2, <2>3, <2>4
<1> QED BY <1>1, <1>2, <1>3, <1>4, <1>5 DEF Next

(* Questions run out: between one line of the input and the next a command *)
(* takes at most 5 * Parts + 10 steps of its own, downloads included, no   *)
(* line is read twice, and no other process throws it back; it therefore   *)
(* ends unless one of its steps is never taken, as the download of a       *)
(* server that does not answer or SQL that has no end.  That the others    *)
(* are taken is fairness: CommandsEnd is left to the runs.                 *)
THEOREM QuestionsRunOut ==
  Spec =>
      /\ [](\A p \in Processes :
               /\ LinesAhead(p) \in 0 .. Len(input[p])
               /\ ToDo(p) \in 1 .. 5 * Parts + 10)
      /\ [][\A p \in Processes :
               step[p] \in Working =>
                   /\ Loading(p) \/ Asking(p) => Closer(p)
                   /\ UNCHANGED <<step[p], file[p], line[p]>> \/ Closer(p)]_vars
<1>1. TypeOK /\ AnswersInOrder =>
         \A p \in Processes :
            /\ LinesAhead(p) \in 0 .. Len(input[p])
            /\ ToDo(p) \in 1 .. 5 * Parts + 10
  BY ToDoRange
<1>2. FilesInv => TypeOK /\ Rewound
  BY DEF FilesInv
<1>3. TypeOK /\ Rewound /\ [Next]_vars =>
         [\A p \in Processes :
            step[p] \in Working =>
                /\ Loading(p) \/ Asking(p) => Closer(p)
                /\ UNCHANGED <<step[p], file[p], line[p]>> \/ Closer(p)]_vars
  BY LoadingCloser, AskingCloser, CommandsCloser
<1> QED BY <1>1, <1>2, <1>3, FilesAlways, AnsweredInOrder, PTL DEF Spec
=============================================================================
