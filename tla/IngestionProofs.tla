--------------------------- MODULE IngestionProofs ---------------------------
(***************************************************************************)
(* Proofs about Ingestion, for any number of loaders, any files, any size  *)
(* of batches and any number of runs.  The inductive invariant is          *)
(* IngestionInv.  TwiceOnlyIfOpenTogether needs that a batch holds no      *)
(* customer twice (Distinct) and what a handle misses of the table (Held): *)
(* only customers inserted while it was open.  DoneIsComplete needs what a *)
(* run has achieved so far (Progress): the lines before the current batch  *)
(* are in the table, and those of the batch are in the table or about to   *)
(* be inserted, unless the table was dropped since the run began.          *)
(***************************************************************************)
EXTENDS Ingestion, DataLemmas

Kunnr(l, i) == Number(Text(l, i))

Pending == {"embed", "insert", "merge", "create"}
Reading == {"read", "lookup", "index", "done"} \cup Pending

DistinctOf(l) == \A i, j \in new[l] : Kunnr(l, i) = Kunnr(l, j) => i = j

Distinct == \A l \in Loaders : DistinctOf(l)

ProgressOf(l) ==
    /\ seen[l] <= drops
    /\ pc[l] \in {"drop", "open"} => line[l] = 1
    /\ pc[l] \in {"index", "done"} => line[l] > Length(l)
    /\ pc[l] \in Reading /\ seen[l] = drops =>
          \A i \in 1 .. Length(l) :
             i < line[l] => Kunnr(l, i) \in Numbers(table)
    /\ pc[l] \in Pending /\ seen[l] = drops =>
          \A i \in BatchLines(l) :
             \/ Kunnr(l, i) \in Numbers(table)
             \/ \E j \in new[l] : Kunnr(l, j) = Kunnr(l, i)

Progress == \A l \in Loaders : ProgressOf(l)

(* A handle of the present table has seen no customer that is not there,   *)
(* and rows of customers it has not seen were inserted while it was open.  *)
HeldOf(l) ==
    /\ opened[l].drops <= drops
    /\ pc[l] = "merge" /\ opened[l].drops = drops =>
          /\ exists
          /\ opened[l].customers \subseteq Numbers(table)
          /\ \A x \in table : x.kunnr \in opened[l].customers \/ l \in x.during

Held == \A l \in Loaders : HeldOf(l)

IngestionInv ==
    /\ TypeOK
    /\ TwiceOnlyIfOpenTogether
    /\ OnlyUnnumberedEmbeddedAgain
    /\ Distinct
    /\ Progress
    /\ Held

-----------------------------------------------------------------------------
LEMMA Lengths ==
  ASSUME TypeOK, NEW l \in Loaders
  PROVE  /\ Length(l) \in Nat
         /\ line[l] \in Nat \ {0}
         /\ \A i : i \in BatchLines(l) <=>
               i \in 1 .. Length(l) /\ line[l] <= i /\ i < line[l] + BatchSize
<1>1. file[l] \in DOMAIN Files /\ line[l] \in Nat \ {0}
  BY DEF TypeOK
<1>2. Length(l) \in Nat
  BY <1>1, IngestionAssumption, LenProperties DEF Length
<1>3. BatchSize \in Nat \ {0}
  BY IngestionAssumption
<1> DEFINE last == line[l] + BatchSize - 1
           T == {last, Length(l)}
<1>4. T \subseteq Nat /\ T # {}
  BY <1>1, <1>2, <1>3
<1>5. Min(T) \in T /\ Min(T) <= last /\ Min(T) <= Length(l)
  BY <1>4, MinOfNaturals
<1>6. BatchLines(l) = line[l] .. Min(T)
  BY DEF BatchLines
<1> QED BY <1>1, <1>2, <1>3, <1>5, <1>6

(* The rows about to be inserted are those of the new lines. *)
LEMMA NewNumbers ==
  ASSUME NEW l \in Loaders
  PROVE  /\ \A i : /\ Row(l, i).kunnr = Kunnr(l, i)
                   /\ Row(l, i).by = l /\ Row(l, i).during = Holders(l)
         /\ Numbers(NewRows(l)) = {Kunnr(l, i) : i \in new[l]}
<1>1. \A i : /\ Row(l, i).kunnr = Kunnr(l, i)
             /\ Row(l, i).by = l /\ Row(l, i).during = Holders(l)
  BY DEF Row, Kunnr
<1>2. Numbers(NewRows(l)) = {Row(l, i).kunnr : i \in new[l]}
  <2> HIDE DEF Row
  <2> QED BY DEF Numbers, NewRows
<1>3. {Row(l, i).kunnr : i \in new[l]} = {Kunnr(l, i) : i \in new[l]}
  BY <1>1
<1> QED BY <1>1, <1>2, <1>3

LEMMA RowsAreLines ==
  ASSUME TypeOK, NEW l \in Loaders
  PROVE  \A i \in 1 .. Length(l) : Row(l, i) \in AllLines
<1>1. file[l] \in DOMAIN Files
  BY DEF TypeOK
<1>2. DOMAIN Files[file[l]] = 1 .. Length(l)
  BY <1>1, IngestionAssumption, LenProperties DEF Length
<1>3. Holders(l) \in SUBSET Loaders
  BY DEF Holders
<1>4. \A i \in DOMAIN Files[file[l]] :
         [kunnr |-> Number(Files[file[l]][i]), file |-> file[l], line |-> i,
          by |-> l, during |-> Holders(l)] \in AllLines
  BY <1>1, <1>3 DEF AllLines
<1> QED BY <1>2, <1>4 DEF Row, Text

(* Deduplication keeps the first line of every customer it does not know.  *)
LEMMA NewLinesProperties ==
  ASSUME TypeOK, NEW l \in Loaders, NEW existing
  PROVE  /\ NewLines(l, existing) \subseteq BatchLines(l)
         /\ \A i, j \in NewLines(l, existing) : Kunnr(l, i) = Kunnr(l, j) => i = j
         /\ \A i \in BatchLines(l) :
               \/ Kunnr(l, i) \in existing
               \/ \E j \in NewLines(l, existing) : Kunnr(l, j) = Kunnr(l, i)
<1>0. \A i \in BatchLines(l) : i \in Nat
  BY Lengths
<1>1. NewLines(l, existing) \subseteq BatchLines(l)
  BY DEF NewLines
<1>2. ASSUME NEW i \in NewLines(l, existing), NEW j \in NewLines(l, existing),
             Kunnr(l, i) = Kunnr(l, j)
      PROVE  i = j
  <2>1. ~ (j < i) /\ ~ (i < j)
    BY <1>1, <1>2 DEF NewLines, Kunnr
  <2> QED BY <1>0, <1>1, <2>1
<1>3. ASSUME NEW i \in BatchLines(l), Kunnr(l, i) \notin existing
      PROVE  \E j \in NewLines(l, existing) : Kunnr(l, j) = Kunnr(l, i)
  <2> DEFINE T == {j \in BatchLines(l) : Kunnr(l, j) = Kunnr(l, i)}
  <2>1. T \subseteq Nat /\ T # {}
    BY <1>0
  <2>2. T \subseteq BatchLines(l) /\ \A j \in T : Kunnr(l, j) = Kunnr(l, i)
    OBVIOUS
  <2>3. \A j \in BatchLines(l) : Kunnr(l, j) = Kunnr(l, i) => j \in T
    OBVIOUS
  <2> HIDE DEF T
  <2>4. Min(T) \in T /\ \A j \in T : Min(T) <= j
    BY <2>1, MinOfNaturals
  <2>5. \A j \in BatchLines(l) : j < Min(T) => Kunnr(l, j) # Kunnr(l, Min(T))
    <3> SUFFICES ASSUME NEW j \in BatchLines(l), j < Min(T),
                        Kunnr(l, j) = Kunnr(l, Min(T))
                 PROVE  FALSE
      OBVIOUS
    <3>1. j \in T
      BY <2>2, <2>3, <2>4
    <3>2. j \in Nat /\ Min(T) \in Nat /\ Min(T) <= j
      BY <2>1, <2>4, <3>1
    <3> HIDE DEF Min
    <3> QED BY <3>2
  <2>6. Kunnr(l, Min(T)) = Kunnr(l, i) /\ Min(T) \in BatchLines(l)
    BY <2>2, <2>4
  <2>7. Min(T) \in NewLines(l, existing)
    BY <1>3, <2>5, <2>6 DEF NewLines, Kunnr
  <2> QED BY <2>6, <2>7
<1> QED BY <1>1, <1>2, <1>3

(* The invariant holds at the start: there is no table and no run.         *)
LEMMA InitIngestionInv == Init => IngestionInv
<1> SUFFICES ASSUME Init PROVE IngestionInv
  OBVIOUS
<1>1. TypeOK
  <2>1. /\ file \in [Loaders -> DOMAIN Files]
        /\ pc = [l \in Loaders |-> "idle"]
        /\ line = [l \in Loaders |-> 1]
        /\ new = [l \in Loaders |-> {}]
        /\ exists = FALSE /\ table = {} /\ wasted = {} /\ drops = 0
        /\ runs = [l \in Loaders |-> 0] /\ seen = [l \in Loaders |-> 0]
        /\ opened = [l \in Loaders |-> [drops |-> 0, customers |-> {}]]
    BY DEF Init
  <2>2. runs \in [Loaders -> 0 .. MaxRuns]
    BY <2>1, IngestionAssumption
  <2>3. /\ line \in [Loaders -> Nat \ {0}]
        /\ new \in [Loaders -> SUBSET Nat]
        /\ \A l \in Loaders : new[l] \subseteq 1 .. Length(l)
        /\ seen \in [Loaders -> Nat] /\ drops \in Nat
        /\ opened \in [Loaders -> [drops : Nat, customers : SUBSET Numbers(AllLines)]]
    BY <2>1
  <2>4. /\ exists \in BOOLEAN /\ table \subseteq AllLines
        /\ wasted \subseteq Numbers(AllLines)
    BY <2>1
  <2> QED BY <2>1, <2>2, <2>3, <2>4 DEF TypeOK, Stopped
<1>2. TwiceOnlyIfOpenTogether /\ Distinct /\ OnlyUnnumberedEmbeddedAgain
  BY DEF Init, TwiceOnlyIfOpenTogether, Distinct, DistinctOf,
         OnlyUnnumberedEmbeddedAgain
<1>3. Progress
  BY DEF Init, Progress, ProgressOf, Reading, Pending
<1>4. Held
  BY DEF Init, Held, HeldOf
<1> QED BY <1>1, <1>2, <1>3, <1>4 DEF IngestionInv

(* What a loader does leaves the progress of the others as it was, whether *)
(* rows are added or the table is dropped.                                 *)
LEMMA OthersKeep ==
  ASSUME IngestionInv, NEW l \in Loaders,
         /\ pc'[l] = pc[l] /\ file'[l] = file[l] /\ line'[l] = line[l]
         /\ new'[l] = new[l] /\ seen'[l] = seen[l] /\ opened'[l] = opened[l],
         \/ /\ drops' = drops /\ table \subseteq table' /\ (exists => exists')
            /\ pc[l] = "merge" /\ opened[l].drops = drops =>
                  \A x \in table' \ table : l \in x.during
         \/ drops' = drops + 1
  PROVE  DistinctOf(l)' /\ ProgressOf(l)' /\ HeldOf(l)'
<1>1. /\ Length(l)' = Length(l)
      /\ \A i : Kunnr(l, i)' = Kunnr(l, i)
      /\ BatchLines(l)' = BatchLines(l)
  BY DEF Length, Kunnr, Text, BatchLines
<1>2. DistinctOf(l)'
  BY <1>1 DEF IngestionInv, Distinct, DistinctOf
<1>3. /\ ProgressOf(l) /\ HeldOf(l)
      /\ drops \in Nat /\ seen[l] \in Nat /\ opened[l].drops \in Nat
  BY DEF IngestionInv, Progress, Held, TypeOK
<1>4. CASE /\ drops' = drops /\ table \subseteq table' /\ (exists => exists')
           /\ pc[l] = "merge" /\ opened[l].drops = drops =>
                 \A x \in table' \ table : l \in x.during
  <2>1. \A k : k \in Numbers(table) => k \in Numbers(table)'
    BY <1>4 DEF Numbers
  <2>2. /\ seen'[l] = seen[l] /\ drops' = drops
        /\ pc'[l] = pc[l] /\ line'[l] = line[l] /\ new'[l] = new[l]
    BY <1>4
  <2>3. ASSUME pc[l] \in Reading /\ seen[l] = drops,
               NEW i \in 1 .. Length(l), i < line[l]
        PROVE  Kunnr(l, i) \in Numbers(table)'
    BY <1>3, <2>1, <2>3 DEF ProgressOf
  <2>4. ASSUME pc[l] \in Pending /\ seen[l] = drops, NEW i \in BatchLines(l)
        PROVE  \/ Kunnr(l, i) \in Numbers(table)'
               \/ \E j \in new[l] : Kunnr(l, j) = Kunnr(l, i)
    BY <1>3, <2>1, <2>4 DEF ProgressOf
  <2>5. /\ seen[l] <= drops
        /\ pc[l] \in {"drop", "open"} => line[l] = 1
        /\ pc[l] \in {"index", "done"} => line[l] > Length(l)
    BY <1>3 DEF ProgressOf
  <2>6. ProgressOf(l)'
    BY <1>1, <2>2, <2>3, <2>4, <2>5 DEF ProgressOf
  <2>7. HeldOf(l)'
    <3>1. opened[l].drops <= drops
      BY <1>3 DEF HeldOf
    <3>2. ASSUME pc[l] = "merge", opened[l].drops = drops
          PROVE  /\ exists'
                 /\ opened[l].customers \subseteq Numbers(table)'
                 /\ \A x \in table' : x.kunnr \in opened[l].customers \/ l \in x.during
      BY <1>3, <1>4, <2>1, <3>2 DEF HeldOf
    <3> QED BY <1>4, <2>2, <3>1, <3>2 DEF HeldOf
  <2> QED BY <1>2, <2>6, <2>7
<1>5. CASE drops' = drops + 1
  <2>1. seen'[l] <= drops' /\ seen'[l] # drops'
    BY <1>3, <1>5 DEF ProgressOf
  <2>2. pc'[l] = pc[l] /\ line'[l] = line[l]
    OBVIOUS
  <2>3. /\ pc[l] \in {"drop", "open"} => line[l] = 1
        /\ pc[l] \in {"index", "done"} => line[l] > Length(l)
    BY <1>3 DEF ProgressOf
  <2>4. opened'[l].drops <= drops' /\ opened'[l].drops # drops'
    BY <1>3, <1>5 DEF HeldOf
  <2>5. HeldOf(l)'
    BY <2>4 DEF HeldOf
  <2> QED BY <1>1, <1>2, <2>1, <2>2, <2>3, <2>5 DEF ProgressOf
<1> QED BY <1>4, <1>5

(* So it is enough to look at the loader that moves. *)
LEMMA OneMoves ==
  ASSUME IngestionInv, NEW l \in Loaders,
         \A m \in Loaders \ {l} :
            /\ pc'[m] = pc[m] /\ file'[m] = file[m] /\ line'[m] = line[m]
            /\ new'[m] = new[m] /\ seen'[m] = seen[m] /\ opened'[m] = opened[m],
         \/ /\ drops' = drops /\ table \subseteq table' /\ (exists => exists')
            /\ \A x \in table' \ table : Holders(l) \subseteq x.during
         \/ drops' = drops + 1,
         TypeOK', TwiceOnlyIfOpenTogether', OnlyUnnumberedEmbeddedAgain',
         DistinctOf(l)', ProgressOf(l)', HeldOf(l)'
  PROVE  IngestionInv'
<1>0. \A m \in Loaders \ {l} :
         pc[m] = "merge" /\ opened[m].drops = drops => m \in Holders(l)
  BY DEF Holders
<1>1. ASSUME NEW m \in Loaders \ {l} PROVE DistinctOf(m)' /\ ProgressOf(m)' /\ HeldOf(m)'
  <2>1. \/ /\ drops' = drops /\ table \subseteq table' /\ (exists => exists')
           /\ pc[m] = "merge" /\ opened[m].drops = drops =>
                 \A x \in table' \ table : m \in x.during
        \/ drops' = drops + 1
    BY <1>0
  <2> QED BY <2>1, OthersKeep
<1>2. \A m \in Loaders : DistinctOf(m)' /\ ProgressOf(m)' /\ HeldOf(m)'
  BY <1>1
<1>3. Distinct' /\ Progress' /\ Held'
  BY <1>2 DEF Distinct, Progress, Held
<1> QED BY <1>3 DEF IngestionInv

(* The steps that only move a loader on, or stop it. *)
LEMMA Moving ==
  ASSUME IngestionInv, NEW l \in Loaders,
         NEW next \in {"open", "lookup", "embed", "insert", "create", "index", "done",
                       "failed", "crashed"},
         GoTo(l, next), UNCHANGED <<loader, exists, table, drops, wasted>>,
         next = "open" => pc[l] = "drop",
         next \in Reading => pc[l] \in Reading,
         next \in Pending => pc[l] \in Pending,
         next \in {"index", "done"} => line[l] > Length(l)
  PROVE  IngestionInv'
<1>1. /\ file' = file /\ line' = line /\ new' = new /\ runs' = runs
      /\ seen' = seen /\ exists' = exists /\ table' = table /\ drops' = drops
      /\ opened' = opened /\ wasted' = wasted /\ pc' = [pc EXCEPT ![l] = next]
  BY DEF loader, GoTo
<1>2. /\ pc'[l] = next
      /\ \A m \in Loaders \ {l} : pc'[m] = pc[m]
  BY <1>1 DEF IngestionInv, TypeOK
<1>3. TypeOK'
  <2>1. pc' \in [Loaders -> Stopped \cup {"drop", "open", "read", "lookup", "embed",
                                          "insert", "merge", "create", "index"}]
    BY <1>1 DEF IngestionInv, TypeOK, Stopped
  <2>2. \A m : Length(m)' = Length(m)
    BY <1>1 DEF Length
  <2>3. AllLines' = AllLines
    BY DEF AllLines
  <2> QED BY <1>1, <2>1, <2>2, <2>3 DEF IngestionInv, TypeOK, Numbers
<1>4. TwiceOnlyIfOpenTogether' /\ OnlyUnnumberedEmbeddedAgain'
  BY <1>1 DEF IngestionInv, TwiceOnlyIfOpenTogether, OnlyUnnumberedEmbeddedAgain
<1>5. /\ Length(l)' = Length(l)
      /\ \A i : Kunnr(l, i)' = Kunnr(l, i)
      /\ BatchLines(l)' = BatchLines(l)
  BY <1>1 DEF Length, Kunnr, Text, BatchLines
<1>6. DistinctOf(l)'
  BY <1>1, <1>5 DEF IngestionInv, Distinct, DistinctOf
<1>7. ProgressOf(l)'
  <2>1. ProgressOf(l)
    BY DEF IngestionInv, Progress
  <2> QED BY <1>1, <1>2, <1>5, <2>1 DEF ProgressOf, Numbers
<1>8. HeldOf(l)'
  BY <1>1, <1>2 DEF IngestionInv, Held, HeldOf
<1> QED BY <1>1, <1>2, <1>3, <1>4, <1>6, <1>7, <1>8, OneMoves

(* Going on to the next batch, when the lines of this one are in the table *)
(* by now.                                                                 *)
LEMMA Advancing ==
  ASSUME IngestionInv, NEW l \in Loaders, pc[l] \in {"lookup", "merge", "create"},
         NextBatch(l), UNCHANGED <<file, opened, runs, seen, drops>>,
         new' \in [Loaders -> SUBSET Nat], new'[l] \subseteq 1 .. Length(l),
         \A m \in Loaders \ {l} : new'[m] = new[m],
         DistinctOf(l)',
         exists' \in BOOLEAN, ~ exists' => table' = {}, exists => exists',
         table \subseteq table', table' \subseteq AllLines,
         \A x \in table' \ table : Holders(l) \subseteq x.during,
         wasted' \subseteq Numbers(AllLines),
         TwiceOnlyIfOpenTogether', OnlyUnnumberedEmbeddedAgain',
         seen[l] = drops => \A i \in BatchLines(l) : Kunnr(l, i) \in Numbers(table)'
  PROVE  IngestionInv'
<1>1. /\ pc' = [pc EXCEPT ![l] = "read"]
      /\ line' = [line EXCEPT ![l] = @ + BatchSize]
      /\ file' = file /\ runs' = runs /\ seen' = seen /\ drops' = drops
      /\ opened' = opened
  BY DEF NextBatch, GoTo
<1>2. /\ pc'[l] = "read" /\ line'[l] = line[l] + BatchSize
      /\ \A m \in Loaders \ {l} : pc'[m] = pc[m] /\ line'[m] = line[m]
  BY <1>1 DEF IngestionInv, TypeOK
<1>3. BatchSize \in Nat \ {0} /\ line[l] \in Nat \ {0} /\ Length(l) \in Nat
  BY IngestionAssumption, Lengths DEF IngestionInv
<1>4. /\ \A m : Length(m)' = Length(m)
      /\ \A i : Kunnr(l, i)' = Kunnr(l, i)
      /\ AllLines' = AllLines
  BY <1>1 DEF Length, Kunnr, Text, AllLines
<1>5. TypeOK'
  <2>1. pc' \in [Loaders -> Stopped \cup {"drop", "open", "read", "lookup", "embed",
                                          "insert", "merge", "create", "index"}]
    BY <1>1 DEF IngestionInv, TypeOK
  <2>2. line' \in [Loaders -> Nat \ {0}]
    BY <1>1, <1>3 DEF IngestionInv, TypeOK
  <2>3. \A m \in Loaders : new'[m] \subseteq 1 .. Length(m)
    BY DEF IngestionInv, TypeOK
  <2> QED BY <1>1, <1>4, <2>1, <2>2, <2>3 DEF IngestionInv, TypeOK, Numbers
<1>6. ProgressOf(l)'
  <2>1. ProgressOf(l)
    BY DEF IngestionInv, Progress
  <2>2. ASSUME seen[l] = drops, NEW i \in 1 .. Length(l), i < line'[l]
        PROVE  Kunnr(l, i) \in Numbers(table)'
    <3>1. CASE i < line[l]
      <4>1. Kunnr(l, i) \in Numbers(table)
        BY <2>1, <2>2, <3>1 DEF ProgressOf, Reading, Pending
      <4> QED BY <4>1 DEF Numbers
    <3>2. CASE ~ (i < line[l])
      <4>1. i \in BatchLines(l)
        BY <1>2, <1>3, <2>2, <3>2, Lengths DEF IngestionInv
      <4> QED BY <2>2, <4>1
    <3> QED BY <3>1, <3>2
  <2>3. seen[l] <= drops
    BY <2>1 DEF ProgressOf
  <2> QED BY <1>1, <1>2, <1>4, <2>2, <2>3 DEF ProgressOf, Pending
<1>7. \A m \in Loaders \ {l} :
         /\ pc'[m] = pc[m] /\ file'[m] = file[m] /\ line'[m] = line[m]
         /\ new'[m] = new[m] /\ seen'[m] = seen[m] /\ opened'[m] = opened[m]
  BY <1>1, <1>2
<1>8. HeldOf(l)'
  BY <1>1, <1>2 DEF IngestionInv, Held, HeldOf
<1> QED BY <1>1, <1>5, <1>6, <1>7, <1>8, OneMoves

-----------------------------------------------------------------------------
(* Every step preserves the invariant, action by action.                   *)
LEMMA BeginInv ==
  ASSUME IngestionInv, NEW l \in Loaders, NEW f \in DOMAIN Files,
         NEW overwrite \in BOOLEAN, Begin(l, f, overwrite)
  PROVE  IngestionInv'
<1>1. PICK next \in {"drop", "open"} : GoTo(l, next)
  BY DEF Begin
<1>2. /\ runs[l] < MaxRuns
      /\ runs' = [runs EXCEPT ![l] = @ + 1] /\ file' = [file EXCEPT ![l] = f]
      /\ line' = [line EXCEPT ![l] = 1] /\ new' = [new EXCEPT ![l] = {}]
      /\ pc' = [pc EXCEPT ![l] = next]
      /\ exists' = exists /\ table' = table /\ drops' = drops /\ seen' = seen
      /\ wasted' = wasted /\ opened' = opened
  BY <1>1 DEF Begin, GoTo
<1>3. /\ pc'[l] = next /\ line'[l] = 1 /\ new'[l] = {}
      /\ \A m \in Loaders \ {l} :
            /\ pc'[m] = pc[m] /\ file'[m] = file[m] /\ line'[m] = line[m]
            /\ new'[m] = new[m] /\ seen'[m] = seen[m] /\ opened'[m] = opened[m]
  BY <1>2 DEF IngestionInv, TypeOK
<1>4. TypeOK'
  <2>1. pc' \in [Loaders -> Stopped \cup {"drop", "open", "read", "lookup", "embed",
                                          "insert", "merge", "create", "index"}]
    BY <1>2 DEF IngestionInv, TypeOK
  <2>2. runs' \in [Loaders -> 0 .. MaxRuns]
    <3>1. runs[l] + 1 \in 0 .. MaxRuns
      BY <1>2, IngestionAssumption DEF IngestionInv, TypeOK
    <3> QED BY <1>2, <3>1 DEF IngestionInv, TypeOK
  <2>3. /\ file' \in [Loaders -> DOMAIN Files]
        /\ line' \in [Loaders -> Nat \ {0}]
        /\ new' \in [Loaders -> SUBSET Nat]
    BY <1>2 DEF IngestionInv, TypeOK
  <2>4. ASSUME NEW m \in Loaders PROVE new'[m] \subseteq 1 .. Length(m)'
    <3>1. CASE m = l
      BY <1>3, <3>1
    <3>2. CASE m # l
      <4>1. Length(m)' = Length(m) /\ new'[m] = new[m]
        BY <1>3, <3>2 DEF Length
      <4> QED BY <4>1 DEF IngestionInv, TypeOK
    <3> QED BY <3>1, <3>2
  <2>5. /\ exists' \in BOOLEAN /\ table' \subseteq AllLines'
        /\ (~ exists' => table' = {}) /\ drops' \in Nat
        /\ seen' \in [Loaders -> Nat] /\ wasted' \subseteq Numbers(AllLines)'
        /\ opened' \in [Loaders -> [drops : Nat, customers : SUBSET Numbers(AllLines)]]'
    BY <1>2 DEF IngestionInv, TypeOK, AllLines, Numbers
  <2> QED BY <2>1, <2>2, <2>3, <2>4, <2>5 DEF TypeOK
<1>5. TwiceOnlyIfOpenTogether' /\ OnlyUnnumberedEmbeddedAgain'
  BY <1>2 DEF IngestionInv, TwiceOnlyIfOpenTogether, OnlyUnnumberedEmbeddedAgain
<1>6. DistinctOf(l)' /\ ProgressOf(l)'
  <2>1. seen[l] <= drops
    BY DEF IngestionInv, Progress, ProgressOf
  <2>2. next \notin Reading /\ next \notin Pending
    BY DEF Reading, Pending
  <2> QED BY <1>2, <1>3, <2>1, <2>2 DEF DistinctOf, ProgressOf
<1>7. HeldOf(l)'
  BY <1>2, <1>3 DEF IngestionInv, Held, HeldOf
<1> QED BY <1>2, <1>3, <1>4, <1>5, <1>6, <1>7, OneMoves

LEMMA DropInv ==
  ASSUME IngestionInv, NEW l \in Loaders, Drop(l)
  PROVE  IngestionInv'
<1>1. /\ pc[l] = "drop" /\ GoTo(l, "open")
      /\ UNCHANGED <<loader, wasted>>
  BY DEF Drop
<1>2. CASE UNCHANGED <<exists, table, drops>>
  <2>1. "open" \notin Reading /\ "open" \notin Pending
    BY DEF Reading, Pending
  <2>2. UNCHANGED <<loader, exists, table, drops, wasted>>
    BY <1>1, <1>2
  <2> QED BY <1>1, <2>1, <2>2, Moving
<1>3. CASE exists' = FALSE /\ table' = {} /\ drops' = drops + 1
  <2>1. /\ file' = file /\ line' = line /\ new' = new /\ runs' = runs
        /\ seen' = seen /\ wasted' = wasted /\ pc' = [pc EXCEPT ![l] = "open"]
        /\ opened' = opened
    BY <1>1 DEF loader, GoTo
  <2>2. pc'[l] = "open" /\ \A m \in Loaders \ {l} : pc'[m] = pc[m]
    BY <2>1 DEF IngestionInv, TypeOK
  <2>3. TypeOK'
    <3>1. pc' \in [Loaders -> Stopped \cup {"drop", "open", "read", "lookup", "embed",
                                            "insert", "merge", "create", "index"}]
      BY <2>1 DEF IngestionInv, TypeOK
    <3>2. \A m : Length(m)' = Length(m)
      BY <2>1 DEF Length
    <3>3. drops' \in Nat
      BY <1>3 DEF IngestionInv, TypeOK
    <3>4. /\ wasted' \subseteq Numbers(AllLines)'
          /\ opened' \in [Loaders -> [drops : Nat, customers : SUBSET Numbers(AllLines)]]'
      BY <2>1 DEF IngestionInv, TypeOK, AllLines, Numbers
    <3> QED BY <1>3, <2>1, <3>1, <3>2, <3>3, <3>4 DEF IngestionInv, TypeOK
  <2>4. TwiceOnlyIfOpenTogether' /\ OnlyUnnumberedEmbeddedAgain'
    BY <1>3, <2>1 DEF IngestionInv, TwiceOnlyIfOpenTogether, OnlyUnnumberedEmbeddedAgain
  <2>5. DistinctOf(l)' /\ ProgressOf(l)'
    <3>1. DistinctOf(l)'
      BY <2>1 DEF IngestionInv, Distinct, DistinctOf, Kunnr, Text
    <3>2. seen[l] <= drops' /\ line[l] = 1
      BY <1>1, <1>3 DEF IngestionInv, TypeOK, Progress, ProgressOf
    <3>3. "open" \notin Reading /\ "open" \notin Pending
      BY DEF Reading, Pending
    <3> QED BY <2>1, <2>2, <3>1, <3>2, <3>3 DEF ProgressOf
  <2>6. HeldOf(l)'
    <3>1. opened[l].drops <= drops /\ opened[l].drops \in Nat /\ drops \in Nat
      BY DEF IngestionInv, Held, HeldOf, TypeOK
    <3> QED BY <1>3, <2>1, <2>2, <3>1 DEF HeldOf
  <2> QED BY <1>3, <2>1, <2>2, <2>3, <2>4, <2>5, <2>6, OneMoves
<1> QED BY <1>2, <1>3 DEF Drop

LEMMA OpenInv ==
  ASSUME IngestionInv, NEW l \in Loaders, Open(l)
  PROVE  IngestionInv'
<1>1. /\ pc[l] = "open"
      /\ seen' = [seen EXCEPT ![l] = drops] /\ pc' = [pc EXCEPT ![l] = "read"]
      /\ file' = file /\ line' = line /\ new' = new /\ runs' = runs
      /\ exists' = exists /\ table' = table /\ drops' = drops /\ wasted' = wasted
      /\ opened' = opened
  BY DEF Open, GoTo
<1>2. /\ pc'[l] = "read" /\ seen'[l] = drops
      /\ \A m \in Loaders \ {l} : pc'[m] = pc[m] /\ seen'[m] = seen[m]
  BY <1>1 DEF IngestionInv, TypeOK
<1>3. TypeOK'
  <2>1. pc' \in [Loaders -> Stopped \cup {"drop", "open", "read", "lookup", "embed",
                                          "insert", "merge", "create", "index"}]
    BY <1>1 DEF IngestionInv, TypeOK
  <2>2. seen' \in [Loaders -> Nat]
    BY <1>1 DEF IngestionInv, TypeOK
  <2>3. \A m : Length(m)' = Length(m)
    BY <1>1 DEF Length
  <2>4. AllLines' = AllLines
    BY DEF AllLines
  <2> QED BY <1>1, <2>1, <2>2, <2>3, <2>4 DEF IngestionInv, TypeOK, Numbers
<1>4. TwiceOnlyIfOpenTogether' /\ OnlyUnnumberedEmbeddedAgain'
  BY <1>1 DEF IngestionInv, TwiceOnlyIfOpenTogether, OnlyUnnumberedEmbeddedAgain
<1>5. DistinctOf(l)'
  BY <1>1 DEF IngestionInv, Distinct, DistinctOf, Kunnr, Text
<1>6. ProgressOf(l)'
  <2>1. line'[l] = 1 /\ drops' \in Nat /\ seen'[l] = drops'
    BY <1>1, <1>2 DEF IngestionInv, TypeOK, Progress, ProgressOf
  <2>2. \A i \in 1 .. Length(l)' : ~ (i < line'[l])
    BY <2>1
  <2> QED BY <1>2, <2>1, <2>2 DEF ProgressOf, Pending
<1>7. HeldOf(l)'
  BY <1>1, <1>2 DEF IngestionInv, Held, HeldOf
<1> QED BY <1>1, <1>2, <1>3, <1>4, <1>5, <1>6, <1>7, OneMoves

(* A handle just opened has seen the table as it is. *)
LEMMA OpenTableInv ==
  ASSUME IngestionInv, NEW l \in Loaders, OpenTable(l)
  PROVE  IngestionInv'
<1> DEFINE handle == [drops |-> drops, customers |-> Numbers(table)]
<1>1. /\ pc[l] = "insert" /\ exists /\ pc' = [pc EXCEPT ![l] = "merge"]
      /\ opened' = [opened EXCEPT ![l] = handle]
      /\ file' = file /\ line' = line /\ new' = new /\ runs' = runs /\ seen' = seen
      /\ exists' = exists /\ table' = table /\ drops' = drops /\ wasted' = wasted
  BY DEF OpenTable, GoTo
<1>2. handle \in [drops : Nat, customers : SUBSET Numbers(AllLines)]
  BY DEF IngestionInv, TypeOK, Numbers
<1>3. /\ pc'[l] = "merge" /\ opened'[l] = handle
      /\ \A m \in Loaders \ {l} : pc'[m] = pc[m] /\ opened'[m] = opened[m]
  <2> HIDE DEF handle
  <2> QED BY <1>1 DEF IngestionInv, TypeOK
<1>4. /\ Length(l)' = Length(l) /\ BatchLines(l)' = BatchLines(l)
      /\ \A i : Kunnr(l, i)' = Kunnr(l, i)
  BY <1>1 DEF Length, BatchLines, Kunnr, Text
<1>5. TypeOK'
  <2>1. pc' \in [Loaders -> Stopped \cup {"drop", "open", "read", "lookup", "embed",
                                          "insert", "merge", "create", "index"}]
    BY <1>1 DEF IngestionInv, TypeOK
  <2>2. opened' \in [Loaders -> [drops : Nat, customers : SUBSET Numbers(AllLines)]]
    <3> HIDE DEF handle
    <3> QED BY <1>1, <1>2 DEF IngestionInv, TypeOK
  <2>3. \A m : Length(m)' = Length(m)
    BY <1>1 DEF Length
  <2>4. AllLines' = AllLines
    BY DEF AllLines
  <2> HIDE DEF handle
  <2> QED BY <1>1, <2>1, <2>2, <2>3, <2>4 DEF IngestionInv, TypeOK, Numbers
<1>6. TwiceOnlyIfOpenTogether' /\ OnlyUnnumberedEmbeddedAgain'
  BY <1>1 DEF IngestionInv, TwiceOnlyIfOpenTogether, OnlyUnnumberedEmbeddedAgain
<1>7. DistinctOf(l)'
  BY <1>1, <1>4 DEF IngestionInv, Distinct, DistinctOf
<1>8. ProgressOf(l)'
  <2>1. ProgressOf(l)
    BY DEF IngestionInv, Progress
  <2>2. Numbers(table)' = Numbers(table)
    BY <1>1 DEF Numbers
  <2> QED BY <1>1, <1>3, <1>4, <2>1, <2>2 DEF ProgressOf, Reading, Pending
<1>9. HeldOf(l)'
  <2>1. opened'[l].drops = drops /\ opened'[l].customers = Numbers(table) /\ drops \in Nat
    BY <1>3 DEF IngestionInv, TypeOK
  <2>2. Numbers(table)' = Numbers(table) /\ \A x \in table : x.kunnr \in Numbers(table)
    BY <1>1 DEF Numbers
  <2> QED BY <1>1, <2>1, <2>2 DEF HeldOf
<1> HIDE DEF handle
<1> QED BY <1>1, <1>3, <1>5, <1>6, <1>7, <1>8, <1>9, OneMoves

LEMMA ReadInv ==
  ASSUME IngestionInv, NEW l \in Loaders, Read(l)
  PROVE  IngestionInv'
<1>1. /\ pc[l] = "read"
      /\ UNCHANGED <<loader, exists, table, drops, wasted>>
  BY DEF Read
<1>2. pc[l] \in Reading
  BY <1>1 DEF Reading
<1>3. CASE BatchLines(l) = {}
  <2>1. GoTo(l, "index")
    BY <1>3 DEF Read
  <2>2. line[l] > Length(l)
    <3>1. line[l] \notin BatchLines(l)
      BY <1>3
    <3> QED BY <3>1, Lengths, IngestionAssumption DEF IngestionInv
  <2> QED BY <1>1, <1>2, <2>1, <2>2, Moving DEF Pending
<1>4. CASE BatchLines(l) # {}
  <2>1. PICK next \in {"failed", "lookup"} : GoTo(l, next)
    BY <1>4 DEF Read
  <2>2. next \notin Pending /\ next \notin {"index", "done"} /\ next # "open"
    BY DEF Pending
  <2> QED BY <1>1, <1>2, <2>1, <2>2, Moving
<1> QED BY <1>3, <1>4

(* The steps that need what the lookup said of the batch stay in Pending,  *)
(* and an error or a crash needs nothing.                                  *)
LEMMA MovesInv ==
  ASSUME IngestionInv, NEW l \in Loaders,
         Embed(l) \/ OpenFails(l) \/ Index(l) \/ Fail(l) \/ Crash(l)
  PROVE  IngestionInv'
<1>1. UNCHANGED <<loader, exists, table, drops, wasted>>
  BY DEF Embed, OpenFails, Index, Fail, Crash
<1>2. CASE Embed(l) \/ OpenFails(l)
  <2>1. PICK next \in {"insert", "create"} : GoTo(l, next)
    BY <1>2 DEF Embed, OpenFails
  <2>2. pc[l] \in Pending /\ pc[l] \in Reading
    BY <1>2 DEF Embed, OpenFails, Pending, Reading
  <2>3. next \notin {"index", "done"} /\ next # "open"
    OBVIOUS
  <2> QED BY <1>1, <2>1, <2>2, <2>3, Moving
<1>3. CASE Index(l)
  <2>1. pc[l] = "index" /\ GoTo(l, "done") /\ pc[l] \in Reading
    BY <1>3 DEF Index, Reading
  <2>2. line[l] > Length(l)
    BY <2>1 DEF IngestionInv, Progress, ProgressOf
  <2> QED BY <1>1, <2>1, <2>2, Moving DEF Pending
<1>4. CASE Fail(l) \/ Crash(l)
  <2>1. PICK next \in {"failed", "crashed"} : GoTo(l, next)
    BY <1>4 DEF Fail, Crash
  <2>2. next \notin Reading /\ next \notin Pending
    BY DEF Reading, Pending
  <2>3. next \notin {"index", "done"} /\ next # "open"
    OBVIOUS
  <2> QED BY <1>1, <2>1, <2>2, <2>3, Moving
<1> QED BY <1>2, <1>3, <1>4

(* What the lookup found is in the table; what it did not find is new.     *)
LEMMA LookupInv ==
  ASSUME IngestionInv, NEW l \in Loaders, Lookup(l)
  PROVE  IngestionInv'
<1> DEFINE present == Asked(l) \cap Numbers(table)
<1>1. PICK existing \in SUBSET present :
         /\ new' = [new EXCEPT ![l] = NewLines(l, existing)]
         /\ wasted' = IF existing = present
                      THEN wasted \cup ({Number(Text(l, i)) : i \in new'[l]}
                                          \cap Numbers(table))
                      ELSE wasted
  BY DEF Lookup
<1>2. /\ pc[l] = "lookup" /\ file' = file /\ runs' = runs /\ seen' = seen
      /\ opened' = opened /\ exists' = exists /\ table' = table /\ drops' = drops
  BY DEF Lookup
<1>3. TypeOK
  BY DEF IngestionInv
<1>4. /\ new'[l] = NewLines(l, existing)
      /\ \A m \in Loaders \ {l} : new'[m] = new[m]
  BY <1>1, <1>3 DEF TypeOK
<1>5. /\ NewLines(l, existing) \subseteq BatchLines(l)
      /\ \A i, j \in NewLines(l, existing) : Kunnr(l, i) = Kunnr(l, j) => i = j
      /\ \A i \in BatchLines(l) :
            \/ Kunnr(l, i) \in existing
            \/ \E j \in NewLines(l, existing) : Kunnr(l, j) = Kunnr(l, i)
  BY <1>3, NewLinesProperties
<1>6. BatchLines(l) \subseteq 1 .. Length(l) /\ Length(l) \in Nat
  BY <1>3, Lengths
<1>7. /\ Length(l)' = Length(l)
      /\ \A i : Kunnr(l, i)' = Kunnr(l, i)
      /\ AllLines' = AllLines
  BY <1>2 DEF Length, Kunnr, Text, AllLines
<1>8. new' \in [Loaders -> SUBSET Nat] /\ new'[l] \subseteq 1 .. Length(l)
  <2>1. NewLines(l, existing) \subseteq Nat
    BY <1>5, <1>6
  <2> QED BY <1>1, <1>3, <1>4, <1>5, <1>6, <2>1 DEF TypeOK
<1>9. DistinctOf(l)'
  BY <1>4, <1>5, <1>7 DEF DistinctOf
<1>10. wasted' \subseteq Numbers(AllLines)
  BY <1>1, <1>3 DEF TypeOK, Numbers
<1>11. OnlyUnnumberedEmbeddedAgain'
  <2>1. wasted \subseteq {Number(NoNumber)}
    BY DEF IngestionInv, OnlyUnnumberedEmbeddedAgain
  <2>2. ASSUME existing = present, NEW k \in Numbers(table),
               k \in {Number(Text(l, i)) : i \in new'[l]}
        PROVE  k = Number(NoNumber)
    <3>1. PICK i \in new'[l] : k = Kunnr(l, i)
      BY <2>2 DEF Kunnr
    <3>2. i \in BatchLines(l) /\ k \notin existing
      BY <1>4, <3>1 DEF NewLines, Kunnr
    <3>3. k \notin Asked(l)
      BY <2>2, <3>2
    <3>4. Text(l, i) = NoNumber
      <4> SUFFICES ASSUME Text(l, i) # NoNumber PROVE FALSE
        OBVIOUS
      <4>1. k = Text(l, i)
        BY <3>1 DEF Kunnr, Number
      <4> QED BY <3>2, <3>3, <4>1 DEF Asked
    <3> QED BY <3>1, <3>4 DEF Kunnr
  <2> QED BY <1>1, <2>1, <2>2 DEF OnlyUnnumberedEmbeddedAgain
<1>12. TwiceOnlyIfOpenTogether'
  BY <1>2 DEF IngestionInv, TwiceOnlyIfOpenTogether
<1>13. CASE new'[l] = {}
  <2>1. NextBatch(l)
    BY <1>13 DEF Lookup
  <2>2. \A i \in BatchLines(l) : Kunnr(l, i) \in Numbers(table)'
    BY <1>2, <1>4, <1>5, <1>13 DEF Numbers
  <2>3. /\ exists' \in BOOLEAN /\ (~ exists' => table' = {}) /\ (exists => exists')
        /\ table \subseteq table' /\ table' \subseteq AllLines
    BY <1>2, <1>3 DEF TypeOK
  <2> QED BY <1>2, <1>4, <1>8, <1>9, <1>10, <1>11, <1>12, <2>1, <2>2, <2>3, Advancing
<1>14. CASE new'[l] # {}
  <2>1. pc' = [pc EXCEPT ![l] = "embed"] /\ line' = line
    BY <1>14 DEF Lookup, GoTo
  <2>2. pc'[l] = "embed" /\ \A m \in Loaders \ {l} : pc'[m] = pc[m]
    BY <1>3, <2>1 DEF TypeOK
  <2>3. TypeOK'
    <3>1. pc' \in [Loaders -> Stopped \cup {"drop", "open", "read", "lookup", "embed",
                                            "insert", "merge", "create", "index"}]
      BY <1>3, <2>1 DEF TypeOK
    <3>2. \A m \in Loaders : new'[m] \subseteq 1 .. Length(m)
      BY <1>3, <1>4, <1>8 DEF TypeOK
    <3>3. \A m : Length(m)' = Length(m)
      BY <1>2 DEF Length
    <3> QED BY <1>2, <1>3, <1>7, <1>8, <1>10, <2>1, <3>1, <3>2, <3>3 DEF TypeOK, Numbers
  <2>4. ProgressOf(l)'
    <3>1. /\ seen[l] <= drops
          /\ seen[l] = drops =>
                \A i \in 1 .. Length(l) :
                   i < line[l] => Kunnr(l, i) \in Numbers(table)
      BY <1>2 DEF IngestionInv, Progress, ProgressOf, Reading
    <3>2. \A i \in BatchLines(l) :
             \/ Kunnr(l, i) \in Numbers(table)
             \/ \E j \in new'[l] : Kunnr(l, j) = Kunnr(l, i)
      BY <1>4, <1>5
    <3>3. BatchLines(l)' = BatchLines(l) /\ Numbers(table)' = Numbers(table)
      BY <1>2, <2>1 DEF BatchLines, Length, Numbers
    <3> QED BY <1>2, <1>7, <2>1, <2>2, <3>1, <3>2, <3>3 DEF ProgressOf
  <2>5. \A m \in Loaders \ {l} :
           /\ pc'[m] = pc[m] /\ file'[m] = file[m] /\ line'[m] = line[m]
           /\ new'[m] = new[m] /\ seen'[m] = seen[m] /\ opened'[m] = opened[m]
    BY <1>2, <1>4, <2>1, <2>2
  <2>6. HeldOf(l)'
    BY <1>2, <2>2 DEF IngestionInv, Held, HeldOf
  <2> QED BY <1>2, <1>9, <1>11, <1>12, <2>3, <2>4, <2>5, <2>6, OneMoves
<1> QED BY <1>13, <1>14

(* Both ways of inserting a batch add rows of it for customers that were   *)
(* not known, and leave none of its customers out.                         *)
LEMMA Inserting ==
  ASSUME IngestionInv, NEW l \in Loaders, pc[l] \in {"merge", "create"},
         NextBatch(l), UNCHANGED <<file, new, opened, runs, seen, drops, wasted>>,
         exists' = TRUE,
         NEW known \in SUBSET Numbers(table),
         \A x \in table : x.kunnr \in known \/ l \in x.during,
         table' = table \cup {row \in NewRows(l) : row.kunnr \notin known}
  PROVE  IngestionInv'
<1>1. /\ file' = file /\ new' = new /\ runs' = runs /\ seen' = seen
      /\ opened' = opened /\ drops' = drops /\ wasted' = wasted
  OBVIOUS
<1>2. TypeOK
  BY DEF IngestionInv
<1>3. \A x \in NewRows(l) :
         \E i \in new[l] : /\ x = Row(l, i) /\ x.kunnr = Kunnr(l, i)
                          /\ x.by = l /\ x.during = Holders(l)
  BY NewNumbers DEF NewRows
<1>4. TwiceOnlyIfOpenTogether'
  <2> SUFFICES ASSUME NEW x \in table', NEW y \in table', x.kunnr = y.kunnr, x # y
               PROVE  y.by \in x.during \/ x.by \in y.during
    BY DEF TwiceOnlyIfOpenTogether
  <2>1. CASE x \in table /\ y \in table
    BY <2>1 DEF IngestionInv, TwiceOnlyIfOpenTogether
  <2>2. CASE x \notin table /\ y \notin table
    <3>1. x \in NewRows(l) /\ y \in NewRows(l)
      BY <2>2
    <3>2. PICK i \in new[l] : x = Row(l, i) /\ x.kunnr = Kunnr(l, i)
      BY <1>3, <3>1
    <3>3. PICK j \in new[l] : y = Row(l, j) /\ y.kunnr = Kunnr(l, j)
      BY <1>3, <3>1
    <3>4. i = j
      BY <3>2, <3>3 DEF IngestionInv, Distinct, DistinctOf
    <3> QED BY <3>2, <3>3, <3>4
  <2>3. CASE x \in table /\ y \notin table
    <3>1. y.kunnr \notin known /\ y.by = l
      BY <1>3, <2>3
    <3> QED BY <2>3, <3>1
  <2>4. CASE x \notin table /\ y \in table
    <3>1. x.kunnr \notin known /\ x.by = l
      BY <1>3, <2>4
    <3> QED BY <2>4, <3>1
  <2> QED BY <2>1, <2>2, <2>3, <2>4
<1>5. table \subseteq table' /\ table' \subseteq AllLines
  <2>1. \A x \in NewRows(l) : x \in AllLines
    BY <1>2, <1>3, RowsAreLines DEF TypeOK
  <2> QED BY <1>2, <2>1 DEF TypeOK
<1>6. \A i \in new[l] : Kunnr(l, i) \in Numbers(table)'
  <2> SUFFICES ASSUME NEW i \in new[l], Kunnr(l, i) \notin known
               PROVE  Kunnr(l, i) \in Numbers(table)'
    BY <1>5 DEF Numbers
  <2>1. Row(l, i) \in NewRows(l) /\ Row(l, i).kunnr = Kunnr(l, i)
    BY NewNumbers DEF NewRows
  <2>2. Row(l, i) \in table'
    BY <2>1
  <2> QED BY <2>1, <2>2 DEF Numbers
<1>7. seen[l] = drops => \A i \in BatchLines(l) : Kunnr(l, i) \in Numbers(table)'
  <2> SUFFICES ASSUME seen[l] = drops, NEW i \in BatchLines(l)
               PROVE  Kunnr(l, i) \in Numbers(table)'
    OBVIOUS
  <2>1. \/ Kunnr(l, i) \in Numbers(table)
        \/ \E j \in new[l] : Kunnr(l, j) = Kunnr(l, i)
    BY DEF IngestionInv, Progress, ProgressOf, Pending
  <2>2. Kunnr(l, i) \in Numbers(table) => Kunnr(l, i) \in Numbers(table)'
    BY <1>5 DEF Numbers
  <2> QED BY <1>6, <2>1, <2>2
<1>8. DistinctOf(l)'
  BY <1>1 DEF IngestionInv, Distinct, DistinctOf, Kunnr, Text
<1>9. OnlyUnnumberedEmbeddedAgain' /\ wasted' \subseteq Numbers(AllLines)
  BY <1>1, <1>2 DEF IngestionInv, OnlyUnnumberedEmbeddedAgain, TypeOK
<1>10. /\ new' \in [Loaders -> SUBSET Nat] /\ new'[l] \subseteq 1 .. Length(l)
       /\ \A m \in Loaders \ {l} : new'[m] = new[m]
  BY <1>1, <1>2 DEF TypeOK
<1>11. exists' \in BOOLEAN /\ (~ exists' => table' = {}) /\ (exists => exists')
  OBVIOUS
<1>12. \A x \in table' \ table : Holders(l) \subseteq x.during
  BY <1>3
<1> QED BY <1>1, <1>4, <1>5, <1>7, <1>8, <1>9, <1>10, <1>11, <1>12, Advancing

LEMMA MergeInv ==
  ASSUME IngestionInv, NEW l \in Loaders, Merge(l)
  PROVE  IngestionInv'
<1> DEFINE known == opened[l].customers
<1>1. HeldOf(l) /\ pc[l] = "merge" /\ opened[l].drops = drops
  BY DEF IngestionInv, Held, Merge
<1>2. known \in SUBSET Numbers(table) /\ \A x \in table : x.kunnr \in known \/ l \in x.during
  BY <1>1 DEF HeldOf
<1>3. /\ NextBatch(l) /\ UNCHANGED <<file, new, opened, runs, seen, exists, drops, wasted>>
      /\ table' = table \cup {row \in NewRows(l) : row.kunnr \notin known}
  BY DEF Merge
<1>4. exists' = TRUE
  BY <1>1, <1>3 DEF HeldOf, IngestionInv, TypeOK
<1> HIDE DEF known
<1> QED BY <1>1, <1>2, <1>3, <1>4, Inserting

(* There is no table, so every row of the batch is of a new customer.      *)
LEMMA CreateInv ==
  ASSUME IngestionInv, NEW l \in Loaders, Create(l)
  PROVE  IngestionInv'
<1>1. table = {}
  BY DEF Create, IngestionInv, TypeOK
<1>2. NewRows(l) = table \cup {row \in NewRows(l) : row.kunnr \notin {}}
  BY <1>1
<1>3. \A x \in table : x.kunnr \in {} \/ l \in x.during
  BY <1>1
<1>4. /\ pc[l] = "create" /\ NextBatch(l) /\ exists' = TRUE /\ table' = NewRows(l)
      /\ UNCHANGED <<file, new, opened, runs, seen, drops, wasted>>
  BY DEF Create
<1>5. {} \in SUBSET Numbers(table)
  OBVIOUS
<1> QED BY <1>2, <1>3, <1>4, <1>5, Inserting

LEMMA NextIngestionInv == IngestionInv /\ [Next]_vars => IngestionInv'
<1> SUFFICES ASSUME IngestionInv, [Next]_vars PROVE IngestionInv'
  OBVIOUS
<1>1. CASE UNCHANGED vars
  <2>1. /\ pc' = pc /\ file' = file /\ line' = line /\ new' = new
        /\ exists' = exists /\ table' = table /\ runs' = runs /\ drops' = drops
        /\ seen' = seen /\ wasted' = wasted /\ opened' = opened
    BY <1>1 DEF vars
  <2>2. /\ \A l : Length(l)' = Length(l) /\ BatchLines(l)' = BatchLines(l)
        /\ \A l, i : Kunnr(l, i)' = Kunnr(l, i)
        /\ AllLines' = AllLines /\ Numbers(table)' = Numbers(table)
    BY <2>1 DEF Length, BatchLines, Kunnr, Text, AllLines, Numbers
  <2>3. TypeOK'
    BY <2>1, <2>2 DEF IngestionInv, TypeOK, Numbers
  <2>4. TwiceOnlyIfOpenTogether' /\ OnlyUnnumberedEmbeddedAgain'
    BY <2>1 DEF IngestionInv, TwiceOnlyIfOpenTogether, OnlyUnnumberedEmbeddedAgain
  <2>5. Distinct' /\ Progress' /\ Held'
    BY <2>1, <2>2 DEF IngestionInv, Distinct, DistinctOf, Progress, ProgressOf, Held, HeldOf
  <2> QED BY <2>3, <2>4, <2>5 DEF IngestionInv
<1>2. ASSUME NEW l \in Loaders, NEW f \in DOMAIN Files, NEW overwrite \in BOOLEAN,
             Begin(l, f, overwrite)
      PROVE  IngestionInv'
  BY <1>2, BeginInv
<1>3. ASSUME NEW l \in Loaders, Step(l) PROVE IngestionInv'
  BY <1>3, DropInv, OpenInv, ReadInv, LookupInv, OpenTableInv, MovesInv, MergeInv, CreateInv
     DEF Step
<1>4. ASSUME NEW l \in Loaders, Crash(l) PROVE IngestionInv'
  BY <1>4, MovesInv
<1> QED BY <1>1, <1>2, <1>3, <1>4 DEF Next

LEMMA AlwaysIngestionInv == Spec => []IngestionInv
<1>1. Init => IngestionInv
  BY InitIngestionInv
<1>2. IngestionInv /\ [Next]_vars => IngestionInv'
  BY NextIngestionInv
<1> QED BY <1>1, <1>2, PTL DEF Spec

-----------------------------------------------------------------------------
(* The states of execute_ingestion have their types. *)
THEOREM IngestionTypeCorrect == Spec => []TypeOK
<1>1. IngestionInv => TypeOK
  BY DEF IngestionInv
<1> QED BY <1>1, AlwaysIngestionInv, PTL

(* Whatever loaders run, together or again after a crash, and whatever     *)
(* their lookups miss: only two loaders of which one merged while the      *)
(* other, about to merge as well, had the table open already store a       *)
(* customer twice.                                                         *)
THEOREM TwiceOnlyTogether == Spec => []TwiceOnlyIfOpenTogether
<1>1. IngestionInv => TwiceOnlyIfOpenTogether
  BY DEF IngestionInv
<1> QED BY <1>1, AlwaysIngestionInv, PTL

(* A run that reports success has all the customers of its file in the     *)
(* table, for files and batches of every length, if the table was not      *)
(* dropped since it opened the file.                                       *)
THEOREM Complete == Spec => []DoneIsComplete
<1>1. IngestionInv => DoneIsComplete
  <2> SUFFICES ASSUME IngestionInv, NEW l \in Loaders,
                      pc[l] = "done", seen[l] = drops, NEW i \in 1 .. Length(l)
               PROVE  Number(Text(l, i)) \in Numbers(table)
    BY DEF DoneIsComplete
  <2>1. ProgressOf(l)
    BY DEF IngestionInv, Progress
  <2>2. i < line[l]
    <3>1. line[l] > Length(l) /\ Length(l) \in Nat /\ line[l] \in Nat
      BY <2>1, Lengths DEF IngestionInv, ProgressOf
    <3> QED BY <3>1
  <2> QED BY <2>1, <2>2 DEF ProgressOf, Reading, Kunnr
<1> QED BY <1>1, AlwaysIngestionInv, PTL

(* The lookup spares every customer of the table another embedding, except *)
(* the one that lines without a number are stored as.                      *)
THEOREM OnlyUnnumbered == Spec => []OnlyUnnumberedEmbeddedAgain
<1>1. IngestionInv => OnlyUnnumberedEmbeddedAgain
  BY DEF IngestionInv
<1> QED BY <1>1, AlwaysIngestionInv, PTL

(* No step but a drop removes or changes a row: a merge inserts what is    *)
(* not matched, and a table is created only where there is none.           *)
THEOREM RowsStay == Spec => FirstRowStays
<1>1. TypeOK /\ [Next]_vars => [drops' = drops => table \subseteq table']_vars
  <2> SUFFICES ASSUME TypeOK, Next, drops' = drops PROVE table \subseteq table'
    OBVIOUS
  <2>1. PICK l \in Loaders :
           \/ \E f \in DOMAIN Files, overwrite \in BOOLEAN : Begin(l, f, overwrite)
           \/ Step(l)
           \/ Crash(l)
    BY DEF Next
  <2>2. CASE Drop(l)
    BY <2>2 DEF Drop, TypeOK
  <2>3. CASE Merge(l)
    BY <2>3 DEF Merge
  <2>4. CASE Create(l)
    BY <2>4 DEF Create, TypeOK
  <2>5. ASSUME table' = table PROVE table \subseteq table'
    BY <2>5
  <2> QED BY <2>1, <2>2, <2>3, <2>4, <2>5
          DEF Begin, Step, Open, Read, Lookup, Embed, OpenTable, OpenFails, Index, Fail, Crash
<1> QED BY <1>1, IngestionTypeCorrect, PTL DEF Spec, FirstRowStays

(* To a reader of the table the loaders together are one that inserts and  *)
(* drops: a batch is inserted in one step, however many work at once.      *)
THEOREM TableKept == Spec => KeepsTable
<1>1. IngestionInv => table \in SUBSET AllLines
  BY DEF IngestionInv, TypeOK
<1>2. Init => Customers!Init
  BY <1>1, InitIngestionInv DEF Customers!Init
<1>3. IngestionInv /\ [Next]_vars => [Customers!Next]_table
  <2> SUFFICES ASSUME IngestionInv, Next, table' # table PROVE Customers!Next
    BY DEF vars
  <2>1. table' \in SUBSET AllLines
    <3>1. IngestionInv'
      BY NextIngestionInv
    <3>2. AllLines' = AllLines
      BY DEF AllLines
    <3> QED BY <3>1, <3>2 DEF IngestionInv, TypeOK
  <2>2. PICK l \in Loaders : Drop(l) \/ Merge(l) \/ Create(l)
    BY DEF Next, Begin, Step, Open, Read, Lookup, Embed, OpenTable, OpenFails, Index,
           Fail, Crash
  <2>3. CASE Drop(l)
    BY <2>3 DEF Drop, Customers!Next, Customers!Drop
  <2>4. CASE Merge(l) \/ Create(l)
    <3>1. table \subseteq table'
      BY <2>4 DEF Merge, Create, IngestionInv, TypeOK
    <3> QED BY <2>1, <3>1 DEF Customers!Next, Customers!Insert
  <2> QED BY <2>2, <2>3, <2>4
<1> QED BY <1>2, <1>3, AlwaysIngestionInv, PTL DEF Spec, KeepsTable, Customers!Spec

-----------------------------------------------------------------------------
(* A batch that is being worked on begins within the file. *)
Within == \A l \in Loaders : pc[l] \in {"lookup"} \cup Pending => line[l] <= Length(l)

LEMMA InitWithin == Init => Within
BY DEF Init, Within, Pending

LEMMA NextWithin ==
  ASSUME TypeOK, Within, [Next]_vars
  PROVE  Within'
<1> SUFFICES ASSUME NEW m \in Loaders, pc'[m] \in {"lookup"} \cup Pending
             PROVE  line'[m] <= Length(m)'
  BY DEF Within
<1>1. ASSUME file'[m] = file[m], line'[m] = line[m], pc[m] \in {"lookup"} \cup Pending
      PROVE  line'[m] <= Length(m)'
  BY <1>1 DEF Within, Length
<1>2. CASE UNCHANGED vars
  BY <1>1, <1>2 DEF vars
<1>3. ASSUME NEW l \in Loaders, NEW f \in DOMAIN Files, NEW overwrite \in BOOLEAN,
             Begin(l, f, overwrite)
      PROVE  line'[m] <= Length(m)'
  <2>1. l # m
    BY <1>3 DEF Begin, GoTo, TypeOK, Pending
  <2> QED BY <1>1, <1>3, <2>1 DEF Begin, GoTo, TypeOK
<1>4. ASSUME NEW l \in Loaders, l # m, Step(l) \/ Crash(l)
      PROVE  line'[m] <= Length(m)'
  <2>1. file' = file /\ pc'[m] = pc[m] /\ line'[m] = line[m]
    BY <1>4 DEF Step, Crash, Drop, Open, Read, Lookup, Embed, OpenTable, Merge, OpenFails, Create,
                Index, Fail, GoTo, NextBatch, loader, TypeOK
  <2> QED BY <1>1, <2>1
<1>5. CASE Read(m)
  <2>1. BatchLines(m) # {} /\ file' = file /\ line' = line
    BY <1>5 DEF Read, GoTo, loader, TypeOK, Pending
  <2>2. line[m] <= Length(m)
    BY <2>1, Lengths
  <2> QED BY <2>1, <2>2 DEF Length
<1>6. CASE Lookup(m) \/ Embed(m) \/ OpenTable(m) \/ OpenFails(m)
  BY <1>1, <1>6
     DEF Lookup, Embed, OpenTable, OpenFails, GoTo, NextBatch, loader, TypeOK, Pending
<1>7. ~ (Drop(m) \/ Open(m) \/ Merge(m) \/ Create(m) \/ Index(m) \/ Fail(m) \/ Crash(m))
  BY DEF Drop, Open, Merge, Create, Index, Fail, Crash, GoTo, NextBatch, TypeOK, Pending
<1> QED BY <1>2, <1>3, <1>4, <1>5, <1>6, <1>7 DEF Next, Step

(* How far a run is from its end: five steps for each line ahead, at most, *)
(* and those of the batch at hand.                                         *)
Ahead(l) == IF line[l] > Length(l) THEN 0 ELSE Length(l) - line[l] + 1

Weight(at) ==
    CASE at = "drop" -> 7 [] at = "open" -> 6 [] at = "read" -> 5 [] at = "lookup" -> 4
      [] at = "embed" -> 3 [] at = "insert" -> 2 [] at \in {"merge", "create", "index"} -> 1
      [] OTHER -> 0

Left(l) == IF pc[l] \in Stopped THEN 0 ELSE 5 * Ahead(l) + Weight(pc[l])

LEMMA Weights ==
  /\ Weight("drop") = 7 /\ Weight("open") = 6 /\ Weight("read") = 5
  /\ Weight("lookup") = 4 /\ Weight("embed") = 3 /\ Weight("insert") = 2
  /\ Weight("merge") = 1 /\ Weight("create") = 1 /\ Weight("index") = 1
  /\ TypeOK => \A l \in Running : l \in Loaders /\ Weight(pc[l]) \in 1 .. 7
BY DEF Weight, Running, TypeOK, Stopped

LEMMA LeftRange ==
  ASSUME TypeOK, NEW l \in Running
  PROVE  /\ Ahead(l) \in 0 .. Length(l) /\ Length(l) \in Nat
         /\ Left(l) = 5 * Ahead(l) + Weight(pc[l])
         /\ Left(l) \in 1 .. 5 * Length(l) + 7
<1>1. l \in Loaders /\ Weight(pc[l]) \in 1 .. 7
  BY Weights
<1>2. Length(l) \in Nat /\ line[l] \in Nat \ {0}
  BY <1>1, Lengths
<1>3. Ahead(l) \in 0 .. Length(l)
  BY <1>2 DEF Ahead
<1> QED BY <1>1, <1>2, <1>3 DEF Left, Running

(* A loader that moves on with its batch, or stops, is nearer its end. *)
LEMMA StageNearer ==
  ASSUME TypeOK, NEW l \in Running, NEW next, GoTo(l, next),
         file' = file, line' = line,
         next \in Stopped \/ Weight(next) \in 1 .. Weight(pc[l]) - 1
  PROVE  Left(l)' < Left(l)
<1>1. pc'[l] = next
  BY Weights DEF GoTo, TypeOK
<1>2. Ahead(l)' = Ahead(l)
  BY DEF Ahead, Length
<1>3. /\ Ahead(l) \in Nat /\ Weight(pc[l]) \in 1 .. 7
      /\ Left(l) = 5 * Ahead(l) + Weight(pc[l])
  BY LeftRange, Weights
<1>4. CASE next \in Stopped
  BY <1>1, <1>3, <1>4 DEF Left
<1>5. CASE next \notin Stopped /\ Weight(next) \in 1 .. Weight(pc[l]) - 1
  <2>1. Left(l)' = 5 * Ahead(l) + Weight(next)
    BY <1>1, <1>2, <1>5 DEF Left
  <2> QED BY <1>3, <1>5, <2>1
<1> QED BY <1>4, <1>5

(* So is one that goes on to the next batch: that one has a line less ahead. *)
LEMMA BatchNearer ==
  ASSUME TypeOK, Within, NEW l \in Running, NextBatch(l), file' = file,
         pc[l] \in {"lookup", "merge", "create"}
  PROVE  Left(l)' < Left(l)
<1>1. /\ l \in Loaders /\ line[l] \in Nat \ {0} /\ Length(l) \in Nat
      /\ BatchSize \in Nat \ {0} /\ line[l] <= Length(l)
  BY Weights, Lengths, IngestionAssumption DEF Within, Pending
<1>2. pc'[l] = "read" /\ line'[l] = line[l] + BatchSize /\ Length(l)' = Length(l)
  BY <1>1 DEF NextBatch, GoTo, TypeOK, Length
<1>3. Ahead(l)' \in 0 .. Ahead(l) - 1 /\ Ahead(l) \in Nat
  BY <1>1, <1>2 DEF Ahead
<1>4. Left(l)' = 5 * Ahead(l)' + 5
  BY <1>2, Weights DEF Left, Stopped
<1>5. Left(l) = 5 * Ahead(l) + Weight(pc[l]) /\ Weight(pc[l]) \in 1 .. 7
  BY LeftRange, Weights
<1> QED BY <1>3, <1>4, <1>5

LEMMA StepNearer ==
  ASSUME TypeOK, Within, NEW l \in Running, Step(l)
  PROVE  Left(l)' < Left(l)
<1>1. ASSUME NEW next, GoTo(l, next), file' = file, line' = line,
             next \in Stopped \/ Weight(next) \in 1 .. Weight(pc[l]) - 1
      PROVE  Left(l)' < Left(l)
  BY <1>1, StageNearer
<1>2. "failed" \in Stopped /\ "done" \in Stopped
  BY DEF Stopped
<1>3. CASE Drop(l) \/ Open(l) \/ Embed(l) \/ OpenTable(l) \/ OpenFails(l) \/ Index(l) \/ Fail(l)
  BY <1>1, <1>2, <1>3, Weights
     DEF Drop, Open, Embed, OpenTable, OpenFails, Index, Fail, loader
<1>4. CASE Read(l)
  <2>1. PICK next \in {"index", "failed", "lookup"} : GoTo(l, next)
    BY <1>4 DEF Read
  <2>2. next \in Stopped \/ Weight(next) \in 1 .. Weight(pc[l]) - 1
    BY <1>2, <1>4, <2>1, Weights DEF Read
  <2> QED BY <1>1, <1>4, <2>1, <2>2 DEF Read, loader
<1>5. CASE Lookup(l)
  <2>1. CASE NextBatch(l)
    BY <1>5, <2>1, BatchNearer DEF Lookup
  <2>2. CASE GoTo(l, "embed") /\ line' = line
    BY <1>1, <1>5, <2>2, Weights DEF Lookup
  <2> QED BY <1>5, <2>1, <2>2 DEF Lookup
<1>6. CASE Merge(l) \/ Create(l)
  BY <1>6, BatchNearer DEF Merge, Create
<1> QED BY <1>3, <1>4, <1>5, <1>6 DEF Step

LeftNatural == \A l \in Loaders : Left(l) \in Nat

LEMMA TypesLeft == TypeOK => LeftNatural
<1> SUFFICES ASSUME TypeOK, NEW l \in Loaders PROVE Left(l) \in Nat
  BY DEF LeftNatural
<1>1. CASE l \in Running
  <2>1. Length(l) \in Nat /\ Left(l) \in 1 .. 5 * Length(l) + 7
    BY <1>1, LeftRange
  <2> QED BY <2>1
<1>2. CASE l \notin Running
  BY <1>2 DEF Running, Left
<1> QED BY <1>1, <1>2

(* Other loaders leave it where it is; a crash ends it. *)
LEMMA NeverFurther ==
  ASSUME TypeOK, LeftNatural, LeftNatural', Within, NEW l \in Running, [Next]_vars
  PROVE  Left(l)' <= Left(l)
<1>1. l \in Loaders /\ pc[l] \notin Stopped /\ Left(l) \in Nat /\ Left(l)' \in Nat
  BY DEF Running, LeftNatural
<1>2. CASE pc'[l] = pc[l] /\ line'[l] = line[l] /\ file'[l] = file[l]
  BY <1>1, <1>2 DEF Left, Ahead, Length
<1>3. CASE Step(l)
  BY <1>1, <1>3, StepNearer
<1>4. CASE Crash(l)
  <2>1. Left(l)' = 0
    BY <1>1, <1>4 DEF Crash, GoTo, TypeOK, Left, Stopped
  <2> QED BY <1>1, <2>1
<1>5. ASSUME NEW m \in Loaders, m # l, Step(m) \/ Crash(m)
      PROVE  pc'[l] = pc[l] /\ line'[l] = line[l] /\ file'[l] = file[l]
  BY <1>1, <1>5
     DEF Step, Crash, Drop, Open, Read, Lookup, Embed, OpenTable, Merge, OpenFails, Create,
         Index, Fail, GoTo, NextBatch, loader, TypeOK
<1>6. ASSUME NEW m \in Loaders, NEW f \in DOMAIN Files, NEW overwrite \in BOOLEAN,
             Begin(m, f, overwrite)
      PROVE  pc'[l] = pc[l] /\ line'[l] = line[l] /\ file'[l] = file[l]
  BY <1>1, <1>6 DEF Begin, GoTo, TypeOK
<1> QED BY <1>2, <1>3, <1>4, <1>5, <1>6 DEF Next, vars

(* Batches run out: a run takes at most five steps for a line of its file, *)
(* and seven more, whatever its lookups find or miss and however often     *)
(* other loaders drop, create or fill the table meanwhile: each of its     *)
(* steps brings it nearer its end and no other loader throws it back.      *)
(* That the steps are taken is fairness: Termination is left to the runs.  *)
THEOREM BatchesRunOut ==
  Spec =>
      /\ [](\A l \in Running : Left(l) \in 1 .. 5 * Length(l) + 7)
      /\ [][\A l \in Running : /\ Left(l)' <= Left(l)
                               /\ Step(l) => Left(l)' < Left(l)]_vars
<1>1. TypeOK => \A l \in Running : Left(l) \in 1 .. 5 * Length(l) + 7
  BY LeftRange
<1>2. TypeOK /\ Within /\ [Next]_vars => Within'
  BY NextWithin
<1>3. TypeOK /\ LeftNatural /\ LeftNatural' /\ Within /\ [Next]_vars =>
         [\A l \in Running : /\ Left(l)' <= Left(l)
                             /\ Step(l) => Left(l)' < Left(l)]_vars
  BY StepNearer, NeverFurther
<1> QED BY <1>1, <1>2, <1>3, InitWithin, TypesLeft, IngestionTypeCorrect, PTL DEF Spec
=============================================================================
