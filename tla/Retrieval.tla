----------------------------- MODULE Retrieval -----------------------------
(***************************************************************************)
(* What the two searches of src/engines/vector.rs may return, as sets of   *)
(* rows: the semantic search of a question (nearest neighbours, then the   *)
(* filters of the question in order) and the keyword scan that is the      *)
(* fallback.  A text is the set of the words it contains; the order of the *)
(* hits is in HybridSearch, which is checked against SearchOutcomes.       *)
(*                                                                         *)
(* A row is a customer, [kunnr, name, city, country], each a word.  A      *)
(* table is a set of rows, of which several may be of one customer: what   *)
(* the searches return is one chunk for each kunnr.  The empty set stands  *)
(* for a missing table, for a table is created with its first rows.        *)
(***************************************************************************)
EXTENDS Integers, SequencesExt

CONSTANTS
    Rows,         \* the customers a table may hold
    Boilerplate,  \* words of the sentence every row is embedded in
    SearchLimit,  \* the limit of each pass of the search, and of its result
    ScanLimit     \* the limit of the fallback scan

ASSUME RetrievalAssumption ==
    /\ SearchLimit \in Nat
    /\ ScanLimit \in Nat \ {0}

-----------------------------------------------------------------------------
(* The text of a row given to the model, and to NOT filters: a JSON object *)
(* of three of the four fields, whose keys are words of the text too.      *)
Keys == {"kunnr", "name", "city"}

ChunkText(row) == {row.kunnr, row.name, row.city} \cup Keys

(* The sentence of a row, which is what is embedded and what LIKE reads.   *)
Sentence(row) ==
    {row.kunnr, row.name, row.city, row.country} \cup Boilerplate

(* A question's filters: strings, with or without a leading "NOT ".        *)
Filter(negated, term) == [negated |-> negated, term |-> term]

Excluded(row, filter) == filter.negated /\ filter.term \in ChunkText(row)

Matching(table, words) == {row \in table : words \subseteq Sentence(row)}

(* Any n elements of S, or all of them when there are fewer. *)
UpTo(n, S) ==
    LET size == Cardinality(S) IN kSubset(IF size < n THEN size ELSE n, S)

-----------------------------------------------------------------------------
(* What each pass of a search finds: 0 is the pass for the nearest         *)
(* neighbours, whichever these are, and i the scan for the i-th filter,    *)
(* when that is positive.                                                  *)
Positive(filters) == {i \in DOMAIN filters : ~ filters[i].negated}

Scans(table, filters) ==
    {scans \in [{0} \cup Positive(filters) -> SUBSET table] :
        /\ scans[0] \in UpTo(SearchLimit, table)
        /\ \A i \in Positive(filters) :
              scans[i] \in UpTo(SearchLimit, Matching(table, {filters[i].term}))}

Found(scans) == UNION {scans[i] : i \in DOMAIN scans}

(* retrieved_chunks is a map by kunnr: of several rows of a customer that  *)
(* one pass finds, whichever comes last stays, and it replaces that of an  *)
(* earlier pass.                                                           *)
Ids(rows) == {row.kunnr : row \in rows}

OnePerId(rows) ==
    {chosen \in SUBSET rows :
        /\ Ids(chosen) = Ids(rows)
        /\ \A x, y \in chosen : x.kunnr = y.kunnr => x = y}

Latest(scans) ==
    {row \in Found(scans) :
        \E i \in DOMAIN scans :
            /\ row \in scans[i]
            /\ \A j \in DOMAIN scans : j > i => row.kunnr \notin Ids(scans[j])}

(* The rows whose chunk is at hand: some pass found them, and no NOT       *)
(* filter that comes after that pass excludes them.                        *)
Kept(scans, filters) ==
    {row \in Found(scans) :
        \E i \in DOMAIN scans :
            /\ row \in scans[i]
            /\ \A j \in i + 1 .. Len(filters) : ~ Excluded(row, filters[j])}

(* The result: of the customers ranked first, those whose chunk is at hand. *)
SearchOutcomes(table, filters) ==
    UNION {{{row \in chosen \cap Kept(scans, filters) : row.kunnr \in top} :
               chosen \in OnePerId(Latest(scans)),
               top \in UpTo(SearchLimit, Ids(Found(scans)))} :
              scans \in Scans(table, filters)}

(* execute_fallback_search: every word of the intent, or nothing at all    *)
(* when the intent has no word (the condition is then 1=0).                *)
ScanOutcomes(table, words) ==
    IF words = {} THEN {{}}
    ELSE UNION {OnePerId(rows) : rows \in UpTo(ScanLimit, Matching(table, words))}
=============================================================================
